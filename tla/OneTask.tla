------------------------------- MODULE OneTask -------------------------------
(***************************************************************************)
(* What a client of a session relies on (core/src/codex.rs: "A session has *)
(* at most 1 running task at a time, and can be interrupted by user        *)
(* input"): tasks run one after the other, each of them once.              *)
(***************************************************************************)
CONSTANTS Task, None      \* None is not a task

VARIABLES running,      \* the task that runs, or None
          started       \* the tasks that have been started

Init == running = None /\ started = {}

Start(t) == /\ running = None
            /\ t \notin started
            /\ running' = t
            /\ started' = started \union {t}

\* It completes, fails, or is cancelled.
Stop == /\ running # None
        /\ running' = None
        /\ UNCHANGED started

Next == Stop \/ \E t \in Task : Start(t)

Spec == Init /\ [][Next]_<<running, started>>
=============================================================================
