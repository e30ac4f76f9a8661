---------------------------- MODULE SessionTasks ----------------------------
(***************************************************************************)
(* One Codex session: the submission loop (core/src/codex.rs), the task    *)
(* lifecycle (core/src/tasks/mod.rs) and the state of the active turn      *)
(* (core/src/state/turn.rs).                                               *)
(*                                                                         *)
(* Two kinds of process share the mutex-protected active turn: the loop,   *)
(* which handles one submission after the other, and the tokio task of     *)
(* every turn it has spawned.  A handler is cut wherever it awaits         *)
(* something the other kind can change in the meantime.                    *)
(*                                                                         *)
(* A submission is known by its number; the number of the submission that  *)
(* spawned a turn is the turn's sub_id.                                    *)
(***************************************************************************)
EXTENDS Integers, Sequences

CONSTANTS MaxSubs,      \* bound: submissions the client sends
          MaxAsks       \* bound: approvals one turn asks for

ASSUME BoundsAssumption == MaxSubs \in Nat /\ MaxAsks \in Nat

Subs == 1 .. MaxSubs

\* No turn, no submission.
None == 0

(* What a submission is.  "input" is UserInput or UserTurn with items,      *)
(* "empty" the same without items, "work" is Undo, Compact or               *)
(* RunUserShellCommand, "review" is Review.  "interrupt" also stands for an *)
(* approval answered with Abort.                                            *)
TaskKinds == {"input", "empty", "work", "review"}
OpKinds   == TaskKinds \union {"interrupt", "approve", "deny", "shutdown"}

VARIABLES
    \* the submission loop
    lpc,            \* what it does next
    current,        \* the submission in hand
    victim,         \* the task abort_all_tasks has taken
    next,           \* number of the next submission
    kind,           \* kind[s]: what submission s is, "none" before
    answers,        \* answers[s] = <<turn, call>> for "approve" and "deny"
    \* Session.active_turn and the TurnState in it
    active,         \* the registered turn, or None
    pending,        \* pending_input: injected submissions
    approvals,      \* pending_approvals: turns with an entry under their sub_id
    \* the tasks
    pc,             \* what the task of a turn does next
    cancelled,      \* its CancellationToken
    aborted,        \* its JoinHandle has been aborted
    asks,           \* approvals it has requested
    reply,          \* what its oneshot receiver will yield
    \* what the outside sees
    recorded,       \* user inputs in the conversation history, in order
    ran,            \* <<turn, call>>: commands run on an approval
    completed,      \* turns reported by TaskComplete
    abortedBy       \* abortedBy[t]: submission that had t reported by TurnAborted

loopVars    == <<lpc, current, victim, next, kind, answers>>
turnVars    == <<active, pending, approvals>>
taskVars    == <<pc, cancelled, aborted, asks, reply>>
historyVars == <<recorded, ran, completed, abortedBy>>
vars        == <<loopVars, turnVars, taskVars, historyVars>>

LoopPC == {"idle", "inject", "check", "notify", "take", "cancel", "grace",
           "report", "spawn", "register", "close", "stopped"}

\* A task that can still do its work, and one past it.
Working == {"spawned", "take", "model", "work", "await", "flush", "finish"}
TaskPC  == Working \union {"none", "complete", "ended"}

Init ==
    /\ lpc = "idle" /\ current = None /\ victim = None /\ next = 1
    /\ kind = [s \in Subs |-> "none"]
    /\ answers = [s \in Subs |-> <<None, 0>>]
    /\ active = None /\ pending = <<>> /\ approvals = {}
    /\ pc = [t \in Subs |-> "none"]
    /\ cancelled = [t \in Subs |-> FALSE]
    /\ aborted = [t \in Subs |-> FALSE]
    /\ asks = [t \in Subs |-> 0]
    /\ reply = [t \in Subs |-> "none"]
    /\ recorded = <<>> /\ ran = {} /\ completed = {}
    /\ abortedBy = [t \in Subs |-> None]

-----------------------------------------------------------------------------
(* The submission loop                                                      *)

\* Where abort_all_tasks returns to.
AfterAbort == CASE kind[current] = "interrupt" -> "idle"
                [] kind[current] = "shutdown"  -> "close"
                [] OTHER                       -> "spawn"

\* Mutant of FirstStep: Shutdown does not abort the running task.
FirstStep_JustClose(k) == CASE k \in {"input", "empty"}   -> "inject"
                            [] k \in {"approve", "deny"}  -> "notify"
                            [] k = "interrupt"            -> "check"
                            [] k = "shutdown"             -> "close"
                            [] OTHER                      -> "take"

FirstStep(k) == CASE k \in {"input", "empty"}   -> "inject"
                  [] k \in {"approve", "deny"}  -> "notify"
                  [] k = "interrupt"            -> "check"
                  [] OTHER                      -> "take"

\* The next submission; an answer names a request the client has seen.
Receive(k) ==
    /\ lpc = "idle" /\ next <= MaxSubs
    /\ \/ k \notin {"approve", "deny"} /\ UNCHANGED answers
       \/ /\ k \in {"approve", "deny"}
          /\ \E t \in Subs : \E call \in 1 .. asks[t] :
                answers' = [answers EXCEPT ![next] = <<t, call>>]
    /\ kind' = [kind EXCEPT ![next] = k]
    /\ current' = next /\ next' = next + 1
    /\ lpc' = FirstStep(k)
    /\ UNCHANGED <<victim, turnVars, taskVars, historyVars>>

\* Mutant of Inject: newer input overtakes older input.
Inject_Front ==
    /\ lpc = "inject"
    /\ \/ /\ active # None
          /\ pending' = <<current>> \o pending
          /\ lpc' = "idle"
       \/ active = None /\ lpc' = "take" /\ UNCHANGED pending
    /\ UNCHANGED <<current, victim, next, kind, answers, active, approvals,
                   taskVars, historyVars>>

\* inject_input: hand the input to the turn that is active, if any.
Inject ==
    /\ lpc = "inject"
    /\ \/ /\ active # None
          /\ pending' = Append(pending, current)
          /\ lpc' = "idle"
       \/ active = None /\ lpc' = "take" /\ UNCHANGED pending
    /\ UNCHANGED <<current, victim, next, kind, answers, active, approvals,
                   taskVars, historyVars>>

\* interrupt_task looks for a turn and lets go of the lock.
CheckActive ==
    /\ lpc = "check"
    /\ lpc' = IF active # None THEN "take" ELSE "idle"
    /\ UNCHANGED <<current, victim, next, kind, answers, turnVars, taskVars,
                   historyVars>>

\* Mutant of Notify: the decision goes to whichever turn is active.
Notify_ActiveTurn ==
    LET turn == active
    IN  /\ lpc = "notify" /\ lpc' = "idle"
        /\ approvals' = approvals \ {turn}
        /\ reply' = IF turn \in approvals
                    THEN [reply EXCEPT ![turn] = kind[current]]
                    ELSE reply
        /\ UNCHANGED <<current, victim, next, kind, answers, active, pending,
                       pc, cancelled, aborted, asks, historyVars>>

\* notify_approval: the entry of that turn, in the turn that is active now.
Notify ==
    LET turn == answers[current][1]
    IN  /\ lpc = "notify" /\ lpc' = "idle"
        /\ approvals' = approvals \ {turn}
        /\ reply' = IF turn \in approvals
                    THEN [reply EXCEPT ![turn] = kind[current]]
                    ELSE reply
        /\ UNCHANGED <<current, victim, next, kind, answers, active, pending,
                       pc, cancelled, aborted, asks, historyVars>>

\* Dropping a TurnState drops the senders of its entries: a receiver that is
\* waiting gets the default decision, Denied.
DropTurn ==
    /\ active' = None /\ pending' = <<>> /\ approvals' = {}
    /\ reply' = [t \in Subs |-> IF t \in approvals THEN "deny" ELSE reply[t]]

\* take_all_running_tasks
Take ==
    /\ lpc = "take"
    /\ victim' = active
    /\ lpc' = IF active = None THEN AfterAbort ELSE "cancel"
    /\ DropTurn
    /\ UNCHANGED <<current, next, kind, answers, pc, cancelled, aborted, asks,
                   historyVars>>

\* Mutant of Cancel: the token is not cancelled.
Cancel_Skip ==
    /\ lpc = "cancel" /\ lpc' = "grace"
    /\ UNCHANGED <<current, victim, next, kind, answers, turnVars, taskVars,
                   historyVars>>

\* handle_task_abort.  Nobody else cancels the token, so its first check
\* (already cancelled) never returns.
Cancel ==
    /\ lpc = "cancel" /\ lpc' = "grace"
    /\ cancelled' = [cancelled EXCEPT ![victim] = TRUE]
    /\ UNCHANGED <<current, victim, next, kind, answers, turnVars, pc, aborted,
                   asks, reply, historyVars>>

\* Mutant of GraceOver: the handle is left alone.
GraceOver_NoAbort ==
    /\ lpc = "grace" /\ lpc' = "report"
    /\ UNCHANGED <<current, victim, next, kind, answers, turnVars, taskVars,
                   historyVars>>

\* The task has notified `done`, or 100 ms have passed, and the handle is
\* aborted.
GraceOver ==
    /\ lpc = "grace" /\ lpc' = "report"
    /\ aborted' = [aborted EXCEPT ![victim] = TRUE]
    /\ UNCHANGED <<current, victim, next, kind, answers, turnVars, pc,
                   cancelled, asks, reply, historyVars>>

\* Mutant of Report: a task that is replaced goes without a TurnAborted.
Report_OnlyInterrupt ==
    /\ lpc = "report" /\ lpc' = AfterAbort
    /\ abortedBy' = IF kind[current] \in TaskKinds THEN abortedBy
                    ELSE [abortedBy EXCEPT ![victim] = current]
    /\ UNCHANGED <<current, victim, next, kind, answers, turnVars, taskVars,
                   recorded, ran, completed>>

Report ==
    /\ lpc = "report" /\ lpc' = AfterAbort
    /\ abortedBy' = [abortedBy EXCEPT ![victim] = current]
    /\ UNCHANGED <<current, victim, next, kind, answers, turnVars, taskVars,
                   recorded, ran, completed>>

\* spawn_task: tokio::spawn, and only then register_new_active_task.
Spawn ==
    /\ lpc = "spawn" /\ lpc' = "register"
    /\ pc' = [pc EXCEPT ![current] = "spawned"]
    /\ UNCHANGED <<current, victim, next, kind, answers, turnVars, cancelled,
                   aborted, asks, reply, historyVars>>

Register ==
    /\ lpc = "register" /\ lpc' = "idle"
    /\ active' = current /\ pending' = <<>> /\ approvals' = {}
    /\ UNCHANGED <<current, victim, next, kind, answers, taskVars, historyVars>>

\* shutdown closes the rollout recorder, says so and leaves the loop.
Close ==
    /\ lpc = "close" /\ lpc' = "stopped"
    /\ UNCHANGED <<current, victim, next, kind, answers, turnVars, taskVars,
                   historyVars>>

LoopStep == \/ Inject \/ CheckActive \/ Notify \/ Take \/ Cancel \/ GraceOver
            \/ Report \/ Spawn \/ Register \/ Close

-----------------------------------------------------------------------------
(* The task of turn t                                                       *)

Goto(t, from, to) == pc[t] = from /\ pc' = [pc EXCEPT ![t] = to]

\* run_task records the input it was spawned with; without input it returns
\* at once.  The other tasks read neither their input nor pending_input.
Begin(t) ==
    /\ Goto(t, "spawned", CASE kind[t] = "input" -> "take"
                            [] kind[t] = "empty" -> "flush"
                            [] OTHER             -> "work")
    /\ recorded' = IF kind[t] = "input" THEN Append(recorded, t) ELSE recorded
    /\ UNCHANGED <<loopVars, turnVars, cancelled, aborted, asks, reply, ran,
                   completed, abortedBy>>

\* get_pending_input: whatever turn is active, its input is taken.
TakeInput(t) ==
    /\ Goto(t, "take", "model")
    /\ recorded' = recorded \o pending
    /\ pending' = <<>>
    /\ UNCHANGED <<loopVars, active, approvals, cancelled, aborted, asks,
                   reply, ran, completed, abortedBy>>

\* run_turn returns: a follow-up request or a compaction leads back to the top
\* of the loop; an answer, an error or the cancellation ends it.
ModelReturns(t) ==
    /\ \E to \in {"take", "flush"} : Goto(t, "model", to)
    /\ UNCHANGED <<loopVars, turnVars, cancelled, aborted, asks, reply,
                   historyVars>>

WorkDone(t) ==
    /\ Goto(t, "work", "flush")
    /\ UNCHANGED <<loopVars, turnVars, cancelled, aborted, asks, reply,
                   historyVars>>

\* request_command_approval and request_patch_approval.  With no active turn
\* the sender is kept out of the map and nobody can answer.
Ask(t) ==
    /\ pc[t] = "model" \/ (pc[t] = "work" /\ kind[t] = "review")
    /\ asks[t] < MaxAsks
    /\ asks' = [asks EXCEPT ![t] = @ + 1]
    /\ approvals' = IF active # None THEN approvals \union {t} ELSE approvals
    /\ reply' = [reply EXCEPT ![t] = "none"]
    /\ pc' = [pc EXCEPT ![t] = "await"]
    /\ UNCHANGED <<loopVars, active, pending, cancelled, aborted, historyVars>>

Answered(t) ==
    /\ reply[t] # "none"
    /\ Goto(t, "await", IF kind[t] = "review" THEN "work" ELSE "model")
    /\ ran' = IF reply[t] = "approve" THEN ran \union {<<t, asks[t]>>} ELSE ran
    /\ reply' = [reply EXCEPT ![t] = "none"]
    /\ UNCHANGED <<loopVars, turnVars, cancelled, aborted, asks, recorded,
                   completed, abortedBy>>

\* The tool call is dropped when the turn is cancelled.
StopWaiting(t) ==
    /\ cancelled[t]
    /\ Goto(t, "await", "flush")
    /\ UNCHANGED <<loopVars, turnVars, cancelled, aborted, asks, reply,
                   historyVars>>

\* After flush_rollout the task looks at its token: a cancelled task leaves
\* the reporting to whoever cancelled it.
CheckCancelled(t) ==
    /\ Goto(t, "flush", IF cancelled[t] THEN "ended" ELSE "finish")
    /\ UNCHANGED <<loopVars, turnVars, cancelled, aborted, asks, reply,
                   historyVars>>

\* Mutant of Finish: the turn that is active goes, whoever finishes.
Finish_AnyTurn(t) ==
    /\ Goto(t, "finish", "complete")
    /\ DropTurn
    /\ aborted' = [aborted EXCEPT ![t] = TRUE]
    /\ UNCHANGED <<loopVars, cancelled, asks, historyVars>>

\* on_task_finished: the task leaves the active turn, which goes when no task
\* is left in it.  The entry holds the task's own AbortOnDropHandle: the task
\* aborts itself, and is dropped if it yields once more before its end.
Finish(t) ==
    /\ Goto(t, "finish", "complete")
    /\ \/ /\ active = t /\ DropTurn
          /\ aborted' = [aborted EXCEPT ![t] = TRUE]
       \/ active # t /\ UNCHANGED <<turnVars, reply, aborted>>
    /\ UNCHANGED <<loopVars, cancelled, asks, historyVars>>

Complete(t) ==
    /\ Goto(t, "complete", "ended")
    /\ completed' = completed \union {t}
    /\ UNCHANGED <<loopVars, turnVars, cancelled, aborted, asks, reply,
                   recorded, ran, abortedBy>>

\* An aborted task is dropped when it next yields; until then it may go on.
\* Sending TaskComplete is such a place: send_event locks the rollout recorder.
Die(t) ==
    /\ aborted[t]
    /\ pc[t] \in TaskPC \ {"none", "ended"}
    /\ pc' = [pc EXCEPT ![t] = "ended"]
    /\ UNCHANGED <<loopVars, turnVars, cancelled, aborted, asks, reply,
                   historyVars>>

TaskStep(t) == \/ Begin(t) \/ TakeInput(t) \/ ModelReturns(t) \/ WorkDone(t)
               \/ Ask(t) \/ Answered(t) \/ StopWaiting(t) \/ CheckCancelled(t)
               \/ Finish(t) \/ Complete(t) \/ Die(t)

-----------------------------------------------------------------------------
Next == \/ \E k \in OpKinds : Receive(k)
        \/ LoopStep
        \/ \E t \in Subs : TaskStep(t)

Spec == Init /\ [][Next]_vars

\* Tokio runs what can run, the grace period ends, and a task that has been
\* aborted yields.  Nothing makes the client send or answer.
FairSpec == /\ Spec
            /\ WF_vars(LoopStep)
            /\ \A t \in Subs : WF_vars(TaskStep(t)) /\ WF_vars(Die(t))

-----------------------------------------------------------------------------
TypeOK ==
    /\ lpc \in LoopPC
    /\ current \in Subs \union {None} /\ victim \in Subs \union {None}
    /\ next \in 1 .. MaxSubs + 1
    /\ kind \in [Subs -> OpKinds \union {"none"}]
    /\ answers \in [Subs -> (Subs \union {None}) \X (0 .. MaxAsks)]
    /\ active \in Subs \union {None}
    /\ pending \in Seq(Subs) /\ approvals \subseteq Subs
    /\ pc \in [Subs -> TaskPC]
    /\ cancelled \in [Subs -> BOOLEAN] /\ aborted \in [Subs -> BOOLEAN]
    /\ asks \in [Subs -> 0 .. MaxAsks]
    /\ reply \in [Subs -> {"none", "approve", "deny"}]
    /\ recorded \in Seq(Subs)
    /\ ran \subseteq Subs \X (1 .. MaxAsks)
    /\ completed \subseteq Subs
    /\ abortedBy \in [Subs -> Subs \union {None}]

\* A task at work that nobody has cancelled.
Running(t) == pc[t] \in Working /\ ~cancelled[t]

\* "A session has at most 1 running task at a time": the task of a new turn
\* starts only after the old one has finished or been cancelled.
OneRunningTask == \A s, t \in Subs : Running(s) /\ Running(t) => s = t

\* No orphan: a running task is the active turn, and can so be interrupted and
\* given input, except while the loop is between spawning and registering it
\* or between taking and cancelling it.
RunningTaskIsActive ==
    \A t \in Subs : Running(t) =>
        \/ active = t
        \/ lpc = "register" /\ current = t
        \/ lpc = "cancel" /\ victim = t

\* A command runs on an approval only if the client approved one of that turn:
\* an answer never reaches another turn.
ApprovedByClient ==
    \A r \in ran : \E s \in Subs : kind[s] = "approve" /\ answers[s][1] = r[1]

\* An input enters the history at most once, whether it started its turn or was
\* injected into one, and unless the loop had to abort a task the inputs enter it
\* in the order in which they were submitted.
InputsInOrder ==
    /\ \A i, j \in DOMAIN recorded : recorded[i] = recorded[j] => i = j
    /\ (\A t \in Subs : aborted[t] => ~cancelled[t]) =>
          \A i, j \in DOMAIN recorded : i < j => recorded[i] < recorded[j]

\* After the loop has left on Shutdown no task is running.
ShutdownStopsTasks == lpc = "stopped" => \A t \in Subs : ~Running(t)

\* The turn that is active is removed only by the loop or by its own task: a
\* task that outlives its abort cannot take the turn that replaced it away.
OnlyOwnerRemovesTurn ==
    [][active # None /\ active' # active =>
         lpc = "take" \/ pc[active] = "finish"]_vars

\* The tasks of a session run one after the other (OneTask).
RunningTask  == IF \E t \in Subs : Running(t)
                THEN CHOOSE t \in Subs : Running(t) ELSE None
StartedTasks == {t \in Subs : pc[t] # "none"}

Tasks == INSTANCE OneTask
            WITH Task <- Subs, running <- RunningTask, started <- StartedTasks

ImplementsOneTask == Tasks!Spec

\* A task that has come to its end is reported, by itself or by whoever
\* cancelled it in the meantime, unless its own abort drops it on the way.
EndIsReported ==
    \A t \in Subs :
        (pc[t] = "flush") ~> \/ t \in completed \/ abortedBy[t] # None
                             \/ pc[t] = "ended" /\ aborted[t] /\ ~cancelled[t]

\* A task that is cancelled is gone in the end, even one that ignores its token.
CancelledTaskEnds == \A t \in Subs : cancelled[t] ~> (pc[t] = "ended")
=============================================================================
