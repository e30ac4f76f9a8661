----------------------------- MODULE TokenLatch -----------------------------
(***************************************************************************)
(* What ReadinessFlag of codex-rs/utils/readiness and its tests make of    *)
(* the trait Readiness, without locks, atomics or channels: a one-shot     *)
(* latch.  Holders of a subscription keep it closed, any one of them may   *)
(* open it, and it opens by itself only while nobody holds a subscription. *)
(* (The trait's words on is_ready are stricter: a token has to be marked.) *)
(***************************************************************************)
EXTENDS Integers

VARIABLES open,        \* the flag is ready
          keys,        \* subscriptions that may open it
          lastKey      \* largest token handed out so far

Init == open = FALSE /\ keys = {} /\ lastKey = 0

\* A token is reserved before it is subscribed, so numbers may be skipped.
Reserve == lastKey' = lastKey + 1 /\ UNCHANGED <<open, keys>>

Subscribe == \E key \in 1 .. lastKey : 
                /\ ~open
                /\ keys' = keys \union {key}
                /\ UNCHANGED <<open, lastKey>>

OpenByKey == keys # {} /\ open' = TRUE /\ keys' = {} /\ UNCHANGED lastKey

\* "is_ready_without_subscribers_marks_flag_ready" (lib.rs:266, a test).
OpenUnclaimed == keys = {} /\ open' = TRUE /\ UNCHANGED <<keys, lastKey>>

Next == Reserve \/ Subscribe \/ OpenByKey \/ OpenUnclaimed

Spec == Init /\ [][Next]_<<open, keys, lastKey>>
=============================================================================
