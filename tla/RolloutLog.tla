----------------------------- MODULE RolloutLog -----------------------------
(***************************************************************************)
(* What a rollout file promises to those who record into it and to those   *)
(* who read it at a resume. Entries are numbered in the order in which     *)
(* they are taken in, and decided on in that order: an entry is read back  *)
(* or lost. Later an entry can be lost only while nothing is read behind   *)
(* it, and never once its recorder has been told that it is written; but   *)
(* what interrupts the recording of an entry can spoil the whole file, and *)
(* then nothing is read back, and nothing is recorded, ever again.         *)
(***************************************************************************)
EXTENDS Naturals

VARIABLES taken,    \* how many entries have been taken in, ever
          decided,  \* how many of them have been decided on
          kept,     \* those that are read back
          acked,    \* those read back whose recorder has been told so
          readable  \* the file can be read

Init == taken = 0 /\ decided = 0 /\ kept = {} /\ acked = {} /\ readable = TRUE

TakeIn == /\ readable
          /\ taken' = taken + 1
          /\ UNCHANGED <<decided, kept, acked, readable>>

\* What may be kept: what was, one entry more, or all but the last.
Outcome(n) == {kept, kept \union {n}}
                \union { kept \ {m} : m \in {k \in kept \ acked : \A j \in kept : j <= k} }

Decide == /\ readable /\ decided < taken
          /\ decided' = decided + 1
          /\ kept' \in Outcome(decided')
          /\ UNCHANGED <<taken, acked, readable>>

\* All that is taken in is decided on; only the first of it may be kept.
Interrupt == /\ readable
             /\ decided' = taken
             /\ kept' \in IF decided < taken THEN Outcome(decided + 1) ELSE {kept}
             /\ UNCHANGED <<taken, acked, readable>>

\* An interruption that spoils the file.
Spoil == /\ readable /\ decided < taken
         /\ decided' = taken
         /\ kept' = {} /\ acked' = {} /\ readable' = FALSE
         /\ UNCHANGED taken

Acknowledge == /\ readable
               /\ acked \subseteq acked' /\ acked' \subseteq kept
               /\ UNCHANGED <<taken, decided, kept, readable>>

Next == TakeIn \/ Decide \/ Interrupt \/ Spoil \/ Acknowledge

Spec == Init /\ [][Next]_<<taken, decided, kept, acked, readable>>
=============================================================================
