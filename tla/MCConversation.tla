--------------------------- MODULE MCConversation ---------------------------
(* Conversation under several budgets: which hazards meet is chosen here. *)
EXTENDS Conversation

Budget(turns, snapshots, items, compactions, faults, ends) ==
  [b \in Bounded |-> CASE b = "turn" -> turns [] b = "snapshot" -> snapshots
                       [] b = "item" -> items [] b = "compact" -> compactions
                       [] b = "fault" -> faults [] b = "end" -> ends]

MCBudgets == { Budget(2, 2, 1, 1, 0, 0),   \* late snapshots, compaction and undo
               Budget(2, 2, 0, 1, 1, 0),   \* the same with an abort or a dead writer
               Budget(1, 1, 1, 1, 1, 1),   \* snapshots, a fault and a resume
               Budget(2, 0, 1, 1, 2, 2),   \* two faults and two resumes
               Budget(1, 0, 1, 2, 0, 1) }  \* two compactions and a resume
=============================================================================
