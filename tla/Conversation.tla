---------------------------- MODULE Conversation ----------------------------
(***************************************************************************)
(* The history of a conversation and its rollout file: turns record what   *)
(* they add, ghost snapshots arrive when they are done, compaction and     *)
(* undo replace the history, the process may end at any point, and a       *)
(* session that is resumed rebuilds the history from the file.             *)
(*                                                                         *)
(* An item is recorded in the history first and sent to the recorder in a  *)
(* later step (record_conversation_items): hand is the entry in between.   *)
(***************************************************************************)
EXTENDS Rollout, SequencesExt

CONSTANTS MaxRetries,   \* stream_max_retries of a compaction
          KeptUsers,    \* user messages that fit in a compacted history
          Budgets       \* bounds: each says how often a behaviour does what

\* A turn starts, one takes a snapshot, the model adds an item (in a turn or
\* while compacting), a compaction starts, a fault (an abort, a write that
\* fails or a crash), the process ends.
Bounded == {"turn", "snapshot", "item", "compact", "fault", "end"}

ASSUME ConversationAssumption ==
  /\ MaxRetries \in Nat /\ KeptUsers \in Nat
  /\ Budgets \subseteq [Bounded -> Nat]

VARIABLES history,  \* ContextManager.items
          task,     \* what runs: "none", "start", "turn", "compact" or "undo"
          pc,       \* where it is
          hand,     \* the entry it has recorded and not yet sent, if any
          copy,     \* its copy of the history
          retries,  \* of its compaction
          taking,   \* the turns whose ghost snapshot is being taken
          unsent,   \* those whose snapshot is recorded and not yet sent
          remote,   \* should_use_remote_compact_task, fixed for a session
          session,  \* "live", "closing" or "down"
          cut,      \* since the session began, an abort has come between
                    \* a recording and its sending
          left      \* what is left of the budget

local == <<history, task, pc, hand, copy, retries, taking, unsent, remote, session, cut>>
vars == <<rollout, local, left>>

Spend(what) == left[what] > 0 /\ left' = [left EXCEPT ![what] = @ - 1]

\* Turns are numbered by how many were left when they began.
Turn == left["turn"] + 1

Kinds == {"context", "user", "reply", "draft", "summary", "ghost", "remote", "prompt"}
Item(kind, n) == [kind |-> kind, n |-> n]
Context == Item("context", 0)

\* The items of some kinds, in order.
OfKinds(items, kinds) ==
  FlattenSeq([i \in DOMAIN items |-> IF items[i].kind \in kinds THEN <<items[i]>> ELSE <<>>])
Ghosts(items) == OfKinds(items, {"ghost"})

\* What the model is sent (get_history_for_prompt): no ghost snapshots.
Prompt(items) == OfKinds(items, Kinds \ {"ghost"})

\* get_last_assistant_message_from_turn: the number of the item, or 0.
LastMessage(items) ==
  LET messages == OfKinds(items, {"reply", "draft"})
  IN  IF messages = <<>> THEN 0 ELSE Last(messages).n

\* build_compacted_history: context, the newest user messages, the summary.
Compacted(items, summary) ==
  LET asked == OfKinds(items, {"user"})
      first == IF Len(asked) > KeptUsers THEN Len(asked) - KeptUsers + 1 ELSE 1
  IN  <<Context>> \o SubSeq(asked, first, Len(asked)) \o <<summary>>

\* The two forms of RolloutItem::Compacted: without and with the history that
\* replaced the old one.
LocalEntry(summary) == [kind |-> "compacted", by |-> "local", with |-> <<summary>>]
RemoteEntry(items) == [kind |-> "compacted", by |-> "remote", with |-> items]

\* reconstruct_history_from_rollout
Replayed(items, entry) ==
  IF entry.kind # "compacted" THEN Append(items, entry)
  ELSE IF entry.by = "remote" THEN entry.with
  ELSE Compacted(items, entry.with[1])

Reconstruct(entries) ==
  LET after[i \in 0 .. Len(entries)] ==
        IF i = 0 THEN <<>> ELSE Replayed(after[i-1], entries[i])
  IN  after[Len(entries)]

\* The entries with these numbers, in order.
Entries(numbers) ==
  FlattenSeq([n \in DOMAIN sent |-> IF n \in numbers THEN <<sent[n]>> ELSE <<>>])
-----------------------------------------------------------------------------
Init ==
  /\ RolloutInit
  /\ history = <<Context>> /\ hand = <<Context>>
  /\ task = "start" /\ pc = "flush" /\ session = "live"
  /\ copy = <<>> /\ retries = 0
  /\ taking = {} /\ unsent = {}
  /\ remote \in BOOLEAN
  /\ cut = FALSE
  /\ left \in Budgets

Goto(where) == pc' = where
At(where) == pc = where /\ hand = <<>>
Quiet == UNCHANGED <<rollout, remote, session, cut>>

\* Records an item in the history; it is sent next.
Record(item) == history' = Append(history, item) /\ hand' = <<item>>

\* persist_rollout_items, the second half of every recording.
Persist ==
  /\ hand # <<>>
  /\ Send(hand[1])
  /\ hand' = <<>>
  /\ UNCHANGED <<history, task, pc, copy, retries, taking, unsent, remote, session, cut, left>>

\* run_task up to its first request.
StartTurn ==
  /\ session = "live" /\ task = "none" /\ Spend("turn")
  /\ task' = "turn" /\ Goto("begun")
  /\ Record(Item("user", left["turn"]))
  /\ Quiet /\ UNCHANGED <<copy, retries, taking, unsent>>

\* maybe_start_ghost_snapshot; the feature may be off.
StartGhost ==
  /\ At("begun") /\ Goto("model")
  /\ IF left["snapshot"] > 0
     THEN Spend("snapshot") /\ taking' = taking \union {Turn}
     ELSE UNCHANGED <<left, taking>>
  /\ Quiet /\ UNCHANGED <<history, task, hand, copy, retries, unsent>>

\* GhostSnapshotTask::run, beside whatever task runs by then.
GhostTaken ==
  /\ \E t \in taking :
        /\ taking' = taking \ {t}
        /\ \/ history' = Append(history, Item("ghost", t)) /\ unsent' = unsent \union {t}
           \/ UNCHANGED <<history, unsent>>
  /\ Quiet /\ UNCHANGED <<task, pc, hand, copy, retries, left>>

GhostSent ==
  /\ \E t \in unsent : unsent' = unsent \ {t} /\ Send(Item("ghost", t))
  /\ UNCHANGED <<history, task, pc, hand, copy, retries, taking, remote, session, cut, left>>

\* An item of the model's answer, or the output of a tool call.
Reply ==
  /\ task = "turn" /\ At("model") /\ Spend("item")
  /\ Record(Item("reply", left["item"]))
  /\ Quiet /\ UNCHANGED <<task, pc, copy, retries, taking, unsent>>

TurnEnds ==
  /\ task = "turn" /\ At("model") /\ Goto("flush")
  /\ Quiet /\ UNCHANGED <<history, task, hand, copy, retries, taking, unsent, left>>
-----------------------------------------------------------------------------
\* Compaction, at the limit of a turn or as a task of its own. The copy is
\* what the first request sends; a local one ends with the prompt.
Compact ==
  /\ Spend("compact")
  /\ \/ task = "turn" /\ At("model") /\ UNCHANGED task
     \/ session = "live" /\ task = "none" /\ task' = "compact"
  /\ Goto(IF remote THEN "request" ELSE "attempt")
  /\ copy' = IF remote THEN history ELSE Append(history, Item("prompt", 0))
  /\ retries' = 0
  /\ Quiet /\ UNCHANGED <<history, hand, taking, unsent>>

\* Where a compaction returns to: the loop of run_task, or the end of its task.
Return == /\ Goto(IF task = "turn" THEN "model" ELSE "flush")
          /\ copy' = <<>> /\ retries' = 0

\* drain_to_completed: an item goes to the history, and is not sent.
Draft ==
  /\ At("attempt") /\ Spend("item")
  /\ history' = Append(history, Item("draft", left["item"]))
  /\ Quiet /\ UNCHANGED <<task, pc, hand, copy, retries, taking, unsent>>

\* The request is answered: clone_history takes a second copy.
AttemptCompletes ==
  /\ At("attempt") /\ Goto("replace")
  /\ copy' = history /\ retries' = 0
  /\ Quiet /\ UNCHANGED <<history, task, hand, taking, unsent, left>>


\* ContextWindowExceeded: the copy loses its oldest item, if it can.
AttemptTooLong ==
  /\ At("attempt")
  /\ IF Len(Prompt(copy)) > 1
     THEN copy' = Tail(copy) /\ retries' = 0 /\ UNCHANGED pc
     ELSE Return
  /\ Quiet /\ UNCHANGED <<history, task, hand, taking, unsent, left>>

\* Any other error: retried, unless no retry is left or it is Interrupted.
AttemptFails ==
  /\ At("attempt")
  /\ \/ retries < MaxRetries /\ retries' = retries + 1 /\ UNCHANGED <<pc, copy>>
     \/ Return
  /\ Quiet /\ UNCHANGED <<history, task, hand, taking, unsent, left>>

\* Mutant of Replace: the new history has no snapshots.
Replace_NoSnapshots ==
  /\ At("replace") /\ Return
  /\ LET summary == Item("summary", LastMessage(copy))
     IN  /\ history' = Compacted(copy, summary)
         /\ hand' = <<LocalEntry(summary)>>
  /\ Quiet /\ UNCHANGED <<task, taking, unsent, left>>

\* replace_history of a local compaction; the log gets the summary alone.
Replace ==
  /\ At("replace") /\ Return
  /\ LET summary == Item("summary", LastMessage(copy))
     IN  /\ history' = Compacted(copy, summary) \o Ghosts(copy)
         /\ hand' = <<LocalEntry(summary)>>
  /\ Quiet /\ UNCHANGED <<task, taking, unsent, left>>

\* Mutant of RemoteReplace: the log gets no replacement.
RemoteReplace_NotTold ==
  /\ At("request") /\ Return
  /\ history' = <<Item("remote", left["compact"])>> \o Ghosts(copy)
  /\ hand' = <<LocalEntry(history'[1])>>
  /\ Quiet /\ UNCHANGED <<task, taking, unsent, left>>

\* compact_conversation_history returns: what the server keeps is one item.
RemoteReplace ==
  /\ At("request") /\ Return
  /\ history' = <<Item("remote", left["compact"])>> \o Ghosts(copy)
  /\ hand' = <<RemoteEntry(history')>>
  /\ Quiet /\ UNCHANGED <<task, taking, unsent, left>>

RemoteFails ==
  /\ At("request") /\ Return
  /\ Quiet /\ UNCHANGED <<history, task, hand, taking, unsent, left>>
-----------------------------------------------------------------------------
\* UndoTask::run
StartUndo ==
  /\ session = "live" /\ task = "none" /\ Ghosts(history) # <<>>
  /\ task' = "undo" /\ Goto("restore")
  /\ copy' = history
  /\ Quiet /\ UNCHANGED <<history, hand, retries, taking, unsent, left>>

LastGhost(items) == CHOOSE i \in DOMAIN items :
                      items[i].kind = "ghost" /\ \A j \in i + 1 .. Len(items) : items[j].kind # "ghost"

\* The commit is restored: the copy is written back without it, the log is
\* told nothing.
Restored ==
  /\ At("restore") /\ Goto("flush")
  /\ history' = RemoveAt(copy, LastGhost(copy))
  /\ copy' = <<>>
  /\ Quiet /\ UNCHANGED <<task, hand, retries, taking, unsent, left>>

RestoreFails ==
  /\ At("restore") /\ Goto("flush")
  /\ copy' = <<>>
  /\ Quiet /\ UNCHANGED <<history, task, hand, retries, taking, unsent, left>>
-----------------------------------------------------------------------------
\* flush_rollout at the end of every task, and of the start of the session.
StartFlush ==
  /\ At("flush") /\ Goto("flushing")
  /\ Flush
  /\ UNCHANGED <<history, task, hand, copy, retries, taking, unsent, remote, session, cut, left>>

TaskEnds ==
  /\ At("flushing") /\ ack # "waiting"
  /\ task' = "none" /\ Goto("idle")
  /\ ForgetFlush
  /\ UNCHANGED <<history, hand, copy, retries, taking, unsent, remote, session, cut, left>>

\* Everything the task was going to do is left undone, and the snapshot of a
\* turn stops with it (SessionTasks and TurnLoop have the steps of an abort).
Drop ==
  /\ task' = "none" /\ Goto("idle")
  /\ IF task = "turn" THEN taking' = taking \ {Turn} /\ unsent' = unsent \ {Turn}
     ELSE UNCHANGED <<taking, unsent>>
  /\ cut' = (cut \/ hand # <<>>)
  /\ hand' = <<>> /\ copy' = <<>> /\ retries' = 0

Abort ==
  /\ session = "live" /\ task \notin {"none", "start"}
  /\ Spend("fault")
  /\ Drop
  /\ IF pc = "flushing" THEN ForgetFlush ELSE UNCHANGED rollout
  /\ UNCHANGED <<history, remote, session>>

\* Session::shutdown: its tasks are aborted first.
Shutdown ==
  /\ session = "live" /\ task = "none" /\ Spend("end")
  /\ session' = "closing"
  /\ TakeRecorder
  /\ UNCHANGED <<history, task, pc, hand, copy, retries, taking, unsent, remote, cut>>

ProcessGone ==
  /\ session' = "down"
  /\ ProcessEnds
  /\ history' = <<>> /\ hand' = <<>> /\ copy' = <<>> /\ retries' = 0
  /\ task' = "none" /\ Goto("idle")
  /\ taking' = {} /\ unsent' = {}
  /\ UNCHANGED <<remote, cut>>

Exit == session = "closing" /\ Drained /\ ProcessGone /\ UNCHANGED left

Crash ==
  /\ session = "live" /\ left["fault"] > 0 /\ left["end"] > 0
  /\ left' = [left EXCEPT !["fault"] = @ - 1, !["end"] = @ - 1]
  /\ ProcessGone

\* record_initial_history of a resumed session.
Resume ==
  /\ session = "down" /\ Readable # {}
  /\ session' = "live"
  /\ Reopen
  /\ history' = Reconstruct(Entries(Readable))
  /\ task' = "start" /\ Goto("flush")
  /\ cut' = FALSE
  /\ UNCHANGED <<hand, copy, retries, taking, unsent, remote, left>>

Fault == WriteFails /\ Spend("fault") /\ UNCHANGED local

Writer == /\ WriteLine \/ FlushDone
          /\ UNCHANGED <<local, left>>

Step == \/ Persist \/ StartGhost \/ TurnEnds \/ AttemptCompletes \/ AttemptTooLong \/ AttemptFails
        \/ Replace \/ RemoteReplace \/ RemoteFails \/ Restored \/ RestoreFails
        \/ StartFlush \/ TaskEnds \/ Reply \/ Draft \/ Compact

Next ==
  \/ StartTurn \/ StartUndo \/ Step
  \/ GhostTaken \/ GhostSent
  \/ Abort \/ Shutdown \/ Exit \/ Crash \/ Resume
  \/ Writer \/ Fault

Spec == Init /\ [][Next]_vars
\* A streamed request to the model ends (its stream has an idle time-out), the
\* disk answers, and a task that can go on does. Nothing is assumed of the
\* client, of snapshots, of a restore, or of a remote compaction, whose one
\* request has no time-out; what a turn still records is up to the model.
FairSpec ==
  /\ Spec
  /\ WF_vars(Persist) /\ WF_vars(StartGhost)
  /\ WF_vars(AttemptCompletes \/ AttemptTooLong \/ AttemptFails)
  /\ WF_vars(Replace) /\ WF_vars(StartFlush)
  /\ WF_vars(TaskEnds) /\ WF_vars(Writer)
-----------------------------------------------------------------------------
IsItem(x) == x.kind \in Kinds /\ x.n \in Nat
AreItems(items) == \A i \in DOMAIN items : IsItem(items[i])

\* The type of every variable.
TypeOK ==
  /\ RolloutTypeOK
  /\ AreItems(history) /\ AreItems(copy)
  /\ task \in {"none", "start", "turn", "compact", "undo"}
  /\ pc \in {"idle", "begun", "model", "attempt", "replace", "request",
             "restore", "flush", "flushing"}
  /\ Len(hand) <= 1
  /\ taking \union unsent \subseteq Nat
  /\ retries \in 0 .. MaxRetries
  /\ remote \in BOOLEAN /\ cut \in BOOLEAN
  /\ session \in {"live", "closing", "down"}
  /\ left \in [Bounded -> Nat]

\* What a resume would show the model if the process ended once all that is
\* queued and in hand is written.
Told == Prompt(Reconstruct(Entries(Readable \union next + 1 .. Len(sent)) \o hand))

\* No entry of this session has been lost: no write failed, none was written
\* onto a torn line, and no abort came between the two halves of a recording.
NothingLost == /\ session = "live" /\ writer = "up" /\ tail = 0 /\ ~cut
               /\ opened + 1 .. next \subseteq Readable

\* "test input after compact before resume is the same as input after resume"
\* (core/tests/suite/compact_resume_fork.rs:645): at every moment the file and
\* what is on its way to it tell the history the live session shows the model,
\* but for the items of compaction attempts, which are never sent.
LogTellsHistory ==
  NothingLost => Told = OfKinds(history, Kinds \ {"ghost", "draft"})

Snapshots == {history[i].n : i \in {j \in DOMAIN history : history[j].kind = "ghost"}}
CopiedSnapshots == {copy[i].n : i \in {j \in DOMAIN copy : copy[j].kind = "ghost"}}

\* "Required to keep `/undo` available after compaction" (compact_remote.rs):
\* while a session lasts a snapshot leaves the history only by the undo that
\* restores it, or because it came after the copy that replaces the history;
\* and it enters the history only once, so that no undo restores it twice.
SnapshotsAccounted ==
  [][session = "live" /\ session' = "live" =>
       /\ \A t \in (Snapshots \ Snapshots') \intersect CopiedSnapshots :
             pc = "restore" /\ copy[LastGhost(copy)].n = t
       /\ \A t \in Snapshots' \ Snapshots : t \in taking]_vars


\* A task that flushes goes on, also when the writer ends under it: its end is
\* reported behind the flush (tasks/mod.rs:136).
FlushReturns == pc = "flushing" ~> pc = "idle"
=============================================================================
