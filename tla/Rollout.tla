------------------------------ MODULE Rollout ------------------------------
(***************************************************************************)
(* The rollout file of a session (core/src/rollout/recorder.rs): a bounded *)
(* channel, a task that writes one line per entry and ends at its first    *)
(* error, and the file, which outlives the process and is appended to when *)
(* the session is resumed.                                                 *)
(*                                                                         *)
(* Entries are numbered: sent[n] is the n-th one the channel has accepted. *)
(* A file whose last write was cut within a character is not text, and no  *)
(* part of it is read. Left out are the entries a rebuild ignores (session *)
(* meta, turn context, events), and with them the refusal of a file that   *)
(* has no meta line.                                                       *)
(***************************************************************************)
EXTENDS Integers, Sequences

CONSTANT ChannelSize   \* slots of the channel; 256 in the code

ASSUME ChannelAssumption == ChannelSize \in Nat \ {0}

VARIABLES sent,      \* the entries the channel has accepted, ever
          next,      \* how many of them the writer has taken; the rest is queued
          writer,    \* "up" or "ended"
          recorder,  \* the session still has its RolloutRecorder
          lines,     \* the lines of the file: the entry, negative if garbled
          tail,      \* behind the last newline: 0 nothing, Torn, Cut, or an entry
          flushAt,   \* the entry behind which a Flush is queued, or None
          ack,       \* what the caller of the last flush has been told
          flushed,   \* the entries covered by a flush that has returned
          opened     \* how many entries had been sent when the file was opened

rollout == <<sent, next, writer, recorder, lines, tail, flushAt, ack, flushed, opened>>

None == -1
Torn == -1   \* a part of a line, which is text
Cut == -2    \* a part of a line that ends within a character

Queued == Len(sent) - next + IF flushAt = None THEN 0 ELSE 1

\* The entries that the file has whole.
Stored == {n \in 1 .. Len(sent) : n = tail \/ \E i \in DOMAIN lines : lines[i] = n}

\* The entries get_rollout_history finds: a line that does not parse is skipped,
\* but read_to_string fails on bytes that are no text, wherever they are.
Readable == IF tail = Cut THEN {} ELSE Stored

RolloutInit ==
  /\ sent = <<>> /\ next = 0 /\ lines = <<>> /\ tail = 0
  /\ writer = "up" /\ recorder = TRUE
  /\ flushAt = None /\ ack = "none" /\ flushed = {} /\ opened = 0

\* persist_rollout_items: waits for a slot; an error is only logged.
Send(entry) ==
  /\ IF recorder /\ writer = "up"
     THEN Queued < ChannelSize /\ sent' = Append(sent, entry)
     ELSE UNCHANGED sent
  /\ UNCHANGED <<next, writer, recorder, lines, tail, flushAt, ack, flushed, opened>>

\* The entry the writer has in hand, unless a Flush comes first.
HasEntry == writer = "up" /\ next < Len(sent) /\ flushAt # next

\* write_line: behind a torn tail, the line is one with it and does not parse.
WriteLine ==
  /\ HasEntry
  /\ next' = next + 1
  /\ lines' = Append(lines, IF tail = 0 THEN next' ELSE -next')
  /\ tail' = 0
  /\ UNCHANGED <<sent, writer, recorder, flushAt, ack, flushed, opened>>

\* What a write that does not finish leaves behind the last newline: nothing
\* more, a part of the line (perhaps not whole characters), or all of it but
\* the newline.
Unfinished == {tail, Torn, Cut} \union IF tail = 0 THEN {next + 1} ELSE {}

\* Mutant of WriteFails: the writer goes on behind the error.
WriteFails_GoesOn ==
  /\ HasEntry
  /\ next' = next + 1
  /\ tail' \in Unfinished
  /\ UNCHANGED <<sent, writer, recorder, lines, flushAt, ack, flushed, opened>>

\* Mutant of WriteFails: whoever waits for a flush is not told.
WriteFails_NoAnswer ==
  /\ HasEntry
  /\ writer' = "ended"
  /\ next' = Len(sent)
  /\ tail' \in Unfinished
  /\ flushAt' = None
  /\ UNCHANGED <<sent, recorder, lines, ack, flushed, opened>>

\* An error ends the writer; what is queued is dropped with the channel.
WriteFails ==
  /\ HasEntry
  /\ writer' = "ended"
  /\ next' = Len(sent)
  /\ tail' \in Unfinished
  /\ flushAt' = None
  /\ ack' = IF flushAt = None THEN ack ELSE "err"
  /\ UNCHANGED <<sent, recorder, lines, flushed, opened>>

\* RolloutRecorder::flush, up to its wait; without a recorder or a writer it
\* returns at once.
Flush ==
  /\ flushAt = None
  /\ IF recorder /\ writer = "up"
     THEN Queued < ChannelSize /\ flushAt' = Len(sent) /\ ack' = "waiting"
     ELSE ack' = "err" /\ UNCHANGED flushAt
  /\ UNCHANGED <<sent, next, writer, recorder, lines, tail, flushed, opened>>

\* Mutant of FlushDone: a Flush overtakes the entries before it.
FlushDone_Early ==
  /\ writer = "up" /\ flushAt # None
  /\ flushAt' = None
  /\ ack' = "ok"
  /\ flushed' = flushed \union opened + 1 .. flushAt
  /\ UNCHANGED <<sent, next, writer, recorder, lines, tail, opened>>

\* Every line is flushed as it is written, so that a Flush cannot fail.
FlushDone ==
  /\ writer = "up" /\ flushAt = next
  /\ flushAt' = None
  /\ ack' = "ok"
  /\ flushed' = flushed \union opened + 1 .. flushAt
  /\ UNCHANGED <<sent, next, writer, recorder, lines, tail, opened>>

\* The caller is gone: its Flush stays in the channel and answers to nobody.
ForgetFlush ==
  /\ flushAt' = None /\ ack' = "none"
  /\ UNCHANGED <<sent, next, writer, recorder, lines, tail, flushed, opened>>

\* Session::shutdown takes the recorder, and then waits until it is Drained.
TakeRecorder ==
  /\ recorder' = FALSE
  /\ UNCHANGED <<sent, next, writer, lines, tail, flushAt, ack, flushed, opened>>

Drained == writer = "ended" \/ next = Len(sent)

\* The process ends, perhaps within a write.
ProcessEnds ==
  /\ writer' = "ended"
  /\ next' = Len(sent)
  /\ tail' \in IF HasEntry THEN Unfinished ELSE {tail}
  /\ flushAt' = None /\ ack' = "none"
  /\ UNCHANGED <<sent, recorder, lines, flushed, opened>>

\* RolloutRecorder::new for a file that exists: it is opened to be appended to,
\* when its history has been read.
Reopen ==
  /\ writer = "ended" /\ tail # Cut
  /\ writer' = "up" /\ recorder' = TRUE
  /\ opened' = Len(sent)
  /\ UNCHANGED <<sent, next, lines, tail, flushAt, ack, flushed>>

RolloutNext ==
  \/ \E entry : Send(entry)
  \/ WriteLine \/ WriteFails
  \/ Flush \/ FlushDone \/ ForgetFlush
  \/ TakeRecorder \/ ProcessEnds \/ Reopen

RolloutSpec == RolloutInit /\ [][RolloutNext]_rollout
-----------------------------------------------------------------------------
RolloutTypeOK ==
  /\ Len(sent) \in Nat /\ DOMAIN sent = 1 .. Len(sent)
  /\ next \in 0 .. Len(sent) /\ opened \in 0 .. Len(sent)
  /\ writer \in {"up", "ended"} /\ recorder \in BOOLEAN
  /\ lines \in Seq(-next .. next) /\ tail \in Cut .. Len(sent)
  /\ flushAt \in {None} \union next .. Len(sent)
  /\ ack \in {"none", "waiting", "ok", "err"}
  /\ flushed \subseteq 1 .. Len(sent)

\* "Flush all queued writes and wait until they are committed" (recorder.rs):
\* what a flush has acknowledged has a line in the file, whatever happens later.
\* It is read back, with two exceptions: the first entry after an opening, which
\* may have been written onto a torn line, and all of a file whose last write
\* was cut within a character; to that one nothing is written any more. What is
\* read is in the order of recording.
FlushedIsRead ==
  /\ \A n \in flushed : \E i \in DOMAIN lines : lines[i] \in {n, -n}
  /\ IF tail = Cut THEN writer = "ended"
     ELSE \A n \in flushed \ Readable : \E i \in DOMAIN lines : lines[i] = -n
  /\ \A i \in DOMAIN lines : -lines[i] <= opened + 1
  /\ \A i, j \in DOMAIN lines : i < j /\ lines[i] > 0 /\ lines[j] > 0 => lines[i] < lines[j]
  /\ tail > 0 => \A i \in DOMAIN lines : lines[i] < tail

\* The recorder keeps the promises of RolloutLog.
Promise == INSTANCE RolloutLog WITH taken <- Len(sent), decided <- next,
                                    kept <- Readable, acked <- flushed \intersect Readable,
                                    readable <- tail # Cut

ImplementsRolloutLog == Promise!Spec
=============================================================================
