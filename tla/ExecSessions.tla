---------------------------- MODULE ExecSessions ----------------------------
(***************************************************************************)
(* The persistent processes of the .NET sample: Tools/ExecSessionManager.cs*)
(* behind the tools exec_command and write_stdin.  The process, the two    *)
(* threads that read its pipes, the Exited event and the caller of         *)
(* WriteAsync run concurrently; the lock of the session makes an append    *)
(* and a drain atomic.                                                     *)
(***************************************************************************)
EXTENDS Integers, Sequences

CONSTANTS MaxSessions,    \* bound: sessions started
          MaxLines        \* bound: lines a process writes to one stream

ASSUME SessionBoundsAssumption == MaxSessions \in Nat /\ MaxLines \in Nat

\* _nextId is 1 and is incremented before its first use.
Sessions == 2 .. MaxSessions + 1
Streams  == {"stdout", "stderr"}

\* A line of a stream, or the one the Exited event adds.
Line == [from : Streams \union {"exit"}, n : Nat]
ExitLine == [from |-> "exit", n |-> 0]

VARIABLES
    nextId,         \* _nextId
    proc,           \* proc[id] of a session: "none" when there is no session
    written,        \* written[id][s]: lines in the pipe, ever
    read,           \* read[id][s]: lines the reader has appended
    marked,         \* marked[id]: the Exited event has run
    output,         \* output[id]: the StringBuilder
    delivered       \* delivered[id]: all that WriteAsync has returned

sessionVars == <<nextId, proc, written, read, marked, output, delivered>>
pipeVars    == <<written, read, marked>>

ProcStates == {"none", "unstarted", "running", "exited"}

InitSessions ==
    /\ nextId = 1
    /\ proc = [id \in Sessions |-> "none"]
    /\ written = [id \in Sessions |-> [s \in Streams |-> 0]]
    /\ read = [id \in Sessions |-> [s \in Streams |-> 0]]
    /\ marked = [id \in Sessions |-> FALSE]
    /\ output = [id \in Sessions |-> <<>>]
    /\ delivered = [id \in Sessions |-> <<>>]

-----------------------------------------------------------------------------
(* Called by the tools                                                      *)

\* Start registers the session before it starts the process, which may throw.
StartSession(started) ==
    /\ nextId <= MaxSessions
    /\ nextId' = nextId + 1
    /\ proc' = [proc EXCEPT ![nextId'] = IF started THEN "running"
                                        ELSE "unstarted"]
    /\ UNCHANGED <<pipeVars, output, delivered>>

\* Mutant of DrainOutput: the buffer is not cleared.
DrainOutput_Keep(id) ==
    /\ delivered' = [delivered EXCEPT ![id] = @ \o output[id]]
    /\ UNCHANGED <<nextId, proc, pipeVars, output>>

DrainOutput(id) ==
    /\ delivered' = [delivered EXCEPT ![id] = @ \o output[id]]
    /\ output' = [output EXCEPT ![id] = <<>>]
    /\ UNCHANGED <<nextId, proc, pipeVars>>

-----------------------------------------------------------------------------
(* The process, and the events the manager subscribes to                    *)

ProcessWrites(id, s) ==
    /\ proc[id] = "running" /\ written[id][s] < MaxLines
    /\ written' = [written EXCEPT ![id][s] = @ + 1]
    /\ UNCHANGED <<nextId, proc, read, marked, output, delivered>>

ProcessExits(id) ==
    /\ proc[id] = "running"
    /\ proc' = [proc EXCEPT ![id] = "exited"]
    /\ UNCHANGED <<nextId, pipeVars, output, delivered>>

NextLine(id, s) == [from |-> s, n |-> read[id][s] + 1]

\* OutputDataReceived, ErrorDataReceived
AppendOutput(id, s) ==
    /\ read[id][s] < written[id][s]
    /\ read' = [read EXCEPT ![id][s] = @ + 1]
    /\ output' = [output EXCEPT ![id] = Append(@, NextLine(id, s))]
    /\ UNCHANGED <<nextId, proc, written, marked, delivered>>

\* Exited does not wait for the readers: lines may come behind its own.
AppendExit(id) ==
    /\ proc[id] = "exited" /\ ~marked[id]
    /\ marked' = [marked EXCEPT ![id] = TRUE]
    /\ output' = [output EXCEPT ![id] = Append(@, ExitLine)]
    /\ UNCHANGED <<nextId, proc, written, read, delivered>>

SessionEvent(id) == AppendExit(id) \/ \E s \in Streams : AppendOutput(id, s)

ProcessStep(id) == ProcessExits(id) \/ \E s \in Streams : ProcessWrites(id, s)

-----------------------------------------------------------------------------
SessionsTypeOK ==
    /\ nextId \in 1 .. MaxSessions + 1
    /\ proc \in [Sessions -> ProcStates]
    /\ written \in [Sessions -> [Streams -> 0 .. MaxLines]]
    /\ read \in [Sessions -> [Streams -> 0 .. MaxLines]]
    /\ marked \in [Sessions -> BOOLEAN]
    /\ output \in [Sessions -> Seq(Line)]
    /\ delivered \in [Sessions -> Seq(Line)]

\* What the caller of write_stdin has seen, and what it is going to see.
Transcript(id) == delivered[id] \o output[id]

\* However the readers, the Exited event and the drains interleave, every line
\* a reader has got from a process is returned once, in the order of its
\* stream; so is the exit line, and only for a process that has exited.
OutputOnce ==
    \A id \in Sessions :
       LET T == Transcript(id)
       IN  /\ \A i, j \in DOMAIN T : i < j /\ T[i].from = T[j].from
                                     => T[i].n < T[j].n
           /\ \A i \in DOMAIN T :
                 IF T[i] = ExitLine THEN marked[id] /\ proc[id] = "exited"
                 ELSE \E s \in Streams : \E n \in 1 .. read[id][s] :
                         T[i] = [from |-> s, n |-> n]
           /\ \A s \in Streams : \A n \in 1 .. read[id][s] :
                 \E i \in DOMAIN T : T[i] = [from |-> s, n |-> n]
           /\ marked[id] => \E i \in DOMAIN T : T[i] = ExitLine
=============================================================================
