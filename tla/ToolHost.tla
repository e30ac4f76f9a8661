------------------------------ MODULE ToolHost ------------------------------
(***************************************************************************)
(* The .NET sample: the loops of Program.cs that call its tools (the MCP   *)
(* server over stdin and stdout, the ReAct loop, the single call of trun), *)
(* with the two tools that keep processes: those that run a command to its *)
(* end (Tools/ProcessRunner.cs) and those of ExecSessions.                 *)
(*                                                                         *)
(* The loop serves one request at a time; the client or the model, the     *)
(* command, and the processes of the sessions go on meanwhile.             *)
(***************************************************************************)
EXTENDS ExecSessions

CONSTANT MaxRequests      \* bound: requests the host receives

ASSUME RequestsAssumption == MaxRequests \in Nat

VARIABLES
    mode,           \* "mcp", "react" or "trun"
    requests,       \* all that has been written to the loop's input
    closed,         \* the input has ended (ReAct: "final", or an HTTP error)
    taken,          \* requests read; the last of them is being served
    pc,             \* where the loop is
    answered,       \* answers, by the number of the request
    target,         \* the session of a write_stdin
    timed,          \* RunAsync has a timeout
    child           \* the process of RunAsync

loopVars == <<mode, pc, taken, answered, target>>
inVars   == <<requests, closed>>
runVars  == <<timed, child>>
vars     == <<sessionVars, loopVars, inVars, runVars>>

\* "long": a call whose Content-Length exceeds its number of characters, as it
\* does when it counts the bytes of text that is not ASCII.  "malformed": what
\* follows from it is an exception outside of the handlers.
Kinds == {"call", "long", "notification", "malformed", "headless"}
Calls == {"call", "long"}

\* pipe: whether a process holds the write end of the child's stdout or stderr,
\* and if it is one that has left the tree of the child.
Child   == [alive : BOOLEAN, pipe : {"child", "background", "closed"},
            kill : {"no", "sent", "failed"}]
NoChild == [alive |-> FALSE, pipe |-> "closed", kill |-> "no"]

Init ==
    /\ InitSessions
    /\ mode \in {"mcp", "react", "trun"}
    /\ requests = <<>> /\ closed = FALSE
    /\ pc = "idle" /\ taken = 0 /\ answered = <<>> /\ target = 0
    /\ timed = FALSE /\ child = NoChild

Down == pc \in {"ended", "crashed"}

-----------------------------------------------------------------------------
(* The client, or the model                                                 *)

\* The model is asked for the next action when the last one has been answered.
Send(kind) ==
    /\ Len(requests) < MaxRequests /\ ~closed
    /\ mode # "mcp" => /\ kind \in {"call", "malformed"}
                       /\ pc = "idle" /\ Len(requests) = taken
    /\ mode = "trun" => requests = <<>>
    /\ requests' = Append(requests, kind)
    /\ UNCHANGED <<sessionVars, loopVars, closed, runVars>>

CloseInput ==
    /\ ~closed /\ closed' = TRUE
    /\ UNCHANGED <<sessionVars, loopVars, requests, runVars>>

-----------------------------------------------------------------------------
(* The loops                                                                *)

Answer ==
    /\ answered' = Append(answered, taken)
    /\ pc' = IF mode = "trun" THEN "ended" ELSE "idle"
    /\ UNCHANGED <<mode, taken, target>>

\* A handler throws.  Only the ReAct loop catches it: the exception is the
\* observation.
Throw == IF mode = "react" THEN Answer
         ELSE pc' = "crashed" /\ UNCHANGED <<mode, taken, answered, target>>

GoOn(next) == pc' = next /\ UNCHANGED <<mode, taken, answered, target>>

Pending == taken < Len(requests)
More    == taken + 1 < Len(requests)

\* Mutant of Fits: one character too many is read.
Fits_OffByOne(kind) == FALSE

\* ReadPayloadAsync reads as many characters as Content-Length says.
Fits(kind) == kind # "long"

\* Behind a call that does not fit the loop waits for more.  If a header comes,
\* the payload that ends in it does not parse; if the input ends, the payload
\* is complete.
Take ==
    /\ pc = "idle" /\ Pending
    /\ taken' = taken + 1
    /\ LET kind == requests[taken']
       IN  \/ kind \in Calls /\ (Fits(kind) \/ (~More /\ closed)) /\ pc' = "call"
           \/ kind \in Calls /\ ~Fits(kind) /\ More /\ pc' = "crashed"
           \/ kind = "notification" /\ pc' = "idle"
           \/ kind = "headless" /\ pc' = "ended"
           \/ /\ kind = "malformed"
              /\ pc' \in CASE mode = "mcp"   -> {"crashed"}
                           [] mode = "react" -> {"ended", "crashed"}
                           [] mode = "trun"  -> {"ended"}
    /\ UNCHANGED <<sessionVars, mode, answered, target, inVars, runVars>>

InputEnds ==
    /\ pc = "idle" /\ ~Pending /\ closed
    /\ GoOn("ended")
    /\ UNCHANGED <<sessionVars, inVars, runVars>>

\* A method other than tools/call, an unknown tool, a tool without processes.
CallPlain ==
    /\ pc = "call" /\ (Answer \/ Throw)
    /\ UNCHANGED <<sessionVars, inVars, runVars>>

-----------------------------------------------------------------------------
(* exec_command and write_stdin                                             *)

CallExec ==
    /\ pc = "call"
    /\ \/ StartSession(TRUE) /\ Answer
       \/ StartSession(FALSE) /\ Throw
    /\ UNCHANGED <<inVars, runVars>>

\* The session is looked up; without chars nothing is written.
CallWrite(id) ==
    /\ pc = "call"
    /\ IF proc[id] = "none" THEN Answer
       ELSE /\ target' = id /\ pc' \in {"write", "delay"}
            /\ UNCHANGED <<mode, taken, answered>>
    /\ UNCHANGED <<sessionVars, inVars, runVars>>

\* A process that does not read its input may hold the writer up; one that has
\* exited breaks the pipe, unless a child of its own has inherited it.
WriteInput ==
    /\ pc = "write"
    /\ \/ proc[target] \in {"running", "exited"} /\ GoOn("delay")
       \/ proc[target] \in {"unstarted", "exited"} /\ Throw
    /\ UNCHANGED <<sessionVars, inVars, runVars>>

\* yield_time_ms is over.
Yielded ==
    /\ pc = "delay"
    /\ DrainOutput(target) /\ Answer
    /\ UNCHANGED <<inVars, runVars>>

-----------------------------------------------------------------------------
(* ProcessRunner.RunAsync: shell, shell_command, container.exec, apply_patch*)

\* None of the tools gives the process an input.
CallRun ==
    /\ pc = "call"
    /\ \/ Throw /\ UNCHANGED runVars          \* process.Start
       \/ /\ GoOn("wait")
          /\ timed' \in BOOLEAN
          /\ child' = [alive |-> TRUE, pipe |-> "child", kill |-> "no"]
    /\ UNCHANGED <<sessionVars, inVars>>

ExitSeen ==
    /\ pc = "wait" /\ ~child.alive
    /\ GoOn("pipes")
    /\ UNCHANGED <<sessionVars, inVars, runVars>>

\* Mutant of TimedOut: the child is left alone.
TimedOut_NoKill ==
    /\ pc = "wait" /\ timed
    /\ GoOn("pipes")
    /\ UNCHANGED <<sessionVars, inVars, runVars>>

\* Task.Delay wins.  A Kill that throws is ignored.
TimedOut ==
    /\ pc = "wait" /\ timed
    /\ \E kill \in {"sent", "failed"} :
          child' = [child EXCEPT !.kill = IF child.alive THEN kill ELSE @]
    /\ GoOn("pipes")
    /\ UNCHANGED <<sessionVars, inVars, timed>>

\* Both streams are at their end.  ExitCode throws if the process has not
\* exited, which even a killed one may not have done yet.
Return ==
    /\ pc = "pipes" /\ child.pipe = "closed"
    /\ IF child.alive THEN Throw ELSE Answer
    /\ UNCHANGED <<sessionVars, inVars, runVars>>

Dead == [child EXCEPT !.alive = FALSE,
                      !.pipe = IF @ = "child" THEN "closed" ELSE @]

\* It exits; it closes its streams, or leaves them to a process that leaves its
\* tree; that process ends.
ChildStep ==
    /\ \/ child.alive /\ child' = Dead
       \/ child.alive /\ child.pipe # "background"
             /\ child' \in {[child EXCEPT !.pipe = "background"],
                            [child EXCEPT !.pipe = "closed"]}
       \/ child.pipe = "background"
             /\ child' = [child EXCEPT !.pipe = IF child.alive THEN "child"
                                                ELSE "closed"]
    /\ UNCHANGED <<sessionVars, loopVars, inVars, timed>>

\* The signal reaches the tree of the child, not what has left it.
KillLands ==
    /\ child.kill = "sent" /\ child.alive
    /\ child' = Dead
    /\ UNCHANGED <<sessionVars, loopVars, inVars, timed>>

-----------------------------------------------------------------------------
Sessioned(A) == A /\ UNCHANGED <<loopVars, inVars, runVars>>

LoopStep == \/ Take \/ InputEnds \/ CallPlain \/ Yielded
            \/ ExitSeen \/ TimedOut \/ Return

Next ==
    \/ CloseInput \/ Take \/ InputEnds \/ CallPlain \/ CallExec \/ CallRun
    \/ WriteInput \/ Yielded \/ ExitSeen \/ TimedOut \/ Return
    \/ ChildStep \/ KillLands
    \/ \E kind \in Kinds : Send(kind)
    \/ \E id \in Sessions : CallWrite(id)
    \/ \E id \in Sessions : Sessioned(ProcessStep(id))
    \/ \E id \in Sessions : Sessioned(SessionEvent(id))

Spec == Init /\ [][Next]_vars

\* The loop, the timer, the readers and the kill go on.  The client, the model,
\* the commands and the processes need not, nor does a write to a process.
FairSpec == /\ Spec
            /\ WF_vars(LoopStep)
            /\ WF_vars(KillLands)
            /\ \A id \in Sessions : WF_vars(Sessioned(SessionEvent(id)))

-----------------------------------------------------------------------------
TypeOK ==
    /\ SessionsTypeOK
    /\ mode \in {"mcp", "react", "trun"}
    /\ requests \in Seq(Kinds) /\ closed \in BOOLEAN
    /\ taken \in 0 .. Len(requests)
    /\ pc \in {"idle", "call", "write", "delay", "wait", "pipes",
               "ended", "crashed"}
    /\ answered \in Seq(1 .. MaxRequests)
    /\ pc \in {"write", "delay"} => target \in Sessions
    /\ timed \in BOOLEAN /\ child \in Child

\* The answers are those of the calls that have been read, each once and in
\* their order; only the last may be missing, while it is served or for good
\* when it has taken the host down.
CallsAnswered ==
    LET Called == {k \in 1 .. taken : requests[k] \in Calls}
        Open   == IF pc \in {"idle", "ended"} THEN {} ELSE {taken}
    IN  /\ \A i, j \in DOMAIN answered : i < j => answered[i] < answered[j]
        /\ \A k \in Called \ Open : \E i \in DOMAIN answered : answered[i] = k
        /\ \A i \in DOMAIN answered : answered[i] \in Called

Stuck == pc \in {"write", "wait", "pipes"}
Served(k) == \E i \in DOMAIN answered : answered[i] = k

\* A call in front of which every Content-Length is its number of characters is
\* answered, unless the host is down or waits for a process for ever.
CallsServed ==
    \A k \in 1 .. MaxRequests :
       /\ k <= Len(requests) /\ requests[k] = "call"
       /\ \A j \in 1 .. k : requests[j] # "long"
       ~> Served(k) \/ Down \/ [](Stuck)

\* A command with a timeout keeps the host for that long, unless it cannot be
\* killed or has left a process that holds its output open.
TimeoutReturns ==
    pc = "wait" /\ timed
    ~> \/ pc \notin {"wait", "pipes"}
       \/ child.kill = "failed" \/ child.pipe = "background"
=============================================================================
