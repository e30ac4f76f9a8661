------------------------------ MODULE AppServer ------------------------------
(***************************************************************************)
(* A thread of the app server (app-server/src): client requests become      *)
(* operations of the session, and the events of the session become          *)
(* notifications, answers to interrupts, and requests for approval.         *)
(*                                                                          *)
(* Three parties share the state of the server: the processor of client     *)
(* messages, one after the other; the listener of the thread; and a task    *)
(* for each approval that waits for the answer of the client. The session   *)
(* (SessionTasks) is seen as its queues and the turn it runs: an operation  *)
(* is one step here. Calls, approvals and interrupts are numbered as they   *)
(* come; one call is made at a time.                                        *)
(***************************************************************************)
EXTENDS Naturals, Sequences, FiniteSets

CONSTANTS MaxTurns, MaxCalls, MaxAsks, MaxInterrupts   \* bounds

Turns == 1 .. MaxTurns
Calls == 1 .. MaxCalls
Asks == 1 .. MaxAsks
Interrupts == 1 .. MaxInterrupts

ASSUME AppServerAssumption ==
  MaxTurns \in Nat /\ MaxCalls \in Nat /\ MaxAsks \in Nat /\ MaxInterrupts \in Nat

VARIABLES
  \* the session
  ops,        \* submissions, in order: <<what, number>>
  events,     \* its events, in order: <<what, number, how>>
  active,     \* the turn it runs, or 0
  erred,      \* that turn has failed, and is about to end
  call,       \* the tool call it is in
  calls,      \* how many calls there have been
  asked,      \* the approvals it has asked for
  fate,       \* what has become of a turn
  hit,        \* interrupts that have stopped a turn
  \* the server
  busy,       \* what the processor is doing: <<what, number>>
  turns, interrupts,   \* how many requests of each kind it has taken
  pending,    \* pending_interrupts
  failed,     \* last_error of the turn summary is set
  open,       \* file_change_started of the turn summary
  answer,     \* of an approval: "none", "waiting" (it has a callback),
              \* "got", "told" (the client, of its end) or "submitted"
  archived,   \* the thread is no longer known
  watching,   \* thread/archive reads the events, too
  \* the client
  given,      \* its answer to an approval, or "none"
  toldTurn,   \* the notifications of a turn: turn/started, and how it ended
  toldItem,   \* the notifications of an item
  replied     \* the interrupts that have been answered

session == <<ops, events, active, erred, call, calls, asked, fate, hit>>
processor == <<busy, turns, interrupts>>
summary == <<failed, open>>
client == <<given, toldTurn, toldItem, replied>>
vars == <<session, processor, pending, summary, answer, archived, watching, client>>

Decisions == {"accept", "decline", "cancel"}
Idle == <<"idle", 0>>

\* waits: the approval it waits for, or 0. begun: its begin event is out.
NoCall == [id |-> 0, kind |-> "none", begun |-> FALSE, waits |-> 0, asks |-> 0]

Init ==
  /\ ops = <<>> /\ events = <<>> /\ active = 0 /\ erred = FALSE /\ call = NoCall
  /\ calls = 0 /\ asked = <<>> /\ fate = [t \in Turns |-> "none"] /\ hit = {}
  /\ busy = Idle /\ turns = 0 /\ interrupts = 0
  /\ pending = {} /\ failed = FALSE /\ open = {} /\ answer = [n \in Asks |-> "none"]
  /\ archived = FALSE /\ watching = FALSE
  /\ given = [n \in Asks |-> "none"] /\ replied = {}
  /\ toldTurn = [t \in Turns |-> <<>>] /\ toldItem = [c \in Calls |-> <<>>]

Submit(op) == ops' = Append(ops, op)
Tell(told, x, what) == [told EXCEPT ![x] = Append(@, what)]
Is(event, what) == event[1] = what
-----------------------------------------------------------------------------
(* The session                                                              *)

Emit(event) == events' = Append(events, event)

\* What has become of the turn that ends now.
Ends(how) == fate' = [fate EXCEPT ![active] = how] /\ active' = 0 /\ call' = NoCall

\* abort_all_tasks, at an interrupt, a cancelled approval or the shutdown; es
\* are the events that follow.
StopTurn(es) ==
  IF active = 0 THEN events' = events \o es /\ UNCHANGED <<active, call, fate>>
  ELSE events' = events \o <<<<"aborted", active, "">>>> \o es /\ Ends("interrupted")

Op == Head(ops)
Served(what) == ops # <<>> /\ Op[1] = what /\ ops' = Tail(ops)

\* user_input_or_turn: into the turn that runs, or a turn of its own.
ServeInput ==
  /\ Served("input")
  /\ IF active = 0
     THEN /\ active' = Op[2] /\ erred' = FALSE
          /\ fate' = [fate EXCEPT ![Op[2]] = "running"]
     ELSE fate' = [fate EXCEPT ![Op[2]] = "joined"] /\ UNCHANGED <<active, erred>>
  /\ UNCHANGED <<events, call, calls, asked, hit, processor, pending, summary, answer,
                 archived, watching, client>>

ServeInterrupt ==
  /\ Served("interrupt")
  /\ StopTurn(<<>>)
  /\ hit' = IF active = 0 THEN hit ELSE hit \union {Op[2]}
  /\ UNCHANGED <<erred, calls, asked, processor, pending, summary, answer, archived,
                 watching, client>>

ServeShutdown ==
  /\ Served("shutdown")
  /\ StopTurn(<<<<"shutdown", 0, "">>>>)
  /\ UNCHANGED <<erred, calls, asked, hit, processor, pending, summary, answer, archived,
                 watching, client>>

\* What the call makes of a decision: a rejected one ends, and says so if it
\* has said that it begins.
Decide(accept) ==
  IF accept THEN call' = [call EXCEPT !.waits = 0] /\ UNCHANGED events
  ELSE /\ call' = NoCall
       /\ IF call.begun THEN Emit(<<"end", call.id, "failed">>) ELSE UNCHANGED events

\* Mutant of ServeDecision: whatever waits is told, in whatever turn.
ServeDecision_AnyTurn ==
  /\ Served("decision")
  /\ LET n == Op[2]
     IN  IF given[n] = "cancel" THEN StopTurn(<<>>)
         ELSE /\ IF call.waits # 0 THEN Decide(given[n] = "accept")
                 ELSE UNCHANGED <<call, events>>
              /\ UNCHANGED <<active, fate>>
  /\ UNCHANGED <<erred, calls, asked, hit, processor, pending, summary, answer, archived,
                 watching, client>>

\* exec_approval, patch_approval: a cancelled one interrupts, and the others are
\* for what waits under the id of their turn.
ServeDecision ==
  /\ Served("decision")
  /\ LET n == Op[2]
     IN  IF given[n] = "cancel" THEN StopTurn(<<>>)
         ELSE /\ IF call.waits # 0 /\ asked[n].turn = active
                 THEN Decide(given[n] = "accept")
                 ELSE UNCHANGED <<call, events>>
              /\ UNCHANGED <<active, fate>>
  /\ UNCHANGED <<erred, calls, asked, hit, processor, pending, summary, answer, archived,
                 watching, client>>

Serve == ServeInput \/ ServeInterrupt \/ ServeShutdown \/ ServeDecision

\* A command says that it begins, and asks then; a patch asks first.
CallStarts(kind) ==
  /\ active # 0 /\ ~erred /\ call = NoCall /\ calls < MaxCalls
  /\ calls' = calls + 1
  /\ call' = [NoCall EXCEPT !.id = calls', !.kind = kind, !.begun = (kind = "command")]
  /\ IF kind = "command" THEN Emit(<<"begin", calls', "command">>) ELSE UNCHANGED events
  /\ UNCHANGED <<ops, active, erred, asked, fate, hit, processor, pending, summary, answer,
                 archived, watching, client>>

\* The second time it is about an attempt without the sandbox, and always as a
\* command.
AskApproval ==
  /\ call.id # 0 /\ call.waits = 0 /\ Len(asked) < MaxAsks
  /\ call.asks = 0 \/ (call.asks = 1 /\ call.begun)
  /\ asked' = Append(asked, [turn |-> active, call |-> call.id,
                             kind |-> IF call.begun THEN "command" ELSE "change"])
  /\ call' = [call EXCEPT !.waits = Len(asked'), !.asks = @ + 1]
  /\ Emit(<<"ask", Len(asked'), "">>)
  /\ UNCHANGED <<ops, active, erred, calls, fate, hit, processor, pending, summary, answer,
                 archived, watching, client>>

PatchBegins ==
  /\ call.kind = "change" /\ ~call.begun /\ call.waits = 0
  /\ call' = [call EXCEPT !.begun = TRUE]
  /\ Emit(<<"begin", call.id, "change">>)
  /\ UNCHANGED <<ops, active, erred, calls, asked, fate, hit, processor, pending, summary,
                 answer, archived, watching, client>>

\* It has run: completed or failed, by its exit code.
CallEnds ==
  /\ call.begun /\ call.waits = 0
  /\ call' = NoCall
  /\ Emit(<<"end", call.id, "ran">>)
  /\ UNCHANGED <<ops, active, erred, calls, asked, fate, hit, processor, pending, summary,
                 answer, archived, watching, client>>

TurnErrs ==
  /\ active # 0 /\ ~erred /\ call = NoCall
  /\ erred' = TRUE
  /\ Emit(<<"error", active, "">>)
  /\ UNCHANGED <<ops, active, call, calls, asked, fate, hit, processor, pending, summary,
                 answer, archived, watching, client>>

TurnCompletes ==
  /\ active # 0 /\ call = NoCall
  /\ Emit(<<"complete", active, "">>)
  /\ Ends(IF erred THEN "failed" ELSE "completed")
  /\ UNCHANGED <<ops, erred, calls, asked, hit, processor, pending, summary, answer,
                 archived, watching, client>>
-----------------------------------------------------------------------------
(* The processor                                                            *)

\* turn/start: the turn is submitted, and then announced.
TurnStart ==
  /\ busy = Idle /\ ~archived /\ turns < MaxTurns
  /\ turns' = turns + 1
  /\ Submit(<<"input", turns'>>)
  /\ busy' = <<"start", turns'>>
  /\ UNCHANGED <<events, active, erred, call, calls, asked, fate, hit, interrupts, pending,
                 summary, answer, archived, watching, client>>

TurnStarted ==
  /\ busy[1] = "start" /\ busy' = Idle
  /\ toldTurn' = Tell(toldTurn, busy[2], "started")
  /\ UNCHANGED <<session, turns, interrupts, pending, summary, answer, archived, watching,
                 given, toldItem, replied>>

\* Mutant of TurnInterrupt: it is pending only if a turn is seen to run.
TurnInterrupt_IfRunning ==
  /\ busy = Idle /\ ~archived /\ interrupts < MaxInterrupts
  /\ interrupts' = interrupts + 1
  /\ pending' = IF active # 0 THEN pending \union {interrupts'} ELSE pending
  /\ busy' = <<"interrupt", interrupts'>>
  /\ UNCHANGED <<session, turns, summary, answer, archived, watching, client>>

\* turn/interrupt: it is pending, and then submitted; its turn_id is not read.
TurnInterrupt ==
  /\ busy = Idle /\ ~archived /\ interrupts < MaxInterrupts
  /\ interrupts' = interrupts + 1
  /\ pending' = pending \union {interrupts'}
  /\ busy' = <<"interrupt", interrupts'>>
  /\ UNCHANGED <<session, turns, summary, answer, archived, watching, client>>

InterruptSent ==
  /\ busy[1] = "interrupt" /\ busy' = Idle
  /\ Submit(busy)
  /\ UNCHANGED <<events, active, erred, call, calls, asked, fate, hit, turns, interrupts,
                 pending, summary, answer, archived, watching, client>>

\* process_response; an answer that cannot be read declines, and an error object
\* is only logged.
Answer(n, d) ==
  /\ busy = Idle /\ answer[n] = "waiting"
  /\ answer' = [answer EXCEPT ![n] = "got"]
  /\ given' = [given EXCEPT ![n] = d]
  /\ UNCHANGED <<session, processor, pending, summary, archived, watching, toldTurn,
                 toldItem, replied>>

\* thread/archive: the thread is forgotten, and its shutdown waited for, for 10
\* seconds, before its file is moved.
Archive ==
  /\ busy = Idle /\ ~archived
  /\ archived' = TRUE /\ watching' = TRUE
  /\ Submit(<<"shutdown", 0>>)
  /\ busy' = <<"archive", 0>>
  /\ UNCHANGED <<events, active, erred, call, calls, asked, fate, hit, turns, interrupts,
                 pending, summary, answer, client>>

\* What it reads of the events the listener does not see.
ArchiveReads ==
  /\ watching /\ events # <<>>
  /\ events' = Tail(events)
  /\ watching' = ~Is(Head(events), "shutdown")
  /\ UNCHANGED <<ops, active, erred, call, calls, asked, fate, hit, processor, pending,
                 summary, answer, archived, client>>

ArchiveReturns ==
  /\ busy[1] = "archive" /\ busy' = Idle
  /\ watching' = FALSE
  /\ UNCHANGED <<session, turns, interrupts, pending, summary, answer, archived, client>>
-----------------------------------------------------------------------------
(* The listener: apply_bespoke_event_handling                               *)

Event == Head(events)
Heard(what) == events # <<>> /\ Is(Event, what) /\ events' = Tail(events)

\* Mutant of FirstStart: every begin of a patch is announced.
FirstStart_Always(c) == open' = open \union {c} /\ toldItem' = Tell(toldItem, c, "started")

\* The item of a patch is started by its request or its begin, whichever is first.
FirstStart(c) ==
  /\ open' = open \union {c}
  /\ toldItem' = IF c \in open THEN toldItem ELSE Tell(toldItem, c, "started")

HearBegin ==
  /\ Heard("begin")
  /\ IF Event[3] = "change" THEN FirstStart(Event[2])
     ELSE toldItem' = Tell(toldItem, Event[2], "started") /\ UNCHANGED open
  /\ UNCHANGED <<ops, active, erred, call, calls, asked, fate, hit, processor, pending,
                 failed, answer, archived, watching, given, toldTurn, replied>>

HearAsk ==
  /\ Heard("ask")
  /\ answer' = [answer EXCEPT ![Event[2]] = "waiting"]
  /\ IF asked[Event[2]].kind = "change" THEN FirstStart(asked[Event[2]].call)
     ELSE UNCHANGED <<open, toldItem>>
  /\ UNCHANGED <<ops, active, erred, call, calls, asked, fate, hit, processor, pending,
                 failed, archived, watching, given, toldTurn, replied>>

HearEnd ==
  /\ Heard("end")
  /\ open' = open \ {Event[2]}
  /\ toldItem' = Tell(toldItem, Event[2], Event[3])
  /\ UNCHANGED <<ops, active, erred, call, calls, asked, fate, hit, processor, pending,
                 failed, answer, archived, watching, given, toldTurn, replied>>

HearError ==
  /\ Heard("error")
  /\ failed' = TRUE
  /\ UNCHANGED <<ops, active, erred, call, calls, asked, fate, hit, processor, pending,
                 open, answer, archived, watching, client>>

\* handle_turn_complete
HearComplete ==
  /\ Heard("complete")
  /\ toldTurn' = Tell(toldTurn, Event[2], IF failed THEN "failed" ELSE "completed")
  /\ failed' = FALSE /\ open' = {}
  /\ UNCHANGED <<ops, active, erred, call, calls, asked, fate, hit, processor, pending,
                 answer, archived, watching, given, toldItem, replied>>

\* Mutant of HearAborted: the summary of the turn is left for the next one.
HearAborted_KeepSummary ==
  /\ Heard("aborted")
  /\ replied' = replied \union pending /\ pending' = {}
  /\ toldTurn' = Tell(toldTurn, Event[2], "interrupted")
  /\ UNCHANGED <<ops, active, erred, call, calls, asked, fate, hit, processor, summary,
                 answer, archived, watching, given, toldItem>>

\* Every pending interrupt is answered, and handle_turn_interrupted.
HearAborted ==
  /\ Heard("aborted")
  /\ replied' = replied \union pending /\ pending' = {}
  /\ toldTurn' = Tell(toldTurn, Event[2], "interrupted")
  /\ failed' = FALSE /\ open' = {}
  /\ UNCHANGED <<ops, active, erred, call, calls, asked, fate, hit, processor, answer,
                 archived, watching, given, toldItem>>

HearShutdown ==
  /\ Heard("shutdown")
  /\ UNCHANGED <<ops, active, erred, call, calls, asked, fate, hit, processor, pending,
                 summary, answer, archived, watching, client>>

Listen == \/ HearBegin \/ HearAsk \/ HearEnd \/ HearError \/ HearComplete
          \/ HearAborted \/ HearShutdown

\* on_..._approval_response: an item that has been declined is at its end,
TellDeclined(n) ==
  /\ answer[n] = "got" /\ given[n] # "accept"
  /\ answer' = [answer EXCEPT ![n] = "told"]
  /\ toldItem' = Tell(toldItem, asked[n].call, "declined")
  /\ open' = IF asked[n].kind = "change" THEN open \ {asked[n].call} ELSE open
  /\ UNCHANGED <<session, processor, pending, failed, archived, watching, given, toldTurn,
                 replied>>

\* Mutant of Resolve: a patch that has been declined is not decided upon.
Resolve_OnlyAccepted(n) ==
  /\ answer[n] = "got" /\ given[n] = "accept"
  /\ answer' = [answer EXCEPT ![n] = "submitted"]
  /\ Submit(<<"decision", n>>)
  /\ UNCHANGED <<events, active, erred, call, calls, asked, fate, hit, processor, pending,
                 summary, archived, watching, client>>

\* and the session is told the decision.
Resolve(n) ==
  /\ answer[n] = "told" \/ (answer[n] = "got" /\ given[n] = "accept")
  /\ answer' = [answer EXCEPT ![n] = "submitted"]
  /\ Submit(<<"decision", n>>)
  /\ UNCHANGED <<events, active, erred, call, calls, asked, fate, hit, processor, pending,
                 summary, archived, watching, client>>

SessionStep ==
  \/ Serve \/ AskApproval \/ PatchBegins \/ CallEnds \/ TurnErrs \/ TurnCompletes
  \/ \E kind \in {"command", "change"} : CallStarts(kind)

ProcessorStep ==
  \/ TurnStart \/ TurnStarted \/ TurnInterrupt \/ InterruptSent \/ Archive \/ ArchiveReturns
  \/ \E n \in Asks, d \in Decisions : Answer(n, d)

Next ==
  \/ SessionStep \/ ProcessorStep \/ ArchiveReads \/ Listen
  \/ \E n \in Asks : TellDeclined(n) \/ Resolve(n)

Spec == Init /\ [][Next]_vars

\* The loops and tasks of the server and the loop of the session run, and the wait
\* of an archive ends. Nothing is assumed of the client, the model or the tools.
FairSpec ==
  /\ Spec
  /\ WF_vars(Serve) /\ WF_vars(Listen)
  /\ WF_vars(TurnStarted) /\ WF_vars(InterruptSent) /\ WF_vars(ArchiveReturns)
  /\ \A n \in Asks : WF_vars(TellDeclined(n)) /\ WF_vars(Resolve(n))
-----------------------------------------------------------------------------
Final == {"completed", "failed", "interrupted"}
InFlight(t) == \E i \in DOMAIN events : events[i][1] \in {"complete", "aborted"} /\ events[i][2] = t

\* Until a thread is archived, turn/completed tells each turn that has ended,
\* once, and says of it what has become of it: the error of a turn is never
\* told of another one, however turns fail and are interrupted
\* ("turn.status is completed, interrupted, or failed", README).
StatusTrue ==
  ~archived => \A t \in Turns :
     LET ends == {i \in DOMAIN toldTurn[t] : toldTurn[t][i] # "started"}
     IN  IF fate[t] \in Final /\ ~InFlight(t)
         THEN \E i \in ends : ends = {i} /\ toldTurn[t][i] = fate[t]
         ELSE ends = {}

\* An item is started once, and before it is completed, whether it is the
\* request of the approval or the begin event of the call that comes first, and
\* whatever answers come late.
StartedOnce ==
  ~archived => \A c \in Calls :
     LET starts == {i \in DOMAIN toldItem[c] : toldItem[c][i] = "started"}
     IN  toldItem[c] # <<>> => starts = {1}

\* A call goes on, or ends while its turn goes on, only by the answer the client
\* has given to that very approval: never by one it has given for an earlier
\* turn.
DecidedByItsAnswer ==
  [][call.waits # 0 /\ call'.waits # call.waits /\ active' = active
       => given[call.waits] = IF call'.id = call.id THEN "accept" ELSE "decline"]_vars

\* "Record the pending interrupt so we can reply when TurnAborted arrives": an
\* interrupt that has stopped a turn is answered, however fast the turn stops.
InterruptAnswered == \A i \in Interrupts : i \in hit ~> (i \in replied \/ archived)

\* "The turn will proceed after the server receives a response to the approval
\* request" (README): no call waits for ever for a decision the client has made.
DecisionArrives == \A n \in Asks : given[n] # "none" ~> call.waits # n

\* "matching responses are delivered to the correct in-flight turn" (the comment
\* of request_command_approval): an approval that is cancelled stops its own turn.
CancelStopsItsTurn ==
  [][ServeDecision /\ active # 0 /\ active' = 0 => asked[Op[2]].turn = active]_vars
=============================================================================
