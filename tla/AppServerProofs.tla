-------------------------- MODULE AppServerProofs --------------------------
(***************************************************************************)
(* Proofs about the app server, for any number of turns, calls, approvals  *)
(* and interrupts, and however requests, answers, interrupts and the       *)
(* archiving of the thread interleave: an approval is decided by its own   *)
(* answer (DecidedBy), the end that is told of a turn is its own           *)
(* (StatusHolds), and an item is started once and first (ItemsStart).      *)
(* Each of the three has an inductive invariant, and these share the       *)
(* types, the turns, the calls and the answers of IInv.                    *)
(***************************************************************************)
EXTENDS AppServer, TLAPS

-----------------------------------------------------------------------------
(* What a queue holds                                                       *)

Occurs(s, e) == \E i \in 1 .. Len(s) : s[i] = e
OnceIn(s, e) == \A i, j \in 1 .. Len(s) : s[i] = e /\ s[j] = e => i = j

\* What is done to the queue brings no e.
Quiet(s, t, e) == (Occurs(t, e) => Occurs(s, e)) /\ (OnceIn(s, e) => OnceIn(t, e))

LEMMA Queued ==
  ASSUME NEW S, NEW s \in Seq(S), NEW x \in S, NEW e
  PROVE  /\ Append(s, x) \in Seq(S)
         /\ Occurs(Append(s, x), e) <=> Occurs(s, e) \/ x = e
         /\ OnceIn(s, e) /\ (x = e => ~Occurs(s, e)) => OnceIn(Append(s, x), e)
<1>1. /\ Append(s, x) \in Seq(S) /\ Len(Append(s, x)) = Len(s) + 1 /\ Len(s) \in Nat
      /\ Append(s, x)[Len(s) + 1] = x
      /\ \A i \in 1 .. Len(s) : Append(s, x)[i] = s[i]
  OBVIOUS
<1>2. \A i \in 1 .. Len(s) + 1 : i \in 1 .. Len(s) \/ i = Len(s) + 1
  BY <1>1
<1>3. Occurs(Append(s, x), e) <=> Occurs(s, e) \/ x = e
  BY <1>1, <1>2 DEF Occurs
<1>4. OnceIn(s, e) /\ (x = e => ~Occurs(s, e)) => OnceIn(Append(s, x), e)
  BY <1>1, <1>2 DEF OnceIn, Occurs
<1> QED
  BY <1>1, <1>3, <1>4

LEMMA Dequeued ==
  ASSUME NEW S, NEW s \in Seq(S), s # <<>>, NEW e
  PROVE  /\ Tail(s) \in Seq(S) /\ Head(s) \in S /\ Occurs(s, Head(s))
         /\ Occurs(Tail(s), e) => Occurs(s, e)
         /\ OnceIn(s, e) => OnceIn(Tail(s), e)
         /\ OnceIn(s, e) /\ Head(s) = e => ~Occurs(Tail(s), e)
<1>1. /\ Tail(s) \in Seq(S) /\ Len(Tail(s)) = Len(s) - 1 /\ Len(s) \in Nat /\ Len(s) >= 1
      /\ Head(s) = s[1] /\ s[1] \in S
      /\ \A i \in 1 .. Len(s) - 1 : Tail(s)[i] = s[i + 1]
  OBVIOUS
<1>2. \A i \in 1 .. Len(s) - 1 : i + 1 \in 1 .. Len(s) /\ i + 1 # 1
  BY <1>1
<1>3. 1 \in 1 .. Len(s)
  BY <1>1
<1>4. \A i, j \in 1 .. Len(s) - 1 : i + 1 = j + 1 => i = j
  BY <1>1
<1>5. Occurs(s, Head(s))
  BY <1>1, <1>3 DEF Occurs
<1>6. Occurs(Tail(s), e) => Occurs(s, e)
  BY <1>1, <1>2 DEF Occurs
<1>7. OnceIn(s, e) => OnceIn(Tail(s), e)
  BY <1>1, <1>2, <1>4 DEF OnceIn
<1>8. OnceIn(s, e) /\ Head(s) = e => ~Occurs(Tail(s), e)
  BY <1>1, <1>2, <1>3 DEF OnceIn, Occurs
<1> QED
  BY <1>1, <1>5, <1>6, <1>7, <1>8

LEMMA QuietAppend ==
  ASSUME NEW S, NEW s \in Seq(S), NEW x \in S, NEW e, x # e
  PROVE  Append(s, x) \in Seq(S) /\ Quiet(s, Append(s, x), e)
BY Queued DEF Quiet

LEMMA QuietTail ==
  ASSUME NEW S, NEW s \in Seq(S), s # <<>>, NEW e
  PROVE  Tail(s) \in Seq(S) /\ Quiet(s, Tail(s), e)
BY Dequeued DEF Quiet

LEMMA QuietJoin ==
  ASSUME NEW S, NEW s \in Seq(S), NEW u \in Seq(S), NEW e, \A i \in 1 .. Len(u) : u[i] # e
  PROVE  s \o u \in Seq(S) /\ Quiet(s, s \o u, e)
<1>1. /\ s \o u \in Seq(S) /\ Len(s \o u) = Len(s) + Len(u) /\ Len(s) \in Nat /\ Len(u) \in Nat
      /\ \A i \in 1 .. Len(s) : (s \o u)[i] = s[i]
      /\ \A i \in 1 .. Len(s) + Len(u) : i > Len(s) => (s \o u)[i] = u[i - Len(s)]
  OBVIOUS
<1>2. \A i \in 1 .. Len(s) + Len(u) : i > Len(s) => (s \o u)[i] # e
  <2> TAKE i \in 1 .. Len(s) + Len(u)
  <2>1. i > Len(s) => i - Len(s) \in 1 .. Len(u)
    BY <1>1
  <2> QED
    BY <1>1, <2>1
<1>3. \A i \in 1 .. Len(s) + Len(u) : (s \o u)[i] = e => i \in 1 .. Len(s) /\ s[i] = e
  BY <1>1, <1>2
<1> QED
  BY <1>1, <1>3 DEF Quiet, Occurs, OnceIn

LEMMA QuietThen ==
  ASSUME NEW s, NEW t, NEW u, NEW e, Quiet(s, t, e), Quiet(t, u, e)
  PROVE  Quiet(s, u, e)
BY DEF Quiet

LEMMA OneOrNone ==
  ASSUME NEW S, NEW x \in S
  PROVE  /\ <<>> \in Seq(S) /\ 1 .. Len(<<>>) = {}
         /\ <<x>> \in Seq(S) /\ 1 .. Len(<<x>>) = {1} /\ <<x>>[1] = x
OBVIOUS

LEMMA Concatenated ==
  ASSUME NEW S, NEW s \in Seq(S), NEW u \in Seq(S)
  PROVE  s \o u \in Seq(S)
OBVIOUS

-----------------------------------------------------------------------------
(* The inductive invariant                                                  *)

Operations == {"input", "interrupt", "shutdown", "decision"} \X Nat
Events == {e \in {"ask", "begin", "end", "error", "complete", "aborted", "shutdown"}
                    \X Nat \X {"", "command", "change", "ran", "failed"} :
             e[1] = "ask" => e = <<"ask", e[2], "">>}
AnswerStates == {"none", "waiting", "got", "told", "submitted"}

Typed ==
  /\ ops \in Seq(Operations) /\ events \in Seq(Events)
  /\ active \in Nat /\ calls \in Nat /\ turns \in 0 .. MaxTurns
  /\ call \in [id : Nat, kind : {"none", "command", "change"}, begun : BOOLEAN,
               waits : Nat, asks : Nat]
  /\ asked \in Seq([turn : Nat, call : Nat, kind : {"command", "change"}])
  /\ Len(asked) <= MaxAsks
  /\ answer \in [Asks -> AnswerStates]
  /\ given \in [Asks -> Decisions \union {"none"}]
  /\ fate \in [Turns -> {"none", "running", "joined", "completed", "failed", "interrupted"}]
  /\ interrupts \in Nat /\ busy \in {"idle", "start", "interrupt", "archive"} \X Nat

Pending(n) == Occurs(events, <<"ask", n, "">>)
Sent(n) == Occurs(ops, <<"decision", n>>)
Due(t) == Occurs(ops, <<"input", t>>)

\* A turn is submitted once, and approvals are asked for when it has begun.
TurnInv ==
  /\ \A t \in Nat : OnceIn(ops, <<"input", t>>) /\ (Due(t) => t \in 1 .. turns /\ fate[t] = "none")
  /\ \A t \in Turns : t > turns => fate[t] = "none"
  /\ active # 0 => active \in Turns /\ fate[active] = "running"
  /\ \A n \in 1 .. Len(asked) : asked[n].turn \in Turns /\ fate[asked[n].turn] # "none"

\* A call is one of the running turn, and waits for an approval of its own.
CallInv ==
  /\ call.id = 0 => call = NoCall
  /\ call.id # 0 => active # 0
  /\ call.waits # 0 => call.waits \in 1 .. Len(asked) /\ asked[call.waits].turn = active

\* An approval is announced once, answered once, and decided upon once.
AnswerOf(n) ==
  /\ OnceIn(events, <<"ask", n, "">>) /\ OnceIn(ops, <<"decision", n>>)
  /\ Pending(n) => n \in 1 .. Len(asked) /\ answer[n] = "none"
  /\ Sent(n) => n \in 1 .. Len(asked) /\ answer[n] = "submitted" /\ given[n] # "none"
  /\ n \in Asks /\ n > Len(asked) => answer[n] = "none"
  /\ n \in Asks /\ answer[n] \in {"got", "told"} => given[n] # "none"

AnswerInv == \A n \in Nat : AnswerOf(n)

\* Nothing is left to come of an approval.
Settled(n) == answer[n] = "submitted" /\ ~Sent(n) /\ ~Pending(n)

\* The running turn waits for its last approval only.
SettledInv ==
  \A n \in 1 .. Len(asked) : asked[n].turn = active /\ n # call.waits => Settled(n)
-----------------------------------------------------------------------------
(* The queues                                                               *)

\* Nothing but AskApproval announces an approval.
EventsQuiet == /\ events' \in Seq(Events)
               /\ \A n \in Nat : Quiet(events, events', <<"ask", n, "">>)

LEMMA EventsSame ==
  ASSUME Typed, UNCHANGED events
  PROVE  EventsQuiet
BY DEF Typed, EventsQuiet, Quiet

LEMMA EventsAppended ==
  ASSUME Typed, NEW what \in {"begin", "end", "error", "complete", "aborted", "shutdown"},
         NEW x \in Nat, NEW how \in {"", "command", "change", "ran", "failed"},
         Emit(<<what, x, how>>)
  PROVE  EventsQuiet
<1> DEFINE v == <<what, x, how>>
<1>1. v \in Events /\ \A n \in Nat : v # <<"ask", n, "">>
  BY DEF Events
<1>2. events \in Seq(Events) /\ events' = Append(events, v)
  BY DEF Typed, Emit
<1> HIDE DEF v
<1>3. ASSUME NEW n \in Nat
      PROVE  Append(events, v) \in Seq(Events) /\ Quiet(events, Append(events, v), <<"ask", n, "">>)
  BY <1>1, <1>2, QuietAppend
<1>4. 0 \in Nat
  OBVIOUS
<1> QED
  BY <1>2, <1>3, <1>4 DEF EventsQuiet

LEMMA EventsTaken ==
  ASSUME Typed, events # <<>>, events' = Tail(events)
  PROVE  EventsQuiet
<1>1. events \in Seq(Events)
  BY DEF Typed
<1>2. ASSUME NEW n \in Nat PROVE Quiet(events, Tail(events), <<"ask", n, "">>)
  BY <1>1, QuietTail
<1>3. Tail(events) \in Seq(Events)
  BY <1>1
<1> QED
  BY <1>2, <1>3 DEF EventsQuiet

LEMMA EventsStopped ==
  ASSUME Typed, NEW es \in {<<>>, <<<<"shutdown", 0, "">>>>}, StopTurn(es)
  PROVE  EventsQuiet
<1> DEFINE a == <<<<"aborted", active, "">>>>
<1>1. events \in Seq(Events) /\ active \in Nat
  BY DEF Typed
<1>2. /\ <<"shutdown", 0, "">> \in Events /\ <<"aborted", active, "">> \in Events
      /\ \A n \in Nat : <<"shutdown", 0, "">> # <<"ask", n, "">> /\ <<"aborted", active, "">> # <<"ask", n, "">>
  BY <1>1 DEF Events
<1>3. es \in Seq(Events) /\ \A n \in Nat : \A i \in 1 .. Len(es) : es[i] # <<"ask", n, "">>
  BY <1>2, OneOrNone
<1>4. a \in Seq(Events) /\ \A n \in Nat : \A i \in 1 .. Len(a) : a[i] # <<"ask", n, "">>
  BY <1>2, OneOrNone
<1> HIDE DEF a
<1>5. events \o a \in Seq(Events) /\ events \o es \in Seq(Events) /\ events \o a \o es \in Seq(Events)
  <2>1. events \o a \in Seq(Events) /\ events \o es \in Seq(Events)
    BY <1>1, <1>3, <1>4, Concatenated
  <2> QED
    BY <1>3, <2>1, Concatenated
<1>6. ASSUME NEW n \in Nat
      PROVE  /\ Quiet(events, events \o es, <<"ask", n, "">>)
             /\ Quiet(events, events \o a \o es, <<"ask", n, "">>)
  <2> DEFINE e == <<"ask", n, "">>
  <2>1. (\A i \in 1 .. Len(es) : es[i] # e) /\ (\A i \in 1 .. Len(a) : a[i] # e)
    BY <1>3, <1>4
  <2> HIDE DEF e
  <2>2. Quiet(events, events \o es, e)
    BY <1>1, <1>3, <2>1, QuietJoin
  <2>3. Quiet(events, events \o a, e)
    BY <1>1, <1>4, <2>1, QuietJoin
  <2>4. Quiet(events \o a, events \o a \o es, e)
    BY <1>3, <1>5, <2>1, QuietJoin
  <2> QED
    BY <2>2, <2>3, <2>4, QuietThen DEF e
<1>7. events' = events \o es \/ events' = events \o a \o es
  BY DEF StopTurn, a
<1> QED
  BY <1>5, <1>6, <1>7 DEF EventsQuiet

LEMMA EventsStep ==
  ASSUME Typed, [Next]_vars
  PROVE  EventsQuiet \/ AskApproval
<1>1. call.id \in Nat /\ active \in Nat /\ calls + 1 \in Nat
  BY DEF Typed
<1>2. CASE UNCHANGED events
  BY <1>2, EventsSame
<1>3. CASE events # <<>> /\ events' = Tail(events)
  BY <1>3, EventsTaken
<1>4. CASE ServeInterrupt \/ ServeShutdown
  BY <1>4, EventsStopped DEF ServeInterrupt, ServeShutdown
<1>5. CASE ServeDecision
  <2>1. CASE StopTurn(<<>>)
    BY <2>1, EventsStopped
  <2>2. ASSUME NEW accept, Decide(accept) PROVE EventsQuiet
    <3>1. UNCHANGED events \/ Emit(<<"end", call.id, "failed">>)
      BY <2>2 DEF Decide
    <3> QED
      BY <1>1, <1>2, <3>1, EventsAppended, EventsSame
  <2> QED
    BY <1>2, <1>5, <2>1, <2>2, EventsSame DEF ServeDecision
<1>6. ASSUME NEW kind \in {"command", "change"}, CallStarts(kind) PROVE EventsQuiet
  <2>1. UNCHANGED events \/ Emit(<<"begin", calls + 1, "command">>)
    BY <1>6 DEF CallStarts
  <2> QED
    BY <1>1, <2>1, EventsAppended, EventsSame
<1>7. CASE PatchBegins
  BY <1>1, <1>7, EventsAppended DEF PatchBegins
<1>8. CASE CallEnds
  BY <1>1, <1>8, EventsAppended DEF CallEnds
<1>9. CASE TurnErrs
  BY <1>1, <1>9, EventsAppended DEF TurnErrs
<1>10. CASE TurnCompletes
  BY <1>1, <1>10, EventsAppended DEF TurnCompletes
<1>11. CASE ArchiveReads
  BY <1>3, <1>11 DEF ArchiveReads
<1>12. CASE Listen
  BY <1>3, <1>12
     DEF Listen, Heard, HearBegin, HearAsk, HearEnd, HearError, HearComplete, HearAborted, HearShutdown
<1>13. CASE ProcessorStep
  BY <1>2, <1>13
     DEF ProcessorStep, session, TurnStart, TurnStarted, TurnInterrupt, InterruptSent, Archive,
         ArchiveReturns, Answer
<1>14. ASSUME NEW m \in Asks, TellDeclined(m) \/ Resolve(m) PROVE EventsQuiet \/ AskApproval
  <2>1. UNCHANGED events
    BY <1>14 DEF TellDeclined, Resolve, session
  <2> QED
    BY <1>2, <2>1
<1>15. CASE ServeInput \/ UNCHANGED vars
  BY <1>2, <1>15 DEF ServeInput, vars, session
<1> QED
  BY <1>4, <1>5, <1>6, <1>7, <1>8, <1>9, <1>10, <1>11, <1>12, <1>13, <1>14, <1>15
     DEF Next, SessionStep, Serve

\* Only turn/start submits a turn, and only Resolve a decision.
OpsQuiet == /\ ops' \in Seq(Operations)
            /\ \A n \in Nat : /\ Quiet(ops, ops', <<"decision", n>>)
                              /\ Quiet(ops, ops', <<"input", n>>)

LEMMA OpsSame ==
  ASSUME Typed, UNCHANGED ops
  PROVE  OpsQuiet
BY DEF Typed, OpsQuiet, Quiet

LEMMA OpsTaken ==
  ASSUME Typed, ops # <<>>, ops' = Tail(ops)
  PROVE  OpsQuiet
<1>1. ops \in Seq(Operations)
  BY DEF Typed
<1>2. ASSUME NEW e PROVE Tail(ops) \in Seq(Operations) /\ Quiet(ops, Tail(ops), e)
  BY <1>1, QuietTail
<1> QED
  BY <1>2 DEF OpsQuiet

LEMMA OpsSubmitted ==
  ASSUME Typed, NEW x \in Operations, x[1] \in {"interrupt", "shutdown"}, Submit(x)
  PROVE  OpsQuiet
<1>1. ops \in Seq(Operations) /\ ops' = Append(ops, x)
  BY DEF Typed, Submit
<1>2. ASSUME NEW n \in Nat PROVE x # <<"decision", n>> /\ x # <<"input", n>>
  OBVIOUS
<1>3. ASSUME NEW e, x # e PROVE Append(ops, x) \in Seq(Operations) /\ Quiet(ops, Append(ops, x), e)
  BY <1>1, <1>3, QuietAppend
<1>4. x # <<"input", 0>>
  BY <1>2
<1> QED
  BY <1>1, <1>2, <1>3, <1>4 DEF OpsQuiet

LEMMA OpsStep ==
  ASSUME Typed, [Next]_vars
  PROVE  OpsQuiet \/ TurnStart \/ \E n \in Asks : Resolve(n)
<1>1. CASE UNCHANGED ops
  BY <1>1, OpsSame
<1>2. CASE Serve
  BY <1>2, OpsTaken DEF Serve, ServeInput, ServeInterrupt, ServeShutdown, ServeDecision, Served
<1>3. CASE InterruptSent
  <2>1. busy \in Operations /\ busy[1] = "interrupt" /\ Submit(busy)
    BY <1>3 DEF InterruptSent, Typed, Operations
  <2> QED
    BY <2>1, OpsSubmitted
<1>4. CASE Archive
  <2>1. <<"shutdown", 0>> \in Operations /\ <<"shutdown", 0>>[1] = "shutdown"
    BY DEF Operations
  <2> QED
    BY <1>4, <2>1, OpsSubmitted DEF Archive
<1>5. ASSUME NEW n \in Asks, TellDeclined(n) PROVE UNCHANGED ops
  BY <1>5 DEF TellDeclined, session
<1>6. ASSUME NEW n \in Asks, NEW d \in Decisions, Answer(n, d) PROVE UNCHANGED ops
  BY <1>6 DEF Answer, session
<1> QED
  BY <1>1, <1>2, <1>3, <1>4, <1>5, <1>6
     DEF Next, SessionStep, ProcessorStep, session, vars, AskApproval, PatchBegins, CallEnds,
         TurnErrs, TurnCompletes, CallStarts, TurnStarted, TurnInterrupt, ArchiveReturns,
         ArchiveReads, Listen, HearBegin, HearAsk, HearEnd, HearError, HearComplete, HearAborted,
         HearShutdown

-----------------------------------------------------------------------------
(* Types                                                                    *)

LEMMA TypedInit == Init => Typed
<1> SUFFICES ASSUME Init PROVE Typed
  OBVIOUS
<1>1. ops = <<>> /\ events = <<>> /\ asked = <<>> /\ Len(asked) = 0
  BY DEF Init
<1>2. active \in Nat /\ calls \in Nat /\ turns \in 0 .. MaxTurns /\ interrupts \in Nat /\ Len(asked) <= MaxAsks
  BY <1>1, AppServerAssumption DEF Init
<1>3. call \in [id : Nat, kind : {"none", "command", "change"}, begun : BOOLEAN, waits : Nat, asks : Nat]
  BY DEF Init, NoCall
<1>4. /\ answer \in [Asks -> AnswerStates] /\ given \in [Asks -> Decisions \union {"none"}]
      /\ fate \in [Turns -> {"none", "running", "joined", "completed", "failed", "interrupted"}]
      /\ busy \in {"idle", "start", "interrupt", "archive"} \X Nat
  BY DEF Init, AnswerStates, Idle
<1> QED
  BY <1>1, <1>2, <1>3, <1>4 DEF Typed

LEMMA AskedIs ==
  ASSUME Typed, AskApproval
  PROVE  /\ Len(asked) \in Nat /\ Len(asked') = Len(asked) + 1 /\ Len(asked') <= MaxAsks
         /\ asked' \in Seq([turn : Nat, call : Nat, kind : {"command", "change"}])
         /\ \A n \in 1 .. Len(asked) : asked'[n] = asked[n]
         /\ asked'[Len(asked) + 1].turn = active
<1> DEFINE R == [turn : Nat, call : Nat, kind : {"command", "change"}]
           x == [turn |-> active, call |-> call.id,
                 kind |-> IF call.begun THEN "command" ELSE "change"]
<1>1. x \in R /\ x.turn = active
  BY DEF Typed
<1>2. asked' = Append(asked, x) /\ Len(asked) < MaxAsks /\ asked \in Seq(R) /\ MaxAsks \in Nat
  BY AppServerAssumption DEF AskApproval, Typed
<1> HIDE DEF x, R
<1>3. /\ Append(asked, x) \in Seq(R) /\ Len(Append(asked, x)) = Len(asked) + 1 /\ Len(asked) \in Nat
      /\ \A n \in 1 .. Len(asked) : Append(asked, x)[n] = asked[n]
      /\ Append(asked, x)[Len(asked) + 1] = x
  BY <1>1, <1>2
<1>4. Len(asked) + 1 <= MaxAsks
  BY <1>2, <1>3
<1> QED
  BY <1>1, <1>2, <1>3, <1>4 DEF R

LEMMA TypedStep ==
  ASSUME Typed, [Next]_vars
  PROVE  Typed'
<1>1. call.id \in Nat /\ call.asks \in Nat /\ Len(asked) \in Nat /\ active \in Nat
      /\ Len(asked) + 1 \in Nat /\ calls + 1 \in Nat /\ turns + 1 \in Nat
      /\ NoCall \in [id : Nat, kind : {"none", "command", "change"}, begun : BOOLEAN,
                     waits : Nat, asks : Nat]
  BY DEF Typed, NoCall
<1>2. events' \in Seq(Events)
  <2>1. CASE AskApproval
    <3> DEFINE x == <<"ask", Len(asked'), "">>
    <3>1. Len(asked') = Len(asked) + 1
      BY <2>1, AskedIs
    <3>2. x \in Events
      BY <1>1, <3>1 DEF Events
    <3>3. events' = Append(events, x) /\ events \in Seq(Events)
      BY <2>1 DEF AskApproval, Emit, Typed
    <3> HIDE DEF x
    <3> QED
      BY <3>2, <3>3, Queued
  <2> QED
    BY <2>1, EventsStep DEF EventsQuiet
<1>3. ops' \in Seq(Operations)
  <2>1. CASE TurnStart
    <3> DEFINE x == <<"input", turns + 1>>
    <3>1. x \in Operations
      BY <1>1 DEF Operations
    <3>2. ops' = Append(ops, x) /\ ops \in Seq(Operations)
      BY <2>1 DEF TurnStart, Submit, Typed
    <3> HIDE DEF x
    <3> QED
      BY <3>1, <3>2, Queued
  <2>2. ASSUME NEW n \in Asks, Resolve(n) PROVE ops' \in Seq(Operations)
    <3> DEFINE x == <<"decision", n>>
    <3>1. x \in Operations
      BY DEF Operations, Asks
    <3>2. ops' = Append(ops, x) /\ ops \in Seq(Operations)
      BY <2>2 DEF Resolve, Submit, Typed
    <3> HIDE DEF x
    <3> QED
      BY <3>1, <3>2, Queued
  <2> QED
    BY <2>1, <2>2, OpsStep DEF OpsQuiet
<1> DEFINE
      Session == /\ active' \in Nat /\ calls' \in Nat
                 /\ call' \in [id : Nat, kind : {"none", "command", "change"}, begun : BOOLEAN,
                               waits : Nat, asks : Nat]
                 /\ fate' \in [Turns -> {"none", "running", "joined", "completed", "failed",
                                         "interrupted"}]
      Asked == /\ asked' \in Seq([turn : Nat, call : Nat, kind : {"command", "change"}])
               /\ Len(asked') <= MaxAsks
      Rest == /\ turns' \in 0 .. MaxTurns /\ interrupts' \in Nat
              /\ answer' \in [Asks -> AnswerStates] /\ given' \in [Asks -> Decisions \union {"none"}]
              /\ busy' \in {"idle", "start", "interrupt", "archive"} \X Nat
<1>4. UNCHANGED <<active, calls, call, fate>> => Session
  BY DEF Typed
<1>5. UNCHANGED asked => Asked
  BY DEF Typed
<1>6. UNCHANGED <<turns, interrupts, answer, given, busy>> => Rest
  BY DEF Typed
<1>7. ASSUME NEW es, StopTurn(es), UNCHANGED calls PROVE Session
  <2>1. CASE active = 0
    BY <1>4, <1>7, <2>1 DEF StopTurn
  <2>2. CASE active # 0
    <3>1. fate' = [fate EXCEPT ![active] = "interrupted"] /\ active' = 0 /\ call' = NoCall
      BY <1>7, <2>2 DEF StopTurn, Ends
    <3>2. calls' = calls
      BY <1>7
    <3> QED
      BY <1>1, <3>1, <3>2 DEF Typed
  <2> QED
    BY <2>1, <2>2
<1>8. Session
  <2>1. CASE ServeInput
    <3>1. Op[2] \in Nat
      BY <2>1, Dequeued DEF ServeInput, Served, Op, Typed, Operations
    <3> QED
      BY <2>1, <3>1 DEF ServeInput, Typed
  <2>2. CASE ServeInterrupt \/ ServeShutdown
    BY <1>7, <2>2 DEF ServeInterrupt, ServeShutdown
  <2>3. CASE ServeDecision
    <3>1. ASSUME NEW accept, Decide(accept), UNCHANGED <<active, calls, fate>> PROVE Session
      <4>1. call' = [call EXCEPT !.waits = 0] \/ call' = NoCall
        BY <3>1 DEF Decide
      <4>2. call \in [id : Nat, kind : {"none", "command", "change"}, begun : BOOLEAN,
                      waits : Nat, asks : Nat]
        BY DEF Typed
      <4>3. call' \in [id : Nat, kind : {"none", "command", "change"}, begun : BOOLEAN,
                       waits : Nat, asks : Nat]
        BY <1>1, <4>1, <4>2
      <4> QED
        BY <3>1, <4>3 DEF Typed
    <3> HIDE DEF Session
    <3> QED
      BY <1>4, <1>7, <2>3, <3>1 DEF ServeDecision
  <2>4. ASSUME NEW kind \in {"command", "change"}, CallStarts(kind) PROVE Session
    BY <1>1, <2>4 DEF CallStarts, NoCall, Typed
  <2>5. CASE AskApproval
    <3>1. Len(asked') \in Nat /\ call.asks + 1 \in Nat
      BY <1>1, <2>5, AskedIs
    <3>2. call' = [call EXCEPT !.waits = Len(asked'), !.asks = @ + 1]
          /\ UNCHANGED <<active, calls, fate>>
      BY <2>5 DEF AskApproval
    <3> QED
      BY <3>1, <3>2 DEF Typed
  <2>6. CASE PatchBegins
    BY <1>1, <2>6 DEF PatchBegins, Typed
  <2>7. CASE CallEnds
    BY <1>1, <2>7 DEF CallEnds, Typed
  <2>8. CASE TurnErrs
    BY <1>4, <2>8 DEF TurnErrs
  <2>9. CASE TurnCompletes
    BY <1>1, <2>9 DEF TurnCompletes, Ends, Typed
  <2>10. CASE UNCHANGED <<active, calls, call, fate>>
    BY <1>4, <2>10
  <2> HIDE DEF Session
  <2> QED
    BY <2>1, <2>2, <2>3, <2>4, <2>5, <2>6, <2>7, <2>8, <2>9, <2>10
       DEF Next, SessionStep, Serve, ProcessorStep, session, vars, TurnStart, TurnStarted,
           TurnInterrupt, InterruptSent, Archive, Answer, ArchiveReturns, ArchiveReads, Listen,
           HearBegin, HearAsk, HearEnd, HearError, HearComplete, HearAborted, HearShutdown,
           TellDeclined, Resolve
<1>9. Asked
  <2>1. CASE AskApproval
    BY <2>1, AskedIs
  <2>2. CASE UNCHANGED asked
    BY <1>5, <2>2
  <2> HIDE DEF Asked
  <2> QED
    BY <2>1, <2>2
       DEF Next, SessionStep, Serve, ServeInput, ServeInterrupt, ServeShutdown, ServeDecision,
           CallStarts, PatchBegins, CallEnds, TurnErrs, TurnCompletes, ProcessorStep, session,
           vars, TurnStart, TurnStarted, TurnInterrupt, InterruptSent, Archive, Answer,
           ArchiveReturns, ArchiveReads, Listen, HearBegin, HearAsk, HearEnd, HearError,
           HearComplete, HearAborted, HearShutdown, TellDeclined, Resolve
<1>10. Rest
  <2>1. CASE TurnStart
    <3>1. turns' = turns + 1 /\ turns + 1 \in 0 .. MaxTurns
      BY <2>1, AppServerAssumption DEF TurnStart, Typed
    <3>2. busy' \in {"idle", "start", "interrupt", "archive"} \X Nat
      BY <1>1, <2>1, <3>1 DEF TurnStart
    <3> QED
      BY <2>1, <3>1, <3>2 DEF TurnStart, Typed, client
  <2>2. CASE TurnInterrupt
    <3>1. interrupts' \in Nat
      BY <2>2 DEF TurnInterrupt, Typed
    <3>2. busy' \in {"idle", "start", "interrupt", "archive"} \X Nat
      BY <2>2, <3>1 DEF TurnInterrupt
    <3> QED
      BY <2>2, <3>1, <3>2 DEF TurnInterrupt, Typed, client
  <2>3. CASE TurnStarted \/ InterruptSent \/ ArchiveReturns
    BY <2>3 DEF TurnStarted, InterruptSent, ArchiveReturns, Typed, client, Idle
  <2>4. CASE Archive
    BY <2>4 DEF Archive, Typed, client
  <2>5. ASSUME NEW n \in Asks, NEW d \in Decisions, Answer(n, d) PROVE Rest
    BY <2>5 DEF Answer, Typed, processor, AnswerStates
  <2>6. CASE HearAsk
    BY <2>6 DEF HearAsk, Typed, processor, AnswerStates
  <2>7. ASSUME NEW n \in Asks, TellDeclined(n) PROVE Rest
    BY <2>7 DEF TellDeclined, Typed, processor, AnswerStates
  <2>8. ASSUME NEW n \in Asks, Resolve(n) PROVE Rest
    BY <2>8 DEF Resolve, Typed, processor, client, AnswerStates
  <2>9. CASE UNCHANGED <<turns, interrupts, answer, given, busy>>
    BY <1>6, <2>9
  <2> HIDE DEF Rest
  <2> QED
    BY <2>1, <2>2, <2>3, <2>4, <2>5, <2>6, <2>7, <2>8, <2>9
       DEF Next, SessionStep, Serve, ServeInput, ServeInterrupt, ServeShutdown, ServeDecision,
           CallStarts, AskApproval, PatchBegins, CallEnds, TurnErrs, TurnCompletes, ProcessorStep,
           processor, client, session, vars, ArchiveReads, Listen, HearBegin, HearEnd, HearError,
           HearComplete, HearAborted, HearShutdown
<1> QED
  BY <1>2, <1>3, <1>8, <1>9, <1>10 DEF Typed

\* Every variable of the session and of the server keeps its type.
THEOREM TypesHold == Spec => []Typed
BY TypedInit, TypedStep, PTL DEF Spec

-----------------------------------------------------------------------------
(* What a step brings to the queues                                         *)

LEMMA PendingStep ==
  ASSUME Typed, [Next]_vars, NEW n \in Nat
  PROVE  Quiet(events, events', <<"ask", n, "">>) \/ (AskApproval /\ n = Len(asked) + 1)
<1>1. CASE EventsQuiet
  BY <1>1 DEF EventsQuiet
<1>2. CASE AskApproval /\ n # Len(asked) + 1
  <2> DEFINE x == <<"ask", Len(asked) + 1, "">>
             e == <<"ask", n, "">>
  <2>1. Len(asked') = Len(asked) + 1 /\ Len(asked) + 1 \in Nat
    BY <1>2, AskedIs
  <2>2. x \in Events /\ x # e
    BY <1>2, <2>1 DEF Events
  <2>3. events' = Append(events, x) /\ events \in Seq(Events)
    BY <1>2, <2>1 DEF AskApproval, Emit, Typed
  <2> HIDE DEF x, e
  <2>4. Quiet(events, events', e)
    BY <2>2, <2>3, QuietAppend
  <2> QED
    BY <2>4 DEF e
<1> QED
  BY <1>1, <1>2, EventsStep

LEMMA DueStep ==
  ASSUME Typed, [Next]_vars, NEW t \in Nat
  PROVE  Quiet(ops, ops', <<"input", t>>) \/ (TurnStart /\ t = turns + 1)
<1> DEFINE e == <<"input", t>>
<1>1. CASE OpsQuiet
  BY <1>1 DEF OpsQuiet
<1>2. ASSUME NEW x \in Operations, x # e, Submit(x) PROVE Quiet(ops, ops', e)
  <2> HIDE DEF e
  <2>1. ops' = Append(ops, x) /\ ops \in Seq(Operations)
    BY <1>2 DEF Submit, Typed
  <2> QED
    BY <1>2, <2>1, QuietAppend
<1>3. CASE TurnStart /\ t # turns + 1
  <2>1. turns + 1 \in Nat /\ Submit(<<"input", turns + 1>>)
    BY <1>3 DEF TurnStart, Typed
  <2>2. <<"input", turns + 1>> \in Operations /\ <<"input", turns + 1>> # e
    BY <1>3, <2>1 DEF Operations
  <2> QED
    BY <1>2, <2>1, <2>2
<1>4. ASSUME NEW n \in Asks, Resolve(n) PROVE Quiet(ops, ops', e)
  <2>1. <<"decision", n>> \in Operations /\ <<"decision", n>> # e /\ Submit(<<"decision", n>>)
    BY <1>4 DEF Operations, Asks, Resolve
  <2> QED
    BY <1>2, <2>1
<1> QED
  BY <1>1, <1>3, <1>4, OpsStep

LEMMA SentStep ==
  ASSUME Typed, [Next]_vars, NEW n \in Nat
  PROVE  Quiet(ops, ops', <<"decision", n>>) \/ (n \in Asks /\ Resolve(n))
<1> DEFINE e == <<"decision", n>>
<1>1. CASE OpsQuiet
  BY <1>1 DEF OpsQuiet
<1>2. ASSUME NEW x \in Operations, x # e, Submit(x) PROVE Quiet(ops, ops', e)
  <2> HIDE DEF e
  <2>1. ops' = Append(ops, x) /\ ops \in Seq(Operations)
    BY <1>2 DEF Submit, Typed
  <2> QED
    BY <1>2, <2>1, QuietAppend
<1>3. CASE TurnStart
  <2>1. turns + 1 \in Nat /\ Submit(<<"input", turns + 1>>)
    BY <1>3 DEF TurnStart, Typed
  <2>2. <<"input", turns + 1>> \in Operations /\ <<"input", turns + 1>> # e
    BY <2>1 DEF Operations
  <2> QED
    BY <1>2, <2>1, <2>2
<1>4. ASSUME NEW m \in Asks, Resolve(m), m # n PROVE Quiet(ops, ops', e)
  <2>1. <<"decision", m>> \in Operations /\ <<"decision", m>> # e /\ Submit(<<"decision", m>>)
    BY <1>4 DEF Operations, Asks, Resolve
  <2> QED
    BY <1>2, <2>1
<1> QED
  BY <1>1, <1>3, <1>4, OpsStep

\* What is taken from a queue is in it no more, if it was in it once.
LEMMA Taken ==
  ASSUME NEW S, NEW s \in Seq(S), s # <<>>, OnceIn(s, Head(s))
  PROVE  Occurs(s, Head(s)) /\ ~Occurs(Tail(s), Head(s))
BY Dequeued

-----------------------------------------------------------------------------
(* Turns                                                                    *)

LEMMA TurnInvStep ==
  ASSUME Typed, Typed', TurnInv, CallInv, [Next]_vars
  PROVE  TurnInv'
<1> USE DEF TurnInv
<1>0. /\ turns \in Nat /\ turns <= MaxTurns /\ MaxTurns \in Nat /\ active \in Nat
      /\ fate \in [Turns -> {"none", "running", "joined", "completed", "failed", "interrupted"}]
      /\ Turns = 1 .. MaxTurns /\ Len(asked) \in Nat
  <2>1. turns \in 0 .. MaxTurns /\ MaxTurns \in Nat
    BY AppServerAssumption DEF Typed
  <2>2. turns \in Nat /\ turns <= MaxTurns
    BY <2>1
  <2>3. active \in Nat /\ Len(asked) \in Nat
    BY DEF Typed
  <2>4. fate \in [Turns -> {"none", "running", "joined", "completed", "failed", "interrupted"}]
    BY DEF Typed
  <2> QED
    BY <2>1, <2>2, <2>3, <2>4 DEF Turns
<1>1. CASE TurnStart
  <2>1. turns' = turns + 1 /\ turns + 1 \in Turns /\ UNCHANGED <<active, asked, fate>>
    BY <1>0, <1>1 DEF TurnStart
  <2>2. ASSUME NEW t \in Nat
        PROVE  OnceIn(ops, <<"input", t>>)' /\ (Due(t)' => t \in 1 .. turns' /\ fate'[t] = "none")
    <3>1. CASE t # turns + 1
      <4>1. Quiet(ops, ops', <<"input", t>>)
        BY <3>1, DueStep
      <4> QED
        BY <1>0, <2>1, <4>1 DEF Quiet, Due
    <3>2. CASE t = turns + 1
      <4> DEFINE e == <<"input", turns + 1>>
      <4>1. ops' = Append(ops, e) /\ ops \in Seq(Operations) /\ e \in Operations
        BY <1>1, <2>1 DEF TurnStart, Submit, Typed, Operations, Turns
      <4>2. ~Occurs(ops, e) /\ OnceIn(ops, e)
        BY <1>0 DEF Due
      <4> HIDE DEF e
      <4>3. OnceIn(ops', e)
        BY <4>1, <4>2, Queued
      <4>4. fate'[t] = "none" /\ t \in 1 .. turns'
        BY <1>0, <2>1, <3>2
      <4> QED
        BY <3>2, <4>3, <4>4 DEF e
    <3> QED
      BY <3>1, <3>2
  <2>3. \A t \in Turns : t > turns' => fate'[t] = "none"
    BY <1>0, <2>1
  <2> QED
    BY <1>0, <2>1, <2>2, <2>3
<1>2. ASSUME ~TurnStart, NEW t \in Nat
      PROVE  OnceIn(ops, <<"input", t>>)' /\ (Due(t)' => Due(t) /\ t \in 1 .. turns /\ fate[t] = "none")
  <2>1. Quiet(ops, ops', <<"input", t>>)
    BY <1>2, DueStep
  <2> QED
    BY <2>1 DEF Quiet, Due
<1>3. CASE ServeInput
  <2>1. ops # <<>> /\ ops \in Seq(Operations) /\ ops' = Tail(ops) /\ Op[1] = "input" /\ Op = Head(ops)
    BY <1>3 DEF ServeInput, Served, Typed, Op
  <2>2. Op \in Operations
    BY <2>1, Dequeued
  <2>3. PICK t \in Nat : Op = <<"input", t>>
    BY <2>1, <2>2 DEF Operations
  <2>4. Due(t) /\ ~Due(t)'
    <3>1. OnceIn(ops, Head(ops))
      BY <2>1, <2>3
    <3>2. Occurs(ops, Head(ops)) /\ ~Occurs(Tail(ops), Head(ops))
      BY <2>1, <3>1, Taken
    <3> QED
      BY <2>1, <2>3, <3>2 DEF Due
  <2>5. t \in 1 .. turns /\ t \in Turns /\ fate[t] = "none"
    BY <1>0, <2>3, <2>4
  <2>6. /\ UNCHANGED <<asked, turns>> /\ ~TurnStart
        /\ \/ active = 0 /\ active' = t /\ fate' = [fate EXCEPT ![t] = "running"]
           \/ active # 0 /\ active' = active /\ fate' = [fate EXCEPT ![t] = "joined"]
    BY <1>0, <1>3, <2>3 DEF ServeInput, processor, TurnStart
  <2>7. /\ fate'[t] \in {"running", "joined"} /\ \A u \in Turns \ {t} : fate'[u] = fate[u]
        /\ active' # 0 => active' \in Turns /\ fate'[active'] = "running"
    BY <1>0, <2>5, <2>6
  <2>8. ASSUME NEW u \in Nat
        PROVE  OnceIn(ops, <<"input", u>>)' /\ (Due(u)' => u \in 1 .. turns' /\ fate'[u] = "none")
    <3>1. OnceIn(ops, <<"input", u>>)' /\ (Due(u)' => Due(u) /\ u \in 1 .. turns /\ fate[u] = "none")
      BY <1>2, <2>6
    <3>2. Due(u)' => u # t
      BY <2>4
    <3>3. Due(u)' => u \in Turns /\ turns' = turns
      BY <1>0, <2>6, <3>1
    <3> QED
      BY <2>7, <3>1, <3>2, <3>3
  <2>9. \A u \in Turns : u > turns' => fate'[u] = "none"
    BY <1>0, <2>5, <2>6, <2>7
  <2>10. \A n \in 1 .. Len(asked') : asked'[n].turn \in Turns /\ fate'[asked'[n].turn] # "none"
    BY <2>6, <2>7
  <2> QED
    BY <2>7, <2>8, <2>9, <2>10
<1>4. ASSUME UNCHANGED turns PROVE ~TurnStart
  BY <1>0, <1>4 DEF TurnStart
<1>5. ASSUME NEW how \in {"completed", "failed", "interrupted"}, active # 0, active' = 0,
             fate' = [fate EXCEPT ![active] = how], UNCHANGED <<asked, turns>>
      PROVE  TurnInv'
  <2>1. /\ fate'[active] # "none" /\ \A t \in Turns \ {active} : fate'[t] = fate[t]
        /\ active \in Turns /\ fate[active] = "running"
    BY <1>0, <1>5
  <2>2. active <= turns
    BY <1>0, <2>1
  <2>3. ASSUME NEW t \in Nat
        PROVE  OnceIn(ops, <<"input", t>>)' /\ (Due(t)' => t \in 1 .. turns' /\ fate'[t] = "none")
    BY <1>0, <1>2, <1>4, <1>5, <2>1
  <2> QED
    BY <1>0, <1>5, <2>1, <2>2, <2>3
<1>6. ASSUME UNCHANGED <<active, fate, asked, turns>> PROVE TurnInv'
  BY <1>2, <1>4, <1>6
<1>7. ASSUME NEW es, StopTurn(es), UNCHANGED <<asked, turns>> PROVE TurnInv'
  BY <1>5, <1>6, <1>7 DEF StopTurn, Ends
<1>8. CASE ServeInterrupt \/ ServeShutdown
  BY <1>7, <1>8 DEF ServeInterrupt, ServeShutdown, processor
<1>9. CASE ServeDecision
  BY <1>6, <1>7, <1>9 DEF ServeDecision, processor
<1>10. CASE TurnCompletes
  <2>1. (IF erred THEN "failed" ELSE "completed") \in {"completed", "failed", "interrupted"}
    OBVIOUS
  <2> QED
    BY <1>5, <1>10, <2>1 DEF TurnCompletes, Ends, processor
<1>11. CASE AskApproval
  <2>1. UNCHANGED <<active, fate, turns>> /\ ~TurnStart /\ active # 0
    BY <1>4, <1>11 DEF AskApproval, processor, CallInv
  <2>2. \A n \in 1 .. Len(asked') : asked'[n].turn \in Turns /\ fate'[asked'[n].turn] # "none"
    <3> TAKE n \in 1 .. Len(asked')
    <3>1. CASE n \in 1 .. Len(asked)
      BY <1>11, <2>1, <3>1, AskedIs
    <3>2. CASE n = Len(asked) + 1
      BY <1>11, <2>1, <3>2, AskedIs
    <3> QED
      BY <1>0, <1>11, <3>1, <3>2, AskedIs
  <2> QED
    BY <1>2, <2>1, <2>2
<1> QED
  BY <1>1, <1>3, <1>6, <1>8, <1>9, <1>10, <1>11
     DEF Next, SessionStep, Serve, CallStarts, PatchBegins, CallEnds, TurnErrs, ProcessorStep,
         processor, session, vars, TurnStarted, TurnInterrupt, InterruptSent, Archive, Answer,
         ArchiveReturns, ArchiveReads, Listen, HearBegin, HearAsk, HearEnd, HearError,
         HearComplete, HearAborted, HearShutdown, TellDeclined, Resolve

-----------------------------------------------------------------------------
(* Calls and approvals                                                      *)

LEMMA CallInvStep ==
  ASSUME Typed, Typed', TurnInv, CallInv, [Next]_vars
  PROVE  CallInv'
<1> USE DEF CallInv
<1>0. /\ active \in Nat /\ calls \in Nat /\ Len(asked) \in Nat
      /\ call \in [id : Nat, kind : {"none", "command", "change"}, begun : BOOLEAN,
                   waits : Nat, asks : Nat]
      /\ NoCall.id = 0 /\ NoCall.waits = 0
  BY DEF Typed, NoCall
<1>1. ASSUME call' = NoCall PROVE CallInv'
  BY <1>0, <1>1
<1>2. ASSUME UNCHANGED <<active, call, asked>> PROVE CallInv'
  BY <1>2
<1>3. ASSUME NEW es, StopTurn(es), UNCHANGED asked PROVE CallInv'
  BY <1>1, <1>2, <1>3 DEF StopTurn, Ends
<1>4. CASE ServeInput
  <2>1. call' = call /\ asked' = asked /\ (active # 0 => active' = active)
    BY <1>4 DEF ServeInput
  <2>2. active = 0 => call = NoCall
    BY <1>0
  <2> QED
    BY <1>0, <1>1, <1>2, <2>1, <2>2
<1>5. CASE ServeInterrupt \/ ServeShutdown
  BY <1>3, <1>5 DEF ServeInterrupt, ServeShutdown
<1>6. CASE ServeDecision
  <2>1. ASSUME NEW accept, Decide(accept), call.waits # 0, UNCHANGED <<active, asked>> PROVE CallInv'
    <3>1. call' = NoCall \/ call' = [call EXCEPT !.waits = 0]
      BY <2>1 DEF Decide
    <3>2. call.id # 0
      BY <1>0, <2>1
    <3> QED
      BY <1>0, <1>1, <2>1, <3>1, <3>2
  <2> QED
    BY <1>2, <1>3, <1>6, <2>1 DEF ServeDecision
<1>7. ASSUME NEW kind \in {"command", "change"}, CallStarts(kind) PROVE CallInv'
  <2>1. call'.id = calls + 1 /\ call'.waits = 0 /\ active' = active /\ active # 0
    BY <1>7 DEF CallStarts, NoCall
  <2> QED
    BY <1>0, <2>1
<1>8. CASE AskApproval
  <2>1. call'.id = call.id /\ call'.waits = Len(asked) + 1 /\ active' = active /\ call.id # 0
    BY <1>0, <1>8, AskedIs DEF AskApproval
  <2>2. Len(asked) + 1 \in 1 .. Len(asked') /\ asked'[Len(asked) + 1].turn = active
    BY <1>0, <1>8, AskedIs
  <2> QED
    BY <1>0, <2>1, <2>2
<1>9. CASE PatchBegins
  <2>1. call'.id = call.id /\ call'.waits = call.waits /\ call.id # 0 /\ UNCHANGED <<active, asked>>
    <3>1. call # NoCall
      BY <1>9 DEF PatchBegins, NoCall
    <3> QED
      BY <1>0, <1>9, <3>1 DEF PatchBegins
  <2> QED
    BY <1>0, <2>1
<1>10. CASE CallEnds \/ TurnCompletes
  BY <1>1, <1>10 DEF CallEnds, TurnCompletes, Ends
<1> QED
  BY <1>2, <1>4, <1>5, <1>6, <1>7, <1>8, <1>9, <1>10
     DEF Next, SessionStep, Serve, TurnErrs, ProcessorStep, session, vars, TurnStart, TurnStarted,
         TurnInterrupt, InterruptSent, Archive, Answer, ArchiveReturns, ArchiveReads, Listen,
         HearBegin, HearAsk, HearEnd, HearError, HearComplete, HearAborted, HearShutdown,
         TellDeclined, Resolve

\* What the steps do to an approval: the listener announces it, the client
\* answers it, and a task tells the session.
LEMMA AnswerStep ==
  ASSUME Typed, [Next]_vars, NEW n \in Asks
  PROVE  \/ answer'[n] = answer[n] /\ given'[n] = given[n]
         \/ HearAsk /\ Event[2] = n /\ answer'[n] = "waiting" /\ given'[n] = given[n]
         \/ answer[n] = "waiting" /\ answer'[n] = "got" /\ given'[n] # "none"
         \/ answer[n] = "got" /\ answer'[n] = "told" /\ given'[n] = given[n]
         \/ Resolve(n) /\ answer'[n] = "submitted" /\ given'[n] = given[n]
<1> USE DEF Typed
<1>1. CASE HearAsk
  BY <1>1 DEF HearAsk
<1>2. ASSUME NEW m \in Asks, NEW d \in Decisions, Answer(m, d)
      PROVE  \/ answer'[n] = answer[n] /\ given'[n] = given[n]
             \/ answer[n] = "waiting" /\ answer'[n] = "got" /\ given'[n] # "none"
  BY <1>2 DEF Answer, Decisions
<1>3. ASSUME NEW m \in Asks, TellDeclined(m)
      PROVE  \/ answer'[n] = answer[n] /\ given'[n] = given[n]
             \/ answer[n] = "got" /\ answer'[n] = "told" /\ given'[n] = given[n]
  BY <1>3 DEF TellDeclined
<1>4. ASSUME NEW m \in Asks, Resolve(m)
      PROVE  \/ answer'[n] = answer[n] /\ given'[n] = given[n]
             \/ Resolve(n) /\ answer'[n] = "submitted" /\ given'[n] = given[n]
  BY <1>4 DEF Resolve, client
<1>5. CASE UNCHANGED <<answer, given>>
  BY <1>5
<1> QED
  BY <1>1, <1>2, <1>3, <1>4, <1>5
     DEF Next, SessionStep, Serve, ServeInput, ServeInterrupt, ServeShutdown, ServeDecision,
         CallStarts, AskApproval, PatchBegins, CallEnds, TurnErrs, TurnCompletes, ProcessorStep,
         client, session, vars, TurnStart, TurnStarted, TurnInterrupt, InterruptSent, Archive,
         ArchiveReturns, ArchiveReads, Listen, HearBegin, HearEnd, HearError, HearComplete,
         HearAborted, HearShutdown

LEMMA AskedStep ==
  ASSUME Typed, [Next]_vars
  PROVE  AskApproval \/ UNCHANGED asked
BY DEF Next, SessionStep, Serve, ServeInput, ServeInterrupt, ServeShutdown, ServeDecision,
       CallStarts, PatchBegins, CallEnds, TurnErrs, TurnCompletes, ProcessorStep, session, vars,
       TurnStart, TurnStarted, TurnInterrupt, InterruptSent, Archive, Answer, ArchiveReturns,
       ArchiveReads, Listen, HearBegin, HearAsk, HearEnd, HearError, HearComplete, HearAborted,
       HearShutdown, TellDeclined, Resolve

\* An approval that is announced is the next event, and is in the queue no more.
LEMMA Announced ==
  ASSUME Typed, AnswerInv, HearAsk, NEW n \in Nat, n = Event[2]
  PROVE  Pending(n) /\ ~Pending(n)'
<1>1. /\ events # <<>> /\ events \in Seq(Events) /\ events' = Tail(events)
      /\ Head(events)[1] = "ask" /\ n = Head(events)[2]
  BY DEF HearAsk, Heard, Is, Event, Typed
<1>2. Head(events) \in Events
  BY <1>1, Dequeued
<1>3. Head(events) = <<"ask", n, "">>
  BY <1>1, <1>2 DEF Events
<1>4. OnceIn(events, Head(events))
  BY <1>3 DEF AnswerInv, AnswerOf
<1>5. Occurs(events, Head(events)) /\ ~Occurs(Tail(events), Head(events))
  BY <1>1, <1>4, Taken
<1> QED
  BY <1>1, <1>3, <1>5 DEF Pending

\* A decision is served once.
LEMMA Decided ==
  ASSUME Typed, AnswerInv, ServeDecision
  PROVE  \E n \in Nat : Op[2] = n /\ Sent(n) /\ ~Sent(n)'
<1>1. /\ ops # <<>> /\ ops \in Seq(Operations) /\ ops' = Tail(ops) /\ Op[1] = "decision"
      /\ Op = Head(ops)
  BY DEF ServeDecision, Served, Op, Typed
<1>2. Op \in Operations
  BY <1>1, Dequeued
<1>3. PICK n \in Nat : Op = <<"decision", n>>
  BY <1>1, <1>2 DEF Operations
<1>4. OnceIn(ops, Head(ops))
  BY <1>1, <1>3 DEF AnswerInv, AnswerOf
<1>5. Occurs(ops, Head(ops)) /\ ~Occurs(Tail(ops), Head(ops))
  BY <1>1, <1>4, Taken
<1> QED
  BY <1>1, <1>3, <1>5 DEF Sent

LEMMA AnswerInvStep ==
  ASSUME Typed, Typed', AnswerInv, [Next]_vars
  PROVE  AnswerInv'
<1> SUFFICES ASSUME NEW n \in Nat PROVE AnswerOf(n)'
  BY DEF AnswerInv
<1>0. /\ Len(asked) \in Nat /\ Len(asked') \in Nat
      /\ Len(asked) <= Len(asked') /\ Len(asked') <= MaxAsks
      /\ MaxAsks \in Nat /\ Asks = 1 .. MaxAsks
  <2>1. Len(asked) \in Nat /\ Len(asked) <= MaxAsks /\ MaxAsks \in Nat /\ Asks = 1 .. MaxAsks
    BY AppServerAssumption DEF Typed, Asks
  <2>2. CASE AskApproval
    <3>1. Len(asked') = Len(asked) + 1 /\ Len(asked') <= MaxAsks
      BY <2>2, AskedIs
    <3> QED
      BY <2>1, <3>1
  <2>3. CASE UNCHANGED asked
    BY <2>1, <2>3
  <2> QED
    BY <2>2, <2>3, AskedStep
<1>01. /\ OnceIn(events, <<"ask", n, "">>) /\ OnceIn(ops, <<"decision", n>>)
       /\ Pending(n) => n \in 1 .. Len(asked) /\ answer[n] = "none"
       /\ Sent(n) => n \in 1 .. Len(asked) /\ answer[n] = "submitted" /\ given[n] # "none"
       /\ n \in Asks /\ n > Len(asked) => answer[n] = "none"
       /\ n \in Asks /\ answer[n] \in {"got", "told"} => given[n] # "none"
  BY DEF AnswerInv, AnswerOf
<1>02. /\ n \in 1 .. Len(asked) => n \in Asks /\ n \in 1 .. Len(asked')
       /\ n \in Asks /\ n > Len(asked') => n > Len(asked)
       /\ n \in Asks /\ ~(n > Len(asked)) => n \in 1 .. Len(asked) /\ n \in 1 .. Len(asked')
       /\ n \in 1 .. Len(asked) => ~(n > Len(asked))
       /\ n = Len(asked) + 1 => n > Len(asked) /\ ~(n \in 1 .. Len(asked))
  BY <1>0
<1>03. AskApproval /\ n = Len(asked) + 1 => n \in 1 .. Len(asked') /\ n \in Asks
  BY <1>0, AskedIs
<1>1. n \in Asks =>
        \/ answer'[n] = answer[n] /\ given'[n] = given[n]
        \/ answer[n] = "none" /\ n \in 1 .. Len(asked) /\ ~Pending(n)' /\ answer'[n] = "waiting" /\ given'[n] = given[n]
        \/ answer[n] = "waiting" /\ answer'[n] = "got" /\ given'[n] # "none"
        \/ answer[n] = "got" /\ answer'[n] = "told" /\ given'[n] = given[n]
        \/ Resolve(n) /\ answer'[n] = "submitted" /\ given'[n] = given[n]
  <2> HAVE n \in Asks
  <2>1. HearAsk /\ Event[2] = n => answer[n] = "none" /\ n \in 1 .. Len(asked) /\ ~Pending(n)'
    BY <1>01, Announced
  <2> QED
    BY <2>1, AnswerStep
<1>2. /\ OnceIn(events, <<"ask", n, "">>)'
      /\ Pending(n)' => Pending(n) \/ (AskApproval /\ n = Len(asked) + 1)
  <2>1. CASE Quiet(events, events', <<"ask", n, "">>)
    BY <1>01, <2>1 DEF Quiet, Pending
  <2>2. CASE AskApproval /\ n = Len(asked) + 1
    <3> DEFINE e == <<"ask", n, "">>
    <3>1. events' = Append(events, e) /\ e \in Events /\ events \in Seq(Events)
      BY <2>2, AskedIs DEF AskApproval, Emit, Events, Typed
    <3>2. ~Occurs(events, e) /\ OnceIn(events, e)
      BY <1>02, <1>03, <1>01, <2>2 DEF Pending
    <3> HIDE DEF e
    <3>3. OnceIn(events', e)
      BY <3>1, <3>2, Queued
    <3> QED
      BY <2>2, <3>3 DEF e
  <2> QED
    BY <2>1, <2>2, PendingStep
<1>3. Pending(n)' => n \in 1 .. Len(asked') /\ answer'[n] = "none"
  <2> HAVE Pending(n)'
  <2>1. CASE Pending(n)
    <3>1. n \in Asks /\ n \in 1 .. Len(asked') /\ answer[n] = "none"
      BY <1>02, <1>03, <1>01, <2>1
    <3> QED
      BY <1>1, <3>1 DEF Resolve
  <2>2. CASE AskApproval /\ n = Len(asked) + 1
    <3>1. n \in Asks /\ n \in 1 .. Len(asked') /\ answer[n] = "none"
      BY <1>02, <1>03, <1>01, <2>2
    <3> QED
      BY <1>1, <3>1 DEF Resolve
  <2> QED
    BY <1>2, <2>1, <2>2
<1>4. /\ OnceIn(ops, <<"decision", n>>)'
      /\ Sent(n)' => Sent(n) \/ (n \in Asks /\ Resolve(n))
  <2>1. CASE Quiet(ops, ops', <<"decision", n>>)
    BY <1>01, <2>1 DEF Quiet, Sent
  <2>2. CASE n \in Asks /\ Resolve(n)
    <3> DEFINE e == <<"decision", n>>
    <3>1. ops' = Append(ops, e) /\ e \in Operations /\ ops \in Seq(Operations)
      BY <2>2 DEF Resolve, Submit, Operations, Typed
    <3>2. ~Occurs(ops, e) /\ OnceIn(ops, e)
      BY <1>01, <2>2 DEF Sent, Resolve
    <3> HIDE DEF e
    <3>3. OnceIn(ops', e)
      BY <3>1, <3>2, Queued
    <3> QED
      BY <2>2, <3>3 DEF e
  <2> QED
    BY <2>1, <2>2, SentStep
<1>5. Sent(n)' => n \in 1 .. Len(asked') /\ answer'[n] = "submitted" /\ given'[n] # "none"
  <2> HAVE Sent(n)'
  <2>1. CASE Sent(n)
    <3>1. n \in Asks /\ n \in 1 .. Len(asked') /\ answer[n] = "submitted" /\ given[n] # "none"
      BY <1>02, <1>03, <1>01, <2>1
    <3> QED
      BY <1>1, <3>1 DEF Resolve
  <2>2. CASE n \in Asks /\ Resolve(n)
    <3>1. answer[n] \in {"got", "told"} /\ answer'[n] = "submitted" /\ given' = given
      BY <2>2 DEF Resolve, Typed, client
    <3>2. ~(n > Len(asked))
      BY <1>01, <2>2, <3>1
    <3> QED
      BY <1>01, <1>02, <2>2, <3>1, <3>2
  <2> QED
    BY <1>4, <2>1, <2>2
<1>6. n \in Asks /\ n > Len(asked') => answer'[n] = "none"
  <2> HAVE n \in Asks /\ n > Len(asked')
  <2>1. n > Len(asked) /\ answer[n] = "none"
    BY <1>02, <1>01
  <2> QED
    BY <1>02, <1>1, <2>1 DEF Resolve
<1>7. n \in Asks /\ answer'[n] \in {"got", "told"} => given'[n] # "none"
  BY <1>01, <1>1 DEF Resolve
<1> QED
  BY <1>2, <1>3, <1>4, <1>5, <1>6, <1>7 DEF AnswerOf

\* What is settled stays settled.
LEMMA SettledStays ==
  ASSUME Typed, AnswerInv, [Next]_vars, NEW n \in 1 .. Len(asked), Settled(n)
  PROVE  Settled(n)'
<1>0. n \in Nat /\ n \in Asks /\ n # Len(asked) + 1
  BY AppServerAssumption DEF Typed, Asks
<1>1. answer[n] = "submitted" /\ ~Sent(n) /\ ~Pending(n)
  BY DEF Settled
<1>2. ~Resolve(n)
  BY <1>1 DEF Resolve
<1>3. ~(HearAsk /\ Event[2] = n)
  BY <1>0, <1>1, Announced
<1>4. answer'[n] = "submitted"
  BY <1>0, <1>1, <1>2, <1>3, AnswerStep
<1>5. ~Sent(n)'
  <2>1. Quiet(ops, ops', <<"decision", n>>)
    BY <1>0, <1>2, SentStep
  <2> QED
    BY <1>1, <2>1 DEF Quiet, Sent
<1>6. ~Pending(n)'
  <2>1. Quiet(events, events', <<"ask", n, "">>)
    BY <1>0, PendingStep
  <2> QED
    BY <1>1, <2>1 DEF Quiet, Pending
<1> QED
  BY <1>4, <1>5, <1>6 DEF Settled

\* A decision that is served for the running turn is the one its call waits for.
LEMMA ServedIsAwaited ==
  ASSUME Typed, AnswerInv, SettledInv, ServeDecision, asked[Op[2]].turn = active
  PROVE  /\ Op[2] = call.waits /\ call.waits \in 1 .. Len(asked) /\ call.waits \in Asks
         /\ Sent(call.waits)
         /\ answer[call.waits] = "submitted" /\ given[call.waits] # "none" /\ ~Pending(call.waits)
<1>1. PICK n \in Nat : Op[2] = n /\ Sent(n) /\ ~Sent(n)'
  BY Decided
<1>2. n \in 1 .. Len(asked) /\ answer[n] = "submitted" /\ given[n] # "none" /\ ~Pending(n)
  BY <1>1 DEF AnswerInv, AnswerOf
<1>3. n = call.waits
  BY <1>1, <1>2 DEF SettledInv, Settled
<1>4. n \in Asks
  BY <1>2, AppServerAssumption DEF Typed, Asks
<1> QED
  BY <1>1, <1>2, <1>3, <1>4

LEMMA SettledInvStep ==
  ASSUME Typed, TurnInv, TurnInv', CallInv, AnswerInv, SettledInv, [Next]_vars
  PROVE  SettledInv'
<1> SUFFICES ASSUME NEW n \in 1 .. Len(asked'), asked'[n].turn = active', n # call'.waits
             PROVE  Settled(n)'
  BY DEF SettledInv
<1>0. active' # 0
  <2>1. asked'[n].turn \in Turns
    BY DEF TurnInv
  <2> QED
    BY <2>1, AppServerAssumption DEF Turns
<1>1. ASSUME n \in 1 .. Len(asked), asked[n].turn = active, n # call.waits PROVE Settled(n)'
  BY <1>1, SettledStays DEF SettledInv
<1>2. ASSUME UNCHANGED <<active, asked>>, call'.waits = call.waits PROVE Settled(n)'
  BY <1>1, <1>2
<1>3. ASSUME NEW es, StopTurn(es), UNCHANGED asked PROVE Settled(n)'
  BY <1>0, <1>2, <1>3 DEF StopTurn, Ends
<1>4. CASE ServeInput
  <2>1. /\ ops # <<>> /\ ops \in Seq(Operations) /\ Op[1] = "input" /\ Op = Head(ops)
        /\ UNCHANGED <<asked, call>>
    BY <1>4 DEF ServeInput, Served, Typed, Op
  <2>2. Op \in Operations /\ Occurs(ops, Op)
    BY <2>1, Dequeued
  <2>3. PICK t \in Nat : Op = <<"input", t>>
    BY <2>1, <2>2 DEF Operations
  <2>4. fate[t] = "none"
    BY <2>2, <2>3 DEF TurnInv, Due
  <2>5. active' # t
    BY <2>1, <2>4 DEF TurnInv
  <2>6. active' = active
    BY <1>4, <2>3, <2>5 DEF ServeInput
  <2> QED
    BY <1>2, <2>1, <2>6
<1>5. CASE ServeInterrupt \/ ServeShutdown
  BY <1>3, <1>5 DEF ServeInterrupt, ServeShutdown
<1>6. CASE ServeDecision
  <2>1. CASE StopTurn(<<>>)
    BY <1>3, <1>6, <2>1 DEF ServeDecision
  <2>2. CASE UNCHANGED <<active, call>>
    BY <1>2, <1>6, <2>2 DEF ServeDecision
  <2>3. CASE asked[Op[2]].turn = active /\ UNCHANGED active
    <3>1. UNCHANGED <<asked, answer>>
      BY <1>6 DEF ServeDecision
    <3>2. CASE n = call.waits
      <4>1. n \in Nat /\ n \in 1 .. Len(asked)
        BY <1>6, <2>3, <3>2, ServedIsAwaited
      <4>2. Quiet(events, events', <<"ask", n, "">>)
        <5>1. ~AskApproval
          <6>1. Len(asked') = Len(asked) /\ Len(asked) \in Nat
            BY <1>6 DEF ServeDecision, Typed
          <6> QED
            BY <6>1, AskedIs
        <5> QED
          BY <4>1, <5>1, PendingStep
      <4>3. ~Pending(n)'
        BY <1>6, <2>3, <3>2, <4>2, ServedIsAwaited DEF Quiet, Pending
      <4>4. answer'[n] = "submitted"
        BY <1>6, <2>3, <3>1, <3>2, ServedIsAwaited
      <4>5. ~Sent(n)'
        <5>1. Op[2] = n
          BY <1>6, <2>3, <3>2, ServedIsAwaited
        <5>2. PICK m \in Nat : Op[2] = m /\ ~Sent(m)'
          BY <1>6, Decided
        <5> QED
          BY <5>1, <5>2
      <4> QED
        BY <4>3, <4>4, <4>5 DEF Settled
    <3> QED
      BY <1>1, <2>3, <3>1, <3>2
  <2> QED
    BY <1>6, <2>1, <2>2, <2>3 DEF ServeDecision
<1>7. ASSUME NEW kind \in {"command", "change"}, CallStarts(kind) PROVE Settled(n)'
  BY <1>2, <1>7 DEF CallStarts, NoCall
<1>8. CASE AskApproval
  <2>1. call'.waits = Len(asked) + 1 /\ call.waits = 0 /\ active' = active
    BY <1>8, AskedIs DEF AskApproval, Typed
  <2>2. n \in 1 .. Len(asked)
    BY <1>8, <2>1, AskedIs
  <2>3. asked'[n] = asked[n] /\ n # call.waits
    BY <1>8, <2>1, <2>2, AskedIs
  <2> QED
    BY <1>1, <2>1, <2>2, <2>3
<1>9. CASE PatchBegins
  <2>1. call'.waits = call.waits
    BY <1>9 DEF PatchBegins, Typed
  <2> QED
    BY <1>2, <1>9, <2>1 DEF PatchBegins
<1>10. CASE CallEnds
  BY <1>2, <1>10 DEF CallEnds, NoCall
<1>11. CASE TurnCompletes
  BY <1>0, <1>11 DEF TurnCompletes, Ends
<1> QED
  BY <1>2, <1>4, <1>5, <1>6, <1>7, <1>8, <1>9, <1>10, <1>11
     DEF Next, SessionStep, Serve, TurnErrs, ProcessorStep, session, vars, TurnStart, TurnStarted,
         TurnInterrupt, InterruptSent, Archive, Answer, ArchiveReturns, ArchiveReads, Listen,
         HearBegin, HearAsk, HearEnd, HearError, HearComplete, HearAborted, HearShutdown,
         TellDeclined, Resolve

-----------------------------------------------------------------------------
(* The theorem                                                              *)

IInv == Typed /\ TurnInv /\ CallInv /\ AnswerInv /\ SettledInv

LEMMA IInvInit == Init => IInv
<1> SUFFICES ASSUME Init PROVE IInv
  OBVIOUS
<1>1. Typed
  BY TypedInit
<1>2. ops = <<>> /\ events = <<>> /\ asked = <<>> /\ active = 0 /\ call = NoCall
  BY DEF Init
<1>3. 1 .. Len(<<>>) = {}
  OBVIOUS
<1>4. \A e : ~Occurs(ops, e) /\ ~Occurs(events, e) /\ OnceIn(ops, e) /\ OnceIn(events, e)
  BY <1>2, <1>3 DEF Occurs, OnceIn
<1>5. \A n \in 1 .. Len(asked) : FALSE
  BY <1>2, <1>3
<1>6. TurnInv
  BY <1>2, <1>4, <1>5 DEF Init, TurnInv, Due
<1>7. CallInv
  BY <1>2 DEF CallInv, NoCall
<1>8. AnswerInv
  BY <1>4 DEF Init, AnswerInv, AnswerOf, Pending, Sent
<1>9. SettledInv
  BY <1>5 DEF SettledInv
<1> QED
  BY <1>1, <1>6, <1>7, <1>8, <1>9 DEF IInv

LEMMA IInvStep == IInv /\ [Next]_vars => IInv'
<1> SUFFICES ASSUME IInv, [Next]_vars PROVE IInv'
  OBVIOUS
<1>1. Typed /\ TurnInv /\ CallInv /\ AnswerInv /\ SettledInv
  BY DEF IInv
<1>2. Typed'
  BY <1>1, TypedStep
<1>3. TurnInv'
  BY <1>1, <1>2, TurnInvStep
<1>4. CallInv'
  BY <1>1, <1>2, CallInvStep
<1>5. AnswerInv'
  BY <1>1, <1>2, AnswerInvStep
<1>6. SettledInv'
  BY <1>1, <1>3, SettledInvStep
<1> QED
  BY <1>2, <1>3, <1>4, <1>5, <1>6 DEF IInv

\* What a step makes of the call that waits.
Decision == call.waits # 0 /\ call'.waits # call.waits /\ active' = active
              => given[call.waits] = IF call'.id = call.id THEN "accept" ELSE "decline"

LEMMA DecisionStep == IInv /\ [Next]_vars => Decision
<1> SUFFICES ASSUME IInv, [Next]_vars, call.waits # 0, call'.waits # call.waits, active' = active
             PROVE  given[call.waits] = IF call'.id = call.id THEN "accept" ELSE "decline"
  BY DEF Decision
<1>1. Typed /\ CallInv /\ AnswerInv /\ SettledInv
  BY DEF IInv
<1>2. NoCall.waits = 0 /\ NoCall.id = 0 /\ call # NoCall
  BY DEF NoCall
<1>3. call.id # 0 /\ active # 0
  BY <1>1, <1>2 DEF CallInv
<1>4. ASSUME NEW es, StopTurn(es) PROVE FALSE
  BY <1>3, <1>4 DEF StopTurn, Ends
<1>5. ServeDecision
  <2>1. ~ServeInterrupt /\ ~ServeShutdown
    BY <1>4 DEF ServeInterrupt, ServeShutdown
  <2>2. ASSUME NEW kind \in {"command", "change"} PROVE ~CallStarts(kind)
    BY <1>2 DEF CallStarts
  <2>3. ~AskApproval /\ ~PatchBegins /\ ~CallEnds /\ ~TurnCompletes
    BY <1>2 DEF AskApproval, PatchBegins, CallEnds, TurnCompletes
  <2> QED
    BY <2>1, <2>2, <2>3
       DEF Next, SessionStep, Serve, ServeInput, TurnErrs, ProcessorStep, session, vars, TurnStart,
           TurnStarted, TurnInterrupt, InterruptSent, Archive, Answer, ArchiveReturns,
           ArchiveReads, Listen, HearBegin, HearAsk, HearEnd, HearError, HearComplete,
           HearAborted, HearShutdown, TellDeclined, Resolve
<1>6. /\ given[Op[2]] # "cancel" /\ asked[Op[2]].turn = active
      /\ Decide(given[Op[2]] = "accept")
  BY <1>4, <1>5 DEF ServeDecision
<1>7. Op[2] = call.waits /\ call.waits \in Asks /\ given[call.waits] # "none"
  BY <1>1, <1>5, <1>6, ServedIsAwaited
<1>8. given[call.waits] \in {"accept", "decline"}
  BY <1>1, <1>6, <1>7 DEF Typed, Decisions
<1>9. CASE given[call.waits] = "accept"
  <2>1. call' = [call EXCEPT !.waits = 0]
    BY <1>6, <1>7, <1>9 DEF Decide
  <2>2. call'.id = call.id
    BY <1>1, <2>1 DEF Typed
  <2> QED
    BY <1>9, <2>2
<1>10. CASE given[call.waits] = "decline"
  <2>1. call' = NoCall
    BY <1>6, <1>7, <1>10 DEF Decide
  <2> QED
    BY <1>2, <1>3, <1>10, <2>1
<1> QED
  BY <1>8, <1>9, <1>10

\* A call goes on, or ends while its turn goes on, only by the answer the client
\* has given to that very approval, for any number of turns, calls, approvals and
\* interrupts.
THEOREM DecidedBy == Spec => DecidedByItsAnswer
<1>1. IInv /\ [Next]_vars => [Decision]_vars
  BY DecisionStep
<1> QED
  BY <1>1, IInvInit, IInvStep, PTL DEF Spec, DecidedByItsAnswer, Decision
-----------------------------------------------------------------------------
(* What a turn is told of its end                                           *)

Ending(e) == e[1] \in {"complete", "aborted"}

\* H are the places of the queue after which the summary says that a turn has
\* failed: an error sets it, the end of a turn clears it. A turn completes with
\* the summary that is its own.
Flags(q, H, ft) ==
  /\ H \in SUBSET (0 .. Len(q))
  /\ \A i \in 1 .. Len(q) :
       /\ i \in H <=> q[i][1] = "error" \/ (~Ending(q[i]) /\ i - 1 \in H)
       /\ q[i][1] = "complete" => (i - 1 \in H <=> ft[q[i][2]] = "failed")

\* The ends of turns in the queue are those of turns that have ended so, once each.
TrueEnds(q, ft) ==
  /\ \A i \in 1 .. Len(q) :
       /\ q[i][1] = "complete" => q[i][2] \in Turns /\ ft[q[i][2]] \in {"completed", "failed"}
       /\ q[i][1] = "aborted" => q[i][2] \in Turns /\ ft[q[i][2]] = "interrupted"
  /\ \A i, j \in 1 .. Len(q) : Ending(q[i]) /\ Ending(q[j]) /\ q[i][2] = q[j][2] => i = j

Underway(q, t) == \E i \in 1 .. Len(q) : Ending(q[i]) /\ q[i][2] = t

LEMMA QueueAppend ==
  ASSUME NEW S, NEW q \in Seq(S), NEW x \in S
  PROVE  /\ Append(q, x) \in Seq(S) /\ Len(q) \in Nat /\ Len(Append(q, x)) = Len(q) + 1
         /\ Append(q, x)[Len(q) + 1] = x /\ Len(q) + 1 \in 1 .. Len(q) + 1
         /\ \A i \in 1 .. Len(q) : Append(q, x)[i] = q[i] /\ i \in 1 .. Len(q) + 1 /\ i # Len(q) + 1
         /\ \A i \in 1 .. Len(q) + 1 : i \in 1 .. Len(q) \/ i = Len(q) + 1
OBVIOUS

LEMMA QueueTail ==
  ASSUME NEW S, NEW q \in Seq(S), q # <<>>
  PROVE  /\ Tail(q) \in Seq(S) /\ Head(q) \in S /\ Head(q) = q[1] /\ 1 \in 1 .. Len(q)
         /\ Len(q) \in Nat /\ Len(q) >= 1 /\ Len(Tail(q)) = Len(q) - 1
         /\ \A i \in 1 .. Len(q) - 1 : /\ Tail(q)[i] = q[i + 1] /\ i + 1 \in 1 .. Len(q)
                                       /\ i + 1 # 1
         /\ \A i \in 1 .. Len(q) : i = 1 \/ i - 1 \in 1 .. Len(q) - 1
OBVIOUS

LEMMA FlagsAppend ==
  ASSUME NEW S, NEW q \in Seq(S), NEW x \in S, NEW H, NEW ft, Flags(q, H, ft),
         x[1] = "complete" => (Len(q) \in H <=> ft[x[2]] = "failed")
  PROVE  \E K : /\ Flags(Append(q, x), K, ft) /\ (0 \in K <=> 0 \in H)
                /\ Len(Append(q, x)) \in K <=> x[1] = "error" \/ (~Ending(x) /\ Len(q) \in H)
<1> DEFINE n == Len(q) + 1
           K == IF x[1] = "error" \/ (~Ending(x) /\ Len(q) \in H) THEN H \union {n} ELSE H
<1>1. /\ Len(Append(q, x)) = n /\ Append(q, x)[n] = x /\ n \in 1 .. n /\ Len(q) \in Nat
      /\ \A i \in 1 .. Len(q) : Append(q, x)[i] = q[i]
      /\ \A i \in 1 .. n : i \in 1 .. Len(q) \/ i = n
  BY QueueAppend
<1>2. /\ \A i \in 0 .. Len(q) : i # n /\ i \in 0 .. n
      /\ n \in 0 .. n /\ n - 1 = Len(q) /\ 0 # n
      /\ \A i \in 1 .. Len(q) : i - 1 # n /\ i # n
  BY <1>1
<1> HIDE DEF n
<1>3. H \in SUBSET (0 .. Len(q))
  BY DEF Flags
<1>4. /\ K \in SUBSET (0 .. n)
      /\ \A i : i # n => (i \in K <=> i \in H)
      /\ n \in K <=> x[1] = "error" \/ (~Ending(x) /\ Len(q) \in H)
  BY <1>2, <1>3
<1> HIDE DEF K
<1>5. ASSUME NEW i \in 1 .. Len(q)
      PROVE  /\ i \in K <=> q[i][1] = "error" \/ (~Ending(q[i]) /\ i - 1 \in K)
             /\ q[i][1] = "complete" => (i - 1 \in K <=> ft[q[i][2]] = "failed")
  <2>1. (i \in K <=> i \in H) /\ (i - 1 \in K <=> i - 1 \in H)
    BY <1>2, <1>4
  <2> QED
    BY <2>1 DEF Flags
<1>6. /\ n \in K <=> x[1] = "error" \/ (~Ending(x) /\ n - 1 \in K)
      /\ x[1] = "complete" => (n - 1 \in K <=> ft[x[2]] = "failed")
  <2>1. Len(q) # n
    BY <1>1, <1>2
  <2> QED
    BY <1>2, <1>4, <2>1
<1>7. Flags(Append(q, x), K, ft)
  BY <1>1, <1>4, <1>5, <1>6 DEF Flags
<1> QED
  BY <1>1, <1>2, <1>4, <1>7

LEMMA FlagsTail ==
  ASSUME NEW S, NEW q \in Seq(S), q # <<>>, NEW H, NEW ft, Flags(q, H, ft)
  PROVE  /\ Head(q)[1] = "complete" => (0 \in H <=> ft[Head(q)[2]] = "failed")
         /\ \E K : /\ Flags(Tail(q), K, ft) /\ (Len(Tail(q)) \in K <=> Len(q) \in H)
                   /\ 0 \in K <=> Head(q)[1] = "error" \/ (~Ending(Head(q)) /\ 0 \in H)
<1> DEFINE n == Len(q) - 1
           K == {i \in 0 .. n : i + 1 \in H}
<1>1. /\ Len(Tail(q)) = n /\ Len(q) \in Nat /\ Len(q) >= 1 /\ Head(q) = q[1] /\ 1 \in 1 .. Len(q)
      /\ \A i \in 1 .. n : Tail(q)[i] = q[i + 1] /\ i + 1 \in 1 .. Len(q)
  BY QueueTail
<1>2. /\ 0 \in 0 .. n /\ 0 + 1 = 1 /\ 1 - 1 = 0 /\ n \in 0 .. n /\ n + 1 = Len(q)
      /\ \A i \in 1 .. n : /\ i \in 0 .. n /\ i - 1 \in 0 .. n /\ (i - 1) + 1 = i
                           /\ (i + 1) - 1 = i
  BY <1>1
<1> HIDE DEF n
<1>3. \A i \in 0 .. n : i \in K <=> i + 1 \in H
  OBVIOUS
<1>4. K \in SUBSET (0 .. n)
  OBVIOUS
<1> HIDE DEF K
<1>5. ASSUME NEW i \in 1 .. n
      PROVE  /\ i \in K <=> Tail(q)[i][1] = "error" \/ (~Ending(Tail(q)[i]) /\ i - 1 \in K)
             /\ Tail(q)[i][1] = "complete" => (i - 1 \in K <=> ft[Tail(q)[i][2]] = "failed")
  <2>1. /\ i \in K <=> i + 1 \in H
        /\ i - 1 \in K <=> (i + 1) - 1 \in H
    BY <1>2, <1>3
  <2>2. Tail(q)[i] = q[i + 1] /\ i + 1 \in 1 .. Len(q)
    BY <1>1
  <2> QED
    BY <2>1, <2>2 DEF Flags
<1>6. Flags(Tail(q), K, ft)
  BY <1>1, <1>4, <1>5 DEF Flags
<1>7. /\ Head(q)[1] = "complete" => (0 \in H <=> ft[Head(q)[2]] = "failed")
      /\ 1 \in H <=> Head(q)[1] = "error" \/ (~Ending(Head(q)) /\ 0 \in H)
  BY <1>1, <1>2 DEF Flags
<1> QED
  BY <1>1, <1>2, <1>3, <1>6, <1>7

\* A turn that has not ended may come to an end.
LEMMA FateChanges ==
  ASSUME NEW q, NEW H, NEW R, NEW ft \in [Turns -> R], NEW t, NEW how,
         ft[t] \notin Final, Flags(q, H, ft), TrueEnds(q, ft)
  PROVE  Flags(q, H, [ft EXCEPT ![t] = how]) /\ TrueEnds(q, [ft EXCEPT ![t] = how])
<1> DEFINE g == [ft EXCEPT ![t] = how]
<1>1. \A i \in 1 .. Len(q) : Ending(q[i]) => q[i][2] \in Turns /\ ft[q[i][2]] \in Final /\ q[i][2] # t
  BY DEF TrueEnds, Ending, Final
<1>2. \A u \in Turns : u # t => g[u] = ft[u]
  OBVIOUS
<1> HIDE DEF g
<1>3. \A i \in 1 .. Len(q) : Ending(q[i]) => g[q[i][2]] = ft[q[i][2]]
  BY <1>1, <1>2
<1>4. Flags(q, H, g)
  BY <1>3 DEF Flags, Ending
<1>5. TrueEnds(q, g)
  BY <1>3 DEF TrueEnds, Ending
<1> QED
  BY <1>4, <1>5 DEF g

LEMMA EndsAppend ==
  ASSUME NEW S, NEW q \in Seq(S), NEW x \in S, NEW ft, TrueEnds(q, ft),
         x[1] = "complete" => x[2] \in Turns /\ ft[x[2]] \in {"completed", "failed"},
         x[1] = "aborted" => x[2] \in Turns /\ ft[x[2]] = "interrupted",
         Ending(x) => ~Underway(q, x[2])
  PROVE  /\ TrueEnds(Append(q, x), ft)
         /\ \A t : Underway(Append(q, x), t) <=> Underway(q, t) \/ (Ending(x) /\ x[2] = t)
<1>1. /\ Len(Append(q, x)) = Len(q) + 1 /\ Append(q, x)[Len(q) + 1] = x
      /\ Len(q) + 1 \in 1 .. Len(q) + 1
      /\ \A i \in 1 .. Len(q) : Append(q, x)[i] = q[i] /\ i \in 1 .. Len(q) + 1 /\ i # Len(q) + 1
      /\ \A i \in 1 .. Len(q) + 1 : i \in 1 .. Len(q) \/ i = Len(q) + 1
  BY QueueAppend
<1>2. TrueEnds(Append(q, x), ft)
  <2>1. ASSUME NEW i \in 1 .. Len(q) + 1
        PROVE  LET e == Append(q, x)[i]
               IN  /\ e[1] = "complete" => e[2] \in Turns /\ ft[e[2]] \in {"completed", "failed"}
                   /\ e[1] = "aborted" => e[2] \in Turns /\ ft[e[2]] = "interrupted"
    BY <1>1 DEF TrueEnds
  <2>2. ASSUME NEW i \in 1 .. Len(q) + 1, NEW j \in 1 .. Len(q) + 1,
               Ending(Append(q, x)[i]), Ending(Append(q, x)[j]), Append(q, x)[i][2] = Append(q, x)[j][2]
        PROVE  i = j
    BY <1>1, <2>2 DEF TrueEnds, Underway
  <2> QED
    BY <1>1, <2>1, <2>2 DEF TrueEnds
<1>3. \A t : Underway(Append(q, x), t) <=> Underway(q, t) \/ (Ending(x) /\ x[2] = t)
  BY <1>1 DEF Underway
<1> QED
  BY <1>2, <1>3

LEMMA EndsTail ==
  ASSUME NEW S, NEW q \in Seq(S), q # <<>>, NEW ft, TrueEnds(q, ft)
  PROVE  /\ TrueEnds(Tail(q), ft)
         /\ \A t : Underway(Tail(q), t) <=> Underway(q, t) /\ ~(Ending(Head(q)) /\ Head(q)[2] = t)
         /\ Head(q)[1] = "complete" => Head(q)[2] \in Turns /\ ft[Head(q)[2]] \in {"completed", "failed"}
         /\ Head(q)[1] = "aborted" => Head(q)[2] \in Turns /\ ft[Head(q)[2]] = "interrupted"
         /\ Ending(Head(q)) => Underway(q, Head(q)[2])
<1> DEFINE n == Len(q) - 1
<1>1. /\ Len(Tail(q)) = n /\ Len(q) \in Nat /\ Head(q) = q[1] /\ 1 \in 1 .. Len(q)
      /\ \A i \in 1 .. n : Tail(q)[i] = q[i + 1] /\ i + 1 \in 1 .. Len(q) /\ i + 1 # 1
      /\ \A i \in 1 .. Len(q) : i = 1 \/ i - 1 \in 1 .. n
  BY QueueTail
<1>2. /\ \A i \in 1 .. Len(q) : (i - 1) + 1 = i
      /\ \A i, j \in 1 .. n : i + 1 = j + 1 => i = j
  BY <1>1
<1> HIDE DEF n
<1>3. TrueEnds(Tail(q), ft)
  <2>1. ASSUME NEW i \in 1 .. n
        PROVE  LET e == Tail(q)[i]
               IN  /\ e[1] = "complete" => e[2] \in Turns /\ ft[e[2]] \in {"completed", "failed"}
                   /\ e[1] = "aborted" => e[2] \in Turns /\ ft[e[2]] = "interrupted"
    BY <1>1 DEF TrueEnds
  <2>2. ASSUME NEW i \in 1 .. n, NEW j \in 1 .. n,
               Ending(Tail(q)[i]), Ending(Tail(q)[j]), Tail(q)[i][2] = Tail(q)[j][2]
        PROVE  i = j
    BY <1>1, <1>2, <2>2 DEF TrueEnds
  <2> QED
    BY <1>1, <2>1, <2>2 DEF TrueEnds
<1>4. ASSUME NEW t
      PROVE  Underway(Tail(q), t) <=> Underway(q, t) /\ ~(Ending(Head(q)) /\ Head(q)[2] = t)
  <2>1. ASSUME Underway(Tail(q), t)
        PROVE  Underway(q, t) /\ ~(Ending(Head(q)) /\ Head(q)[2] = t)
    <3>1. PICK i \in 1 .. n : Ending(Tail(q)[i]) /\ Tail(q)[i][2] = t
      BY <1>1, <2>1 DEF Underway
    <3>2. Ending(q[i + 1]) /\ q[i + 1][2] = t /\ i + 1 \in 1 .. Len(q) /\ i + 1 # 1
      BY <1>1, <3>1
    <3> QED
      BY <1>1, <3>2 DEF Underway, TrueEnds
  <2>2. ASSUME Underway(q, t), ~(Ending(Head(q)) /\ Head(q)[2] = t)
        PROVE  Underway(Tail(q), t)
    <3>1. PICK i \in 1 .. Len(q) : Ending(q[i]) /\ q[i][2] = t
      BY <2>2 DEF Underway
    <3>2. i - 1 \in 1 .. n /\ Tail(q)[i - 1] = q[i]
      BY <1>1, <1>2, <2>2, <3>1
    <3> QED
      BY <1>1, <3>1, <3>2 DEF Underway
  <2> QED
    BY <2>1, <2>2
<1>5. /\ Head(q)[1] = "complete" => Head(q)[2] \in Turns /\ ft[Head(q)[2]] \in {"completed", "failed"}
      /\ Head(q)[1] = "aborted" => Head(q)[2] \in Turns /\ ft[Head(q)[2]] = "interrupted"
      /\ Ending(Head(q)) => Underway(q, Head(q)[2])
  BY <1>1 DEF TrueEnds, Underway
<1> QED
  BY <1>3, <1>4, <1>5

\* The places at which a turn is told of its end.
EndsOf(s) == {i \in 1 .. Len(s) : s[i] # "started"}

LEMMA EndsOfAppend ==
  ASSUME NEW S, NEW s \in Seq(S), NEW x \in S
  PROVE  /\ Append(s, x) \in Seq(S) /\ Append(s, x)[Len(s) + 1] = x
         /\ EndsOf(Append(s, x)) = IF x = "started" THEN EndsOf(s) ELSE EndsOf(s) \union {Len(s) + 1}
         /\ \A i \in EndsOf(s) : Append(s, x)[i] = s[i]
<1>1. /\ Append(s, x) \in Seq(S)
      /\ Len(Append(s, x)) = Len(s) + 1 /\ Append(s, x)[Len(s) + 1] = x
      /\ Len(s) + 1 \in 1 .. Len(s) + 1
      /\ \A i \in 1 .. Len(s) : Append(s, x)[i] = s[i] /\ i \in 1 .. Len(s) + 1 /\ i # Len(s) + 1
      /\ \A i \in 1 .. Len(s) + 1 : i \in 1 .. Len(s) \/ i = Len(s) + 1
  BY QueueAppend
<1> QED
  BY <1>1 DEF EndsOf

\* What turn/completed has told of a turn that has this fate.
TellsEnd(s, how, over) ==
  IF over THEN \E i \in EndsOf(s) : EndsOf(s) = {i} /\ s[i] = how ELSE EndsOf(s) = {}

Notices == Seq({"started"} \union Final)

SummaryTyped ==
  /\ toldTurn \in [Turns -> Notices]
  /\ erred \in BOOLEAN /\ failed \in BOOLEAN /\ (watching => archived)

\* Of a queue of events, what has become of the turns, what has been told of them, and
\* the summary at either end of the queue.
Status(q, ft, told, before, after) ==
  /\ TrueEnds(q, ft)
  /\ \A t \in Turns : TellsEnd(told[t], ft[t], ft[t] \in Final /\ ~Underway(q, t))
  /\ \E H : Flags(q, H, ft) /\ (0 \in H <=> before) /\ (Len(q) \in H <=> after)

\* Nothing but the listener has taken an event, and the summary it keeps is that of
\* the turn whose end comes next.
StatusInv == ~archived => Status(events, fate, toldTurn, failed, active # 0 /\ erred)

\* A step that leaves the turns alone.
TurnsAlone ==
  /\ UNCHANGED <<active, erred, fate, failed>>
  /\ toldTurn' = toldTurn \/ \E t : toldTurn' = Tell(toldTurn, t, "started")
  /\ \/ UNCHANGED events
     \/ \E x \in Events : x[1] \in {"ask", "begin", "end"} /\ events' = Append(events, x)

TurnStops == /\ StopTurn(<<>>) \/ StopTurn(<<<<"shutdown", 0, "">>>>)
             /\ UNCHANGED <<erred, failed, toldTurn>>

LEMMA AloneEmits ==
  ASSUME NEW what \in {"ask", "begin", "end"}, NEW x \in Nat,
         NEW how \in {"", "command", "change", "ran", "failed"}, what = "ask" => how = "",
         Emit(<<what, x, how>>)
  PROVE  \E e \in Events : e[1] \in {"ask", "begin", "end"} /\ events' = Append(events, e)
<1>1. <<what, x, how>> \in Events /\ <<what, x, how>>[1] = what
  BY DEF Events
<1>2. events' = Append(events, <<what, x, how>>)
  BY DEF Emit
<1> QED
  BY <1>1, <1>2

LEMMA SummarySteps ==
  ASSUME Typed, SummaryTyped, [Next]_vars, ~archived'
  PROVE  /\ ~archived
         /\ TurnsAlone \/ ServeInput \/ TurnStops \/ TurnErrs \/ TurnCompletes \/ Listen
<1>1. archived => archived'
  BY DEF Next, SessionStep, Serve, ServeInput, ServeInterrupt, ServeShutdown, ServeDecision,
         CallStarts, AskApproval, PatchBegins, CallEnds, TurnErrs, TurnCompletes, ProcessorStep,
         vars, TurnStart, TurnStarted, TurnInterrupt, InterruptSent, Archive, Answer,
         ArchiveReturns, ArchiveReads, Listen, HearBegin, HearAsk, HearEnd, HearError,
         HearComplete, HearAborted, HearShutdown, TellDeclined, Resolve
<1>2. ~archived /\ ~watching
  BY <1>1 DEF SummaryTyped
<1>3. call.id \in Nat /\ calls + 1 \in Nat
  BY DEF Typed
<1>4. CASE UNCHANGED <<session, summary, client>>
  <2>1. UNCHANGED session /\ UNCHANGED summary /\ UNCHANGED client
    BY <1>4
  <2>2. UNCHANGED <<events, active, erred, fate>> /\ UNCHANGED failed /\ UNCHANGED toldTurn
    BY <2>1 DEF session, summary, client
  <2>3. toldTurn' = toldTurn \/ \E t : toldTurn' = Tell(toldTurn, t, "started")
    BY <2>2
  <2>4. UNCHANGED <<active, erred, fate, failed>>
    BY <2>2
  <2>5. UNCHANGED events
    BY <2>2
  <2> QED
    BY <1>2, <2>3, <2>4, <2>5 DEF TurnsAlone
<1>5. CASE ServeInterrupt \/ ServeShutdown
  <2>1. StopTurn(<<>>) \/ StopTurn(<<<<"shutdown", 0, "">>>>)
    BY <1>5 DEF ServeInterrupt, ServeShutdown
  <2>2. UNCHANGED erred /\ UNCHANGED summary /\ UNCHANGED client
    BY <1>5 DEF ServeInterrupt, ServeShutdown
  <2>3. UNCHANGED <<erred, failed, toldTurn>>
    BY <2>2 DEF summary, client
  <2> QED
    BY <1>2, <2>1, <2>3 DEF TurnStops
<1>6. CASE ServeDecision
  <2>1. CASE StopTurn(<<>>)
    BY <1>6, <2>1 DEF ServeDecision, TurnStops, summary, client
  <2>2. ASSUME NEW accept, Decide(accept), UNCHANGED <<active, fate>> PROVE TurnsAlone
    <3>1. UNCHANGED events \/ Emit(<<"end", call.id, "failed">>)
      BY <2>2 DEF Decide
    <3>2. UNCHANGED events \/ \E e \in Events : e[1] \in {"ask", "begin", "end"} /\ events' = Append(events, e)
      BY <1>3, <3>1, AloneEmits
    <3> QED
      BY <1>6, <2>2, <3>2 DEF ServeDecision, TurnsAlone, summary, client
  <2>3. CASE UNCHANGED <<events, active, fate>>
    BY <1>6, <2>3 DEF ServeDecision, TurnsAlone, summary, client
  <2> QED
    BY <1>6, <2>1, <2>2, <2>3 DEF ServeDecision
<1>7. ASSUME NEW kind \in {"command", "change"}, CallStarts(kind) PROVE TurnsAlone
  <2>1. UNCHANGED events \/ Emit(<<"begin", calls + 1, "command">>)
    BY <1>7 DEF CallStarts
  <2>2. UNCHANGED events \/ \E e \in Events : e[1] \in {"ask", "begin", "end"} /\ events' = Append(events, e)
    BY <1>3, <2>1, AloneEmits
  <2> QED
    BY <1>7, <2>2 DEF CallStarts, TurnsAlone, summary, client
<1>8. CASE AskApproval
  <2>0. Len(asked') = Len(asked) + 1 /\ Len(asked) \in Nat
    BY <1>8, AskedIs
  <2>01. Len(asked') \in Nat
    BY <2>0
  <2>02. Emit(<<"ask", Len(asked'), "">>)
    BY <1>8 DEF AskApproval
  <2>1. Emit(<<"ask", Len(asked'), "">>) /\ Len(asked') \in Nat
    BY <2>01, <2>02
  <2>2. \E e \in Events : e[1] \in {"ask", "begin", "end"} /\ events' = Append(events, e)
    BY <2>1, AloneEmits
  <2> QED
    BY <1>8, <2>2 DEF AskApproval, TurnsAlone, summary, client
<1>9. CASE PatchBegins \/ CallEnds
  <2>1. Emit(<<"begin", call.id, "change">>) \/ Emit(<<"end", call.id, "ran">>)
    BY <1>9 DEF PatchBegins, CallEnds
  <2>2. \E e \in Events : e[1] \in {"ask", "begin", "end"} /\ events' = Append(events, e)
    BY <1>3, <2>1, AloneEmits
  <2> QED
    BY <1>9, <2>2 DEF PatchBegins, CallEnds, TurnsAlone, summary, client
<1>10. CASE ProcessorStep
  BY <1>10 DEF ProcessorStep, TurnsAlone, session, summary, client, TurnStart, TurnStarted,
               TurnInterrupt, InterruptSent, Archive, ArchiveReturns, Answer
<1>11. ASSUME NEW n \in Asks, TellDeclined(n) \/ Resolve(n) PROVE TurnsAlone
  BY <1>11 DEF TellDeclined, Resolve, TurnsAlone, session, summary, client
<1>12. ~ArchiveReads
  BY <1>2 DEF ArchiveReads
<1> QED
  BY <1>2, <1>4, <1>5, <1>6, <1>7, <1>8, <1>9, <1>10, <1>11, <1>12
     DEF Next, SessionStep, Serve, vars

LEMMA SummaryTypedStep ==
  ASSUME Typed, Typed', SummaryTyped, [Next]_vars
  PROVE  SummaryTyped'
<1>1. \A what \in {"started"} \union Final : \A t :
        toldTurn' = Tell(toldTurn, t, what) => toldTurn' \in [Turns -> Notices]
  <2> SUFFICES ASSUME NEW what \in {"started"} \union Final, NEW t, toldTurn' = Tell(toldTurn, t, what)
               PROVE  toldTurn' \in [Turns -> Notices]
    OBVIOUS
  <2>1. toldTurn \in [Turns -> Notices]
    BY DEF SummaryTyped
  <2>2. ASSUME NEW s \in Notices PROVE Append(s, what) \in Notices
    BY QueueAppend DEF Notices
  <2> QED
    BY <2>1, <2>2 DEF Tell
<1>2. toldTurn' \in [Turns -> Notices]
  <2>1. CASE UNCHANGED toldTurn
    BY <2>1 DEF SummaryTyped
  <2>2. CASE TurnStarted \/ HearComplete \/ HearAborted
    <3>1. \E what \in {"started"} \union Final : \E t : toldTurn' = Tell(toldTurn, t, what)
      BY <2>2 DEF TurnStarted, HearComplete, HearAborted, Final
    <3> QED
      BY <1>1, <3>1
  <2> QED
    BY <2>1, <2>2
       DEF Next, SessionStep, Serve, ServeInput, ServeInterrupt, ServeShutdown, ServeDecision,
           CallStarts, AskApproval, PatchBegins, CallEnds, TurnErrs, TurnCompletes, ProcessorStep,
           client, vars, TurnStart, TurnInterrupt, InterruptSent, Archive, Answer,
           ArchiveReturns, ArchiveReads, Listen, HearBegin, HearAsk, HearEnd, HearError,
           HearShutdown, TellDeclined, Resolve
<1>3. erred' \in BOOLEAN
  BY DEF SummaryTyped, Next, SessionStep, Serve, ServeInput, ServeInterrupt, ServeShutdown, ServeDecision,
         CallStarts, AskApproval, PatchBegins, CallEnds, TurnErrs, TurnCompletes, ProcessorStep,
         session, vars, TurnStart, TurnStarted, TurnInterrupt, InterruptSent, Archive, Answer,
         ArchiveReturns, ArchiveReads, Listen, HearBegin, HearAsk, HearEnd, HearError,
         HearComplete, HearAborted, HearShutdown, TellDeclined, Resolve
<1>4. failed' \in BOOLEAN
  BY DEF SummaryTyped, Next, SessionStep, Serve, ServeInput, ServeInterrupt, ServeShutdown, ServeDecision,
         CallStarts, AskApproval, PatchBegins, CallEnds, TurnErrs, TurnCompletes, ProcessorStep,
         summary, vars, TurnStart, TurnStarted, TurnInterrupt, InterruptSent, Archive, Answer,
         ArchiveReturns, ArchiveReads, Listen, HearBegin, HearAsk, HearEnd, HearError,
         HearComplete, HearAborted, HearShutdown, TellDeclined, Resolve
<1>5. watching' => archived'
  BY DEF SummaryTyped, Next, SessionStep, Serve, ServeInput, ServeInterrupt, ServeShutdown, ServeDecision,
         CallStarts, AskApproval, PatchBegins, CallEnds, TurnErrs, TurnCompletes, ProcessorStep,
         vars, TurnStart, TurnStarted, TurnInterrupt, InterruptSent, Archive, Answer,
         ArchiveReturns, ArchiveReads, Listen, HearBegin, HearAsk, HearEnd, HearError,
         HearComplete, HearAborted, HearShutdown, TellDeclined, Resolve
<1> QED
  BY <1>2, <1>3, <1>4, <1>5 DEF SummaryTyped

LEMMA TellsSame ==
  ASSUME NEW s, NEW how, NEW over, NEW how1, NEW over1, TellsEnd(s, how, over),
         over <=> over1, over => how = how1
  PROVE  TellsEnd(s, how1, over1)
BY DEF TellsEnd

LEMMA StatusOther ==
  ASSUME NEW S, NEW q \in Seq(S), NEW x \in S, NEW ft, NEW told, NEW before, NEW after,
         Status(q, ft, told, before, after), ~Ending(x)
  PROVE  Status(Append(q, x), ft, told, before, x[1] = "error" \/ after)
<1>1. TrueEnds(q, ft) /\ x[1] \notin {"complete", "aborted"}
  BY DEF Status, Ending
<1>2. /\ TrueEnds(Append(q, x), ft)
      /\ \A t : Underway(Append(q, x), t) <=> Underway(q, t)
  BY <1>1, EndsAppend DEF Ending
<1>3. \A t \in Turns : TellsEnd(told[t], ft[t], ft[t] \in Final /\ ~Underway(Append(q, x), t))
  <2> TAKE t \in Turns
  <2>1. TellsEnd(told[t], ft[t], ft[t] \in Final /\ ~Underway(q, t))
    BY DEF Status
  <2> QED
    BY <1>2, <2>1, TellsSame
<1>4. PICK H : Flags(q, H, ft) /\ (0 \in H <=> before) /\ (Len(q) \in H <=> after)
  BY DEF Status
<1>5. PICK K : /\ Flags(Append(q, x), K, ft) /\ (0 \in K <=> 0 \in H)
               /\ Len(Append(q, x)) \in K <=> x[1] = "error" \/ (~Ending(x) /\ Len(q) \in H)
  BY <1>1, <1>4, FlagsAppend
<1>6. (0 \in K <=> before) /\ (Len(Append(q, x)) \in K <=> x[1] = "error" \/ after)
  BY <1>4, <1>5
<1> QED
  BY <1>2, <1>3, <1>5, <1>6 DEF Status

\* A turn ends, and says so.
LEMMA StatusEnds ==
  ASSUME NEW S, NEW q \in Seq(S), NEW x \in S, NEW R, NEW ft \in [Turns -> R], NEW told,
         NEW before, NEW after, Status(q, ft, told, before, after),
         Ending(x), NEW t \in Turns, x[2] = t, ft[t] \notin Final, NEW how,
         x[1] = "aborted" => how = "interrupted",
         x[1] = "complete" => how = IF after THEN "failed" ELSE "completed"
  PROVE  Status(Append(q, x), [ft EXCEPT ![t] = how], told, before, FALSE)
<1> DEFINE g == [ft EXCEPT ![t] = how]
<1>1. PICK H : Flags(q, H, ft) /\ (0 \in H <=> before) /\ (Len(q) \in H <=> after)
  BY DEF Status
<1>2. TrueEnds(q, ft)
  BY DEF Status
<1>3. Flags(q, H, g) /\ TrueEnds(q, g)
  BY <1>1, <1>2, FateChanges
<1>4. ~Underway(q, t)
  BY <1>2 DEF Underway, TrueEnds, Ending, Final
<1>5. g[t] = how /\ \A u \in Turns : u # t => g[u] = ft[u]
  OBVIOUS
<1> HIDE DEF g
<1>6. /\ x[1] = "complete" => x[2] \in Turns /\ g[x[2]] \in {"completed", "failed"}
      /\ x[1] = "aborted" => x[2] \in Turns /\ g[x[2]] = "interrupted"
      /\ x[1] = "complete" => (g[x[2]] = "failed" <=> after)
  BY <1>5
<1>7. /\ TrueEnds(Append(q, x), g)
      /\ \A u : Underway(Append(q, x), u) <=> Underway(q, u) \/ x[2] = u
  BY <1>3, <1>4, <1>6, EndsAppend
<1>8. PICK K : /\ Flags(Append(q, x), K, g) /\ (0 \in K <=> 0 \in H)
               /\ Len(Append(q, x)) \in K <=> x[1] = "error" \/ (~Ending(x) /\ Len(q) \in H)
  BY <1>1, <1>3, <1>6, FlagsAppend
<1>9. (0 \in K <=> before) /\ ~(Len(Append(q, x)) \in K)
  BY <1>1, <1>8 DEF Ending
<1>10. \A u \in Turns : TellsEnd(told[u], g[u], g[u] \in Final /\ ~Underway(Append(q, x), u))
  <2> TAKE u \in Turns
  <2>1. TellsEnd(told[u], ft[u], ft[u] \in Final /\ ~Underway(q, u))
    BY DEF Status
  <2>2. CASE u = t
    <3>1. ~(ft[u] \in Final /\ ~Underway(q, u)) /\ ~(g[u] \in Final /\ ~Underway(Append(q, x), u))
      BY <1>7, <2>2
    <3> QED
      BY <2>1, <3>1, TellsSame
  <2>3. CASE u # t
    <3>1. g[u] = ft[u] /\ (Underway(Append(q, x), u) <=> Underway(q, u))
      BY <1>5, <1>7, <2>3
    <3> QED
      BY <2>1, <3>1, TellsSame
  <2> QED
    BY <2>2, <2>3
<1>11. Status(Append(q, x), g, told, before, FALSE)
  BY <1>7, <1>8, <1>9, <1>10 DEF Status
<1> QED
  BY <1>11 DEF g

\* A turn begins, or is joined to the one that runs.
LEMMA StatusBegins ==
  ASSUME NEW q, NEW R, NEW ft \in [Turns -> R], NEW told, NEW before, NEW after,
         Status(q, ft, told, before, after), NEW t, ft[t] \notin Final, NEW how, how \notin Final
  PROVE  Status(q, [ft EXCEPT ![t] = how], told, before, after)
<1> DEFINE g == [ft EXCEPT ![t] = how]
<1>1. PICK H : Flags(q, H, ft) /\ (0 \in H <=> before) /\ (Len(q) \in H <=> after)
  BY DEF Status
<1>2. Flags(q, H, g) /\ TrueEnds(q, g)
  BY <1>1, FateChanges DEF Status
<1>3. \A u \in Turns : g[u] = IF u = t THEN how ELSE ft[u]
  OBVIOUS
<1> HIDE DEF g
<1>4. \A u \in Turns : TellsEnd(told[u], g[u], g[u] \in Final /\ ~Underway(q, u))
  <2> TAKE u \in Turns
  <2>1. TellsEnd(told[u], ft[u], ft[u] \in Final /\ ~Underway(q, u))
    BY DEF Status
  <2>2. /\ ft[u] \in Final /\ ~Underway(q, u) <=> g[u] \in Final /\ ~Underway(q, u)
        /\ ft[u] \in Final => ft[u] = g[u]
    BY <1>3
  <2> QED
    BY <2>1, <2>2, TellsSame
<1>5. Status(q, g, told, before, after)
  BY <1>1, <1>2, <1>4 DEF Status
<1> QED
  BY <1>5 DEF g

LEMMA StartedTells ==
  ASSUME NEW told \in [Turns -> Notices], NEW u, NEW t \in Turns, NEW how, NEW over,
         TellsEnd(told[t], how, over)
  PROVE  TellsEnd(Tell(told, u, "started")[t], how, over)
<1>1. CASE t = u
  <2>1. Tell(told, u, "started")[t] = Append(told[t], "started")
    BY <1>1 DEF Tell
  <2>2. told[t] \in Seq({"started"} \union Final) /\ "started" \in {"started"} \union Final
    BY DEF Notices
  <2>3. /\ EndsOf(Append(told[t], "started")) = EndsOf(told[t])
        /\ \A i \in EndsOf(told[t]) : Append(told[t], "started")[i] = told[t][i]
    BY ONLY <2>2, EndsOfAppend
  <2>4. TellsEnd(told[t], how, over)
    OBVIOUS
  <2>5. TellsEnd(Append(told[t], "started"), how, over)
    BY ONLY <2>3, <2>4 DEF TellsEnd
  <2> QED
    BY ONLY Zenon, <2>1, <2>5
<1>2. CASE t # u
  <2>1. Tell(told, u, "started")[t] = told[t]
    BY <1>2 DEF Tell
  <2> QED
    BY <2>1
<1> QED
  BY <1>1, <1>2

LEMMA StatusStarted ==
  ASSUME NEW told \in [Turns -> Notices], NEW u, NEW q, NEW ft, NEW before, NEW after,
         Status(q, ft, told, before, after)
  PROVE  Status(q, ft, Tell(told, u, "started"), before, after)
<1>1. \A t \in Turns : TellsEnd(Tell(told, u, "started")[t], ft[t], ft[t] \in Final /\ ~Underway(q, t))
  <2> TAKE t \in Turns
  <2>1. TellsEnd(told[t], ft[t], ft[t] \in Final /\ ~Underway(q, t))
    BY DEF Status
  <2> QED
    BY <2>1, StartedTells
<1> QED
  BY <1>1 DEF Status

\* The listener takes the event at the head.
LEMMA StatusHears ==
  ASSUME NEW S, NEW q \in Seq(S), q # <<>>, NEW ft, NEW told, NEW before, NEW after,
         Status(q, ft, told, before, after), ~Ending(Head(q))
  PROVE  Status(Tail(q), ft, told, Head(q)[1] = "error" \/ before, after)
<1>1. PICK H : Flags(q, H, ft) /\ (0 \in H <=> before) /\ (Len(q) \in H <=> after)
  BY DEF Status
<1>2. PICK K : /\ Flags(Tail(q), K, ft) /\ (Len(Tail(q)) \in K <=> Len(q) \in H)
               /\ 0 \in K <=> Head(q)[1] = "error" \/ (~Ending(Head(q)) /\ 0 \in H)
  BY <1>1, FlagsTail
<1>3. (0 \in K <=> Head(q)[1] = "error" \/ before) /\ (Len(Tail(q)) \in K <=> after)
  BY <1>1, <1>2
<1>4. TrueEnds(Tail(q), ft) /\ \A t : Underway(Tail(q), t) <=> Underway(q, t)
  <2>1. TrueEnds(q, ft)
    BY DEF Status
  <2> QED
    BY <2>1, EndsTail
<1>5. \A t \in Turns : TellsEnd(told[t], ft[t], ft[t] \in Final /\ ~Underway(Tail(q), t))
  <2> TAKE t \in Turns
  <2>1. TellsEnd(told[t], ft[t], ft[t] \in Final /\ ~Underway(q, t))
    BY DEF Status
  <2> QED
    BY <1>4, <2>1, TellsSame
<1> QED
  BY <1>2, <1>3, <1>4, <1>5 DEF Status

LEMMA StatusHearsEnd ==
  ASSUME NEW S, NEW q \in Seq(S), q # <<>>, NEW ft, NEW told \in [Turns -> Notices],
         NEW before, NEW after, Status(q, ft, told, before, after), Ending(Head(q)), NEW how,
         Head(q)[1] = "aborted" => how = "interrupted",
         Head(q)[1] = "complete" => how = IF before THEN "failed" ELSE "completed"
  PROVE  Status(Tail(q), ft, Tell(told, Head(q)[2], how), FALSE, after)
<1> DEFINE u == Head(q)[2]
           g == Tell(told, u, how)
<1>1. PICK H : Flags(q, H, ft) /\ (0 \in H <=> before) /\ (Len(q) \in H <=> after)
  BY DEF Status
<1>2. PICK K : /\ Flags(Tail(q), K, ft) /\ (Len(Tail(q)) \in K <=> Len(q) \in H)
               /\ 0 \in K <=> Head(q)[1] = "error" \/ (~Ending(Head(q)) /\ 0 \in H)
  BY <1>1, FlagsTail
<1>3. ~(0 \in K) /\ (Len(Tail(q)) \in K <=> after)
  BY <1>1, <1>2 DEF Ending
<1>4. Head(q)[1] = "complete" => (before <=> ft[u] = "failed")
  BY <1>1, FlagsTail
<1>5. /\ TrueEnds(Tail(q), ft)
      /\ \A t : Underway(Tail(q), t) <=> Underway(q, t) /\ u # t
      /\ Head(q)[1] = "complete" => u \in Turns /\ ft[u] \in {"completed", "failed"}
      /\ Head(q)[1] = "aborted" => u \in Turns /\ ft[u] = "interrupted"
      /\ Underway(q, u)
  <2>1. TrueEnds(q, ft)
    BY DEF Status
  <2> QED
    BY <2>1, EndsTail
<1> HIDE DEF u
<1>6. u \in Turns /\ ft[u] = how /\ how \in Final
  BY <1>4, <1>5 DEF Ending, Final
<1>7. g[u] = Append(told[u], how) /\ \A t \in Turns : t # u => g[t] = told[t]
  BY <1>6 DEF Tell
<1> HIDE DEF g
<1>8. \A t \in Turns : TellsEnd(g[t], ft[t], ft[t] \in Final /\ ~Underway(Tail(q), t))
  <2> TAKE t \in Turns
  <2>1. TellsEnd(told[t], ft[t], ft[t] \in Final /\ ~Underway(q, t))
    BY DEF Status
  <2>2. CASE t # u
    <3>1. g[t] = told[t] /\ (Underway(Tail(q), t) <=> Underway(q, t))
      BY <1>5, <1>7, <2>2
    <3> QED
      BY <2>1, <3>1, TellsSame
  <2>3. CASE t = u
    <3>1. EndsOf(told[u]) = {}
      BY <1>5, <2>1, <2>3 DEF TellsEnd
    <3>2. /\ told[u] \in Seq({"started"} \union Final) /\ how \in {"started"} \union Final
          /\ how # "started"
      BY <1>6 DEF Notices, Final
    <3>3. /\ g[u][Len(told[u]) + 1] = how
          /\ EndsOf(g[u]) = {Len(told[u]) + 1}
      BY <1>7, <3>1, <3>2, EndsOfAppend
    <3>4. ft[t] \in Final /\ ~Underway(Tail(q), t)
      BY <1>5, <1>6, <2>3
    <3>5. \E i \in EndsOf(g[u]) : EndsOf(g[u]) = {i} /\ g[u][i] = how
      BY <3>3
    <3> QED
      BY <1>6, <2>3, <3>4, <3>5 DEF TellsEnd
  <2> QED
    BY <2>2, <2>3
<1>9. Status(Tail(q), ft, g, FALSE, after)
  BY <1>2, <1>3, <1>5, <1>8 DEF Status
<1> QED
  BY <1>9 DEF g, u

LEMMA StatusStep ==
  ASSUME Typed, TurnInv, SummaryTyped, StatusInv, [Next]_vars
  PROVE  StatusInv'
<1> SUFFICES ASSUME ~archived' PROVE Status(events', fate', toldTurn', failed', active' # 0 /\ erred')
  BY DEF StatusInv
<1>1. /\ ~archived
      /\ TurnsAlone \/ ServeInput \/ TurnStops \/ TurnErrs \/ TurnCompletes \/ Listen
  BY SummarySteps
<1>2. Status(events, fate, toldTurn, failed, active # 0 /\ erred)
  BY <1>1 DEF StatusInv
<1>3. events \in Seq(Events) /\ toldTurn \in [Turns -> Notices] /\ active \in Nat
  BY DEF Typed, SummaryTyped
<1>4. PICK R : fate \in [Turns -> R]
  BY DEF Typed
<1>5. active # 0 => active \in Turns /\ fate[active] \notin Final
  BY DEF TurnInv, Final
<1>6. CASE TurnsAlone
  <2>1. Status(events', fate, toldTurn, failed, active # 0 /\ erred)
    <3>1. ASSUME NEW x \in Events, x[1] \in {"ask", "begin", "end"}, events' = Append(events, x)
          PROVE  Status(events', fate, toldTurn, failed, active # 0 /\ erred)
      <4>1. ~Ending(x) /\ (x[1] = "error" \/ (active # 0 /\ erred) <=> active # 0 /\ erred)
        BY <3>1 DEF Ending
      <4>2. Status(events', fate, toldTurn, failed, x[1] = "error" \/ (active # 0 /\ erred))
        BY <1>2, <1>3, <3>1, <4>1, StatusOther
      <4> QED
        BY <4>1, <4>2 DEF Status
    <3> QED
      BY <1>2, <1>6, <3>1 DEF TurnsAlone
  <2>2. Status(events', fate, toldTurn', failed, active # 0 /\ erred)
    BY <1>3, <1>6, <2>1, StatusStarted DEF TurnsAlone
  <2> QED
    BY <1>6, <2>2 DEF TurnsAlone
<1>7. CASE ServeInput
  <2>1. ops # <<>> /\ ops \in Seq(Operations) /\ Op[1] = "input" /\ Op = Head(ops)
    BY <1>7 DEF ServeInput, Served, Typed, Op
  <2>2. Op \in Operations /\ Occurs(ops, Op)
    BY <2>1, Dequeued
  <2>3. PICK t \in Nat : Op = <<"input", t>>
    BY <2>1, <2>2 DEF Operations
  <2>4. fate[t] \notin Final
    BY <2>2, <2>3 DEF TurnInv, Due, Final
  <2>5. /\ UNCHANGED <<events, toldTurn, failed>>
        /\ \/ active = 0 /\ ~erred' /\ fate' = [fate EXCEPT ![t] = "running"]
           \/ active # 0 /\ UNCHANGED <<active, erred>> /\ fate' = [fate EXCEPT ![t] = "joined"]
    BY <1>7, <2>3 DEF ServeInput, summary, client
  <2>6. \A how \in {"running", "joined"} :
          Status(events, [fate EXCEPT ![t] = how], toldTurn, failed, active # 0 /\ erred)
    <3> TAKE how \in {"running", "joined"}
    <3>1. how \notin Final
      BY DEF Final
    <3> QED
      BY <1>2, <1>4, <2>4, <3>1, StatusBegins
  <2>7. Status(events', fate', toldTurn', failed', active # 0 /\ erred)
    BY <2>5, <2>6
  <2>8. active # 0 /\ erred <=> active' # 0 /\ erred'
    BY <2>5
  <2> QED
    BY <2>7, <2>8 DEF Status
<1>8. CASE TurnStops
  <2> DEFINE s == <<"shutdown", 0, "">>
             a == <<"aborted", active, "">>
  <2>1. /\ s \in Events /\ s[1] = "shutdown"
        /\ a \in Events /\ a[1] = "aborted" /\ a[2] = active
    BY <1>3 DEF Events
  <2>2. \/ active = 0 /\ (events' = events \o <<>> \/ events' = events \o <<s>>)
           /\ UNCHANGED <<active, fate>>
        \/ active # 0 /\ (events' = events \o <<a>> \o <<>> \/ events' = events \o <<a>> \o <<s>>)
           /\ active' = 0 /\ fate' = [fate EXCEPT ![active] = "interrupted"]
    BY <1>8 DEF TurnStops, StopTurn, Ends
  <2>3. erred' = erred /\ failed' = failed /\ toldTurn' = toldTurn
    BY <1>8 DEF TurnStops
  <2> HIDE DEF s, a
  <2>4. \A q \in Seq(Events), x \in Events : q \o <<>> = q /\ q \o <<x>> = Append(q, x)
                                             /\ Append(q, x) \in Seq(Events)
    OBVIOUS
  <2>5. ASSUME NEW q \in Seq(Events), NEW ft, NEW b, Status(q, ft, toldTurn, failed, b)
        PROVE  Status(q \o <<>>, ft, toldTurn, failed, b) /\ Status(q \o <<s>>, ft, toldTurn, failed, b)
    <3>1. ~Ending(s) /\ (s[1] = "error" \/ b <=> b)
      BY <2>1 DEF Ending
    <3>2. Status(Append(q, s), ft, toldTurn, failed, s[1] = "error" \/ b)
      BY <2>1, <2>5, <3>1, StatusOther
    <3> QED
      BY <2>1, <2>4, <2>5, <3>1, <3>2 DEF Status
  <2>6. CASE active = 0
    <3>1. Status(events', fate, toldTurn, failed, active # 0 /\ erred)
      BY <1>2, <1>3, <2>2, <2>5, <2>6
    <3> QED
      BY <2>2, <2>3, <2>6, <3>1
  <2>7. CASE active # 0
    <3>1. Ending(a) /\ a[1] # "complete"
      BY <2>1 DEF Ending
    <3>2. Status(Append(events, a), [fate EXCEPT ![active] = "interrupted"], toldTurn, failed, FALSE)
      BY <1>2, <1>3, <1>4, <1>5, <2>1, <2>7, <3>1, StatusEnds
    <3>3. events \o <<a>> = Append(events, a) /\ Append(events, a) \in Seq(Events)
      BY <1>3, <2>1, <2>4
    <3>4. Status(events', fate', toldTurn, failed, FALSE)
      BY <2>2, <2>5, <2>7, <3>2, <3>3
    <3>5. ~(active' # 0 /\ erred')
      BY <2>2, <2>7
    <3> QED
      BY <2>3, <3>4, <3>5 DEF Status
  <2> QED
    BY <2>6, <2>7
<1>9. CASE TurnErrs
  <2> DEFINE x == <<"error", active, "">>
  <2>1. x \in Events /\ x[1] = "error" /\ ~Ending(x)
    BY <1>3 DEF Events, Ending
  <2>2. events' = Append(events, x) /\ active # 0 /\ erred' /\ UNCHANGED <<active, fate, failed, toldTurn>>
    BY <1>9 DEF TurnErrs, Emit, summary, client
  <2> HIDE DEF x
  <2>3. Status(Append(events, x), fate, toldTurn, failed, x[1] = "error" \/ (active # 0 /\ erred))
    BY <1>2, <1>3, <2>1, StatusOther
  <2>4. x[1] = "error" \/ (active # 0 /\ erred) <=> active' # 0 /\ erred'
    BY <2>1, <2>2
  <2> QED
    BY <2>2, <2>3, <2>4 DEF Status
<1>10. CASE TurnCompletes
  <2> DEFINE x == <<"complete", active, "">>
             how == IF erred THEN "failed" ELSE "completed"
  <2>1. x \in Events /\ x[1] = "complete" /\ Ending(x) /\ x[2] = active
    BY <1>3 DEF Events, Ending
  <2>2. /\ events' = Append(events, x) /\ active # 0 /\ active' = 0
        /\ fate' = [fate EXCEPT ![active] = how] /\ UNCHANGED <<failed, toldTurn>>
    BY <1>10 DEF TurnCompletes, Emit, Ends, summary, client
  <2>3. how = IF active # 0 /\ erred THEN "failed" ELSE "completed"
    BY <2>2
  <2> HIDE DEF x, how
  <2>4. Status(Append(events, x), [fate EXCEPT ![active] = how], toldTurn, failed, FALSE)
    BY <1>2, <1>3, <1>4, <1>5, <2>1, <2>2, <2>3, StatusEnds
  <2> QED
    BY <2>2, <2>4 DEF Status
<1>11. CASE Listen
  <2> DEFINE e == Head(events)
  <2>1. /\ events # <<>> /\ events' = Tail(events) /\ UNCHANGED <<fate, active, erred>>
        /\ \/ /\ e[1] \in {"begin", "ask", "end", "shutdown"} /\ UNCHANGED <<failed, toldTurn>>
           \/ e[1] = "error" /\ failed' = TRUE /\ UNCHANGED toldTurn
           \/ /\ e[1] = "complete" /\ failed' = FALSE
              /\ toldTurn' = Tell(toldTurn, e[2], IF failed THEN "failed" ELSE "completed")
           \/ e[1] = "aborted" /\ failed' = FALSE /\ toldTurn' = Tell(toldTurn, e[2], "interrupted")
    BY <1>11 DEF Listen, HearBegin, HearAsk, HearEnd, HearError, HearComplete, HearAborted,
                 HearShutdown, Heard, Is, Event, summary, client
  <2> HIDE DEF e
  <2>2. CASE ~Ending(e)
    <3>1. Status(events', fate, toldTurn, e[1] = "error" \/ failed, active # 0 /\ erred)
      BY <1>2, <1>3, <2>1, <2>2, StatusHears DEF e
    <3>2. (e[1] = "error" \/ failed <=> failed') /\ UNCHANGED toldTurn
      BY <2>1, <2>2 DEF Ending
    <3> QED
      BY <2>1, <3>1, <3>2 DEF Status
  <2>3. CASE Ending(e)
    <3>1. PICK how : /\ toldTurn' = Tell(toldTurn, e[2], how)
                     /\ e[1] = "aborted" => how = "interrupted"
                     /\ e[1] = "complete" => how = IF failed THEN "failed" ELSE "completed"
      BY <2>1, <2>3 DEF Ending
    <3>2. Status(events', fate, toldTurn', FALSE, active # 0 /\ erred)
      BY <1>2, <1>3, <2>1, <2>3, <3>1, StatusHearsEnd DEF e
    <3>3. failed' = FALSE
      BY <2>1, <2>3 DEF Ending
    <3> QED
      BY <2>1, <3>2, <3>3 DEF Status
  <2> QED
    BY <2>2, <2>3
<1> QED
  BY <1>1, <1>6, <1>7, <1>8, <1>9, <1>10, <1>11

StatusIInv == IInv /\ SummaryTyped /\ StatusInv

LEMMA StatusIInvInit == Init => StatusIInv
<1> SUFFICES ASSUME Init PROVE StatusIInv
  OBVIOUS
<1>1. IInv
  BY IInvInit
<1>2. /\ events = <<>> /\ ~failed /\ active = 0 /\ ~archived /\ ~watching
      /\ toldTurn = [t \in Turns |-> <<>>] /\ fate = [t \in Turns |-> "none"]
      /\ erred \in BOOLEAN /\ failed \in BOOLEAN
  BY DEF Init
<1>3. <<>> \in Notices /\ EndsOf(<<>>) = {} /\ 1 .. Len(<<>>) = {} /\ Len(<<>>) = 0
  BY DEF Notices, EndsOf
<1>4. SummaryTyped
  BY <1>2, <1>3 DEF SummaryTyped
<1>5. TrueEnds(events, fate) /\ Flags(events, {}, fate)
  BY <1>2, <1>3 DEF TrueEnds, Flags
<1>6. \A t \in Turns : TellsEnd(toldTurn[t], fate[t], fate[t] \in Final /\ ~Underway(events, t))
  BY <1>2, <1>3 DEF TellsEnd, Final
<1>7. StatusInv
  BY <1>2, <1>5, <1>6 DEF StatusInv, Status
<1> QED
  BY <1>1, <1>4, <1>7 DEF StatusIInv

LEMMA StatusIInvStep == StatusIInv /\ [Next]_vars => StatusIInv'
<1> SUFFICES ASSUME StatusIInv, [Next]_vars PROVE StatusIInv'
  OBVIOUS
<1>1. IInv /\ SummaryTyped /\ StatusInv /\ Typed /\ TurnInv
  BY DEF StatusIInv, IInv
<1>2. IInv' /\ Typed'
  <2>1. IInv'
    BY <1>1, IInvStep
  <2> QED
    BY <2>1 DEF IInv
<1>3. SummaryTyped'
  BY <1>1, <1>2, SummaryTypedStep
<1>4. StatusInv'
  BY <1>1, StatusStep
<1> QED
  BY <1>2, <1>3, <1>4 DEF StatusIInv

LEMMA StatusIsTrue == StatusIInv => StatusTrue
<1> SUFFICES ASSUME StatusIInv, ~archived, NEW t \in Turns
             PROVE  LET ends == {i \in DOMAIN toldTurn[t] : toldTurn[t][i] # "started"}
                    IN  IF fate[t] \in Final /\ ~InFlight(t)
                        THEN \E i \in ends : ends = {i} /\ toldTurn[t][i] = fate[t]
                        ELSE ends = {}
  BY DEF StatusTrue
<1>1. TellsEnd(toldTurn[t], fate[t], fate[t] \in Final /\ ~Underway(events, t))
  BY DEF StatusIInv, StatusInv, Status
<1>2. toldTurn[t] \in Notices /\ events \in Seq(Events)
  BY DEF StatusIInv, SummaryTyped, IInv, Typed
<1>3. DOMAIN toldTurn[t] = 1 .. Len(toldTurn[t]) /\ DOMAIN events = 1 .. Len(events)
  BY <1>2 DEF Notices
<1>4. InFlight(t) <=> Underway(events, t)
  BY <1>3 DEF InFlight, Underway, Ending
<1>5. {i \in DOMAIN toldTurn[t] : toldTurn[t][i] # "started"} = EndsOf(toldTurn[t])
  BY <1>3 DEF EndsOf
<1> QED
  BY <1>1, <1>4, <1>5 DEF TellsEnd

\* Until a thread is archived, each turn that has ended is told of its own end, once, with
\* what has become of it (turn/completed of handle_turn_complete and
\* handle_turn_interrupted), for any number of turns, calls, approvals and interrupts.
THEOREM StatusHolds == Spec => []StatusTrue
<1>1. StatusIInv /\ [Next]_vars => StatusIInv'
  BY StatusIInvStep
<1> QED
  BY <1>1, StatusIInvInit, StatusIsTrue, PTL DEF Spec

-----------------------------------------------------------------------------
(* What an item is told of its start                                        *)

\* Of the events of a call: its requests for approval; those that start its item; the
\* first of these; the begin of a patch, whose request may have started it; and those
\* after which its item is not open.
Requests(e, as, c) == e[1] = "ask" /\ as[e[2]].call = c
Starts(e, as, c) == \/ e[1] = "begin" /\ e[2] = c
                    \/ Requests(e, as, c) /\ as[e[2]].kind = "change"
Again(e, c) == e[1] = "begin" /\ e[2] = c /\ e[3] = "change"
EndOf(e, c) == e[1] = "end" /\ e[2] = c
Closes(e, c) == Ending(e) \/ EndOf(e, c) \/ (e[1] = "begin" /\ e[2] = c /\ e[3] # "change")

\* The item has been started, or will be by one of the first k events.
BegunBy(q, as, c, told, k) == told \/ \E j \in 1 .. k : Starts(q[j], as, c)

\* If it has been started by then, it is open.
UnclosedBy(q, as, c, told, opened, k) ==
  /\ told => opened
  /\ \A j \in 1 .. k : Closes(q[j], c) => ~BegunBy(q, as, c, told, j)

\* The queue starts the item of a call once, unless a patch that begins finds it
\* open, and tells nothing else of it before.
Item(q, as, c, told, opened) ==
  /\ opened => told
  /\ \A i \in 1 .. Len(q) :
       /\ Starts(q[i], as, c) /\ ~Again(q[i], c) => ~BegunBy(q, as, c, told, i - 1)
       /\ Again(q[i], c) => UnclosedBy(q, as, c, told, opened, i - 1)
       /\ EndOf(q[i], c) => BegunBy(q, as, c, told, i - 1)
       /\ Requests(q[i], as, c) => BegunBy(q, as, c, told, i)

LEMMA BegunAppend ==
  ASSUME NEW S, NEW q \in Seq(S), NEW x \in S, NEW as, NEW c, NEW told, NEW opened
  PROVE  /\ \A k \in 0 .. Len(q) :
              /\ BegunBy(Append(q, x), as, c, told, k) <=> BegunBy(q, as, c, told, k)
              /\ UnclosedBy(Append(q, x), as, c, told, opened, k)
                   <=> UnclosedBy(q, as, c, told, opened, k)
         /\ BegunBy(Append(q, x), as, c, told, Len(q) + 1)
              <=> BegunBy(q, as, c, told, Len(q)) \/ Starts(x, as, c)
         /\ UnclosedBy(q, as, c, told, opened, Len(q))
            /\ (Closes(x, c) => ~BegunBy(q, as, c, told, Len(q)) /\ ~Starts(x, as, c))
              => UnclosedBy(Append(q, x), as, c, told, opened, Len(q) + 1)
<1> DEFINE p == Append(q, x)
           n == Len(q)
           m == Len(q) + 1
<1>1. /\ n \in Nat /\ p[m] = x /\ m \in 1 .. m
      /\ \A i \in 1 .. n : p[i] = q[i] /\ i \in 1 .. m
      /\ \A i \in 1 .. m : i \in 1 .. n \/ i = m
  BY QueueAppend
<1>2. /\ \A k \in 0 .. n : \A j \in 1 .. k : j \in 1 .. n /\ j \in 0 .. n
      /\ \A k \in 1 .. n : k \in 0 .. n
      /\ n \in 0 .. n
  BY <1>1
<1> HIDE DEF p, n, m
<1>3. ASSUME NEW k \in 0 .. n
      PROVE  BegunBy(p, as, c, told, k) <=> BegunBy(q, as, c, told, k)
  BY <1>1, <1>2 DEF BegunBy
<1>4. ASSUME NEW k \in 0 .. n
      PROVE  UnclosedBy(p, as, c, told, opened, k) <=> UnclosedBy(q, as, c, told, opened, k)
  BY <1>1, <1>2, <1>3 DEF UnclosedBy
<1>5. BegunBy(p, as, c, told, m) <=> BegunBy(q, as, c, told, n) \/ Starts(x, as, c)
  BY <1>1 DEF BegunBy
<1>6. ASSUME UnclosedBy(q, as, c, told, opened, n),
             Closes(x, c) => ~BegunBy(q, as, c, told, n) /\ ~Starts(x, as, c)
      PROVE  UnclosedBy(p, as, c, told, opened, m)
  <2>1. \A j \in 1 .. n : Closes(p[j], c) => ~BegunBy(p, as, c, told, j)
    BY <1>1, <1>2, <1>3, <1>6 DEF UnclosedBy
  <2>2. Closes(p[m], c) => ~BegunBy(p, as, c, told, m)
    BY <1>1, <1>5, <1>6
  <2> QED
    BY <1>1, <1>6, <2>1, <2>2 DEF UnclosedBy
<1> QED
  BY <1>3, <1>4, <1>5, <1>6 DEF p, n, m

LEMMA ItemAppend ==
  ASSUME NEW S, NEW q \in Seq(S), NEW x \in S, NEW as, NEW c, NEW told, NEW opened,
         Item(q, as, c, told, opened),
         Starts(x, as, c) /\ ~Again(x, c) => ~BegunBy(q, as, c, told, Len(q)),
         Again(x, c) => UnclosedBy(q, as, c, told, opened, Len(q)),
         EndOf(x, c) => BegunBy(q, as, c, told, Len(q)),
         Requests(x, as, c) => BegunBy(q, as, c, told, Len(q)) \/ Starts(x, as, c)
  PROVE  Item(Append(q, x), as, c, told, opened)
<1> DEFINE p == Append(q, x)
           n == Len(q)
           m == Len(q) + 1
<1>1. /\ n \in Nat /\ Len(p) = m /\ p[m] = x
      /\ \A i \in 1 .. n : p[i] = q[i]
      /\ \A i \in 1 .. m : i \in 1 .. n \/ i = m
  BY QueueAppend
<1>2. /\ \A k \in 0 .. n :
           /\ BegunBy(p, as, c, told, k) <=> BegunBy(q, as, c, told, k)
           /\ UnclosedBy(p, as, c, told, opened, k) <=> UnclosedBy(q, as, c, told, opened, k)
      /\ BegunBy(p, as, c, told, m) <=> BegunBy(q, as, c, told, n) \/ Starts(x, as, c)
  BY BegunAppend
<1>3. /\ \A i \in 1 .. n : i \in 0 .. n /\ i - 1 \in 0 .. n
      /\ m - 1 = n /\ n \in 0 .. n
  BY <1>1
<1>4. /\ Starts(x, as, c) /\ ~Again(x, c) => ~BegunBy(q, as, c, told, n)
      /\ Again(x, c) => UnclosedBy(q, as, c, told, opened, n)
      /\ EndOf(x, c) => BegunBy(q, as, c, told, n)
      /\ Requests(x, as, c) => BegunBy(q, as, c, told, n) \/ Starts(x, as, c)
  OBVIOUS
<1> HIDE DEF p, n, m
<1>5. ASSUME NEW i \in 1 .. m
      PROVE  /\ Starts(p[i], as, c) /\ ~Again(p[i], c) => ~BegunBy(p, as, c, told, i - 1)
             /\ Again(p[i], c) => UnclosedBy(p, as, c, told, opened, i - 1)
             /\ EndOf(p[i], c) => BegunBy(p, as, c, told, i - 1)
             /\ Requests(p[i], as, c) => BegunBy(p, as, c, told, i)
  <2>1. CASE i \in 1 .. n
    <3>1. /\ p[i] = q[i]
          /\ BegunBy(p, as, c, told, i) <=> BegunBy(q, as, c, told, i)
          /\ BegunBy(p, as, c, told, i - 1) <=> BegunBy(q, as, c, told, i - 1)
          /\ UnclosedBy(p, as, c, told, opened, i - 1)
               <=> UnclosedBy(q, as, c, told, opened, i - 1)
      BY <1>1, <1>2, <1>3, <2>1
    <3>2. /\ Starts(q[i], as, c) /\ ~Again(q[i], c) => ~BegunBy(q, as, c, told, i - 1)
          /\ Again(q[i], c) => UnclosedBy(q, as, c, told, opened, i - 1)
          /\ EndOf(q[i], c) => BegunBy(q, as, c, told, i - 1)
          /\ Requests(q[i], as, c) => BegunBy(q, as, c, told, i)
      BY <2>1 DEF Item, n
    <3> QED
      BY <3>1, <3>2
  <2>2. CASE i = m
    BY <1>1, <1>2, <1>3, <1>4, <2>2
  <2> QED
    BY <1>1, <2>1, <2>2
<1>6. Item(p, as, c, told, opened)
  BY <1>1, <1>5 DEF Item
<1> QED
  BY <1>6 DEF p

LEMMA BegunTail ==
  ASSUME NEW S, NEW q \in Seq(S), q # <<>>, NEW as, NEW c, NEW told, NEW opened,
         NEW told1, told1 <=> told \/ Starts(Head(q), as, c),
         NEW opened1, told1 /\ ~Closes(Head(q), c) /\ (told => opened) => opened1
  PROVE  \A k \in 0 .. Len(q) - 1 :
           /\ BegunBy(Tail(q), as, c, told1, k) <=> BegunBy(q, as, c, told, k + 1)
           /\ UnclosedBy(q, as, c, told, opened, k + 1)
                => UnclosedBy(Tail(q), as, c, told1, opened1, k)
<1> DEFINE p == Tail(q)
           n == Len(q) - 1
<1>1. /\ Head(q) = q[1] /\ Len(q) \in Nat /\ Len(q) >= 1
      /\ \A i \in 1 .. n : p[i] = q[i + 1]
  BY QueueTail
<1>2. ASSUME NEW k \in 0 .. n
      PROVE  /\ 1 \in 1 .. k + 1 /\ \A j \in 1 .. k : j + 1 \in 1 .. k + 1 /\ j \in 1 .. n /\ j \in 0 .. n
             /\ \A j \in 1 .. k + 1 : j = 1 \/ (j - 1 \in 1 .. k /\ j - 1 \in 1 .. n /\ (j - 1) + 1 = j)
  BY <1>1
<1>3. told1 <=> told \/ Starts(q[1], as, c)
  BY <1>1
<1>4. told1 /\ ~Closes(q[1], c) /\ (told => opened) => opened1
  BY <1>1
<1> HIDE DEF p, n
<1>5. ASSUME NEW k \in 0 .. n
      PROVE  BegunBy(p, as, c, told1, k) <=> BegunBy(q, as, c, told, k + 1)
  <2>1. ASSUME BegunBy(p, as, c, told1, k) PROVE BegunBy(q, as, c, told, k + 1)
    BY <1>1, <1>2, <1>3, <2>1 DEF BegunBy
  <2>2. ASSUME BegunBy(q, as, c, told, k + 1) PROVE BegunBy(p, as, c, told1, k)
    <3>1. told \/ \E j \in 1 .. k + 1 : Starts(q[j], as, c)
      BY <2>2 DEF BegunBy
    <3>2. ASSUME NEW j \in 1 .. k + 1, Starts(q[j], as, c), j # 1
          PROVE  Starts(p[j - 1], as, c) /\ j - 1 \in 1 .. k
      BY <1>1, <1>2, <3>2
    <3> QED
      BY <1>3, <3>1, <3>2 DEF BegunBy
  <2> QED
    BY <2>1, <2>2
<1>6. ASSUME NEW k \in 0 .. n, UnclosedBy(q, as, c, told, opened, k + 1)
      PROVE  UnclosedBy(p, as, c, told1, opened1, k)
  <2>1. Closes(q[1], c) => ~told1
    <3>1. Closes(q[1], c) => ~BegunBy(q, as, c, told, 1)
      BY <1>2, <1>6 DEF UnclosedBy
    <3>2. 1 \in 1 .. 1
      OBVIOUS
    <3>3. told1 => BegunBy(q, as, c, told, 1)
      BY <1>3, <3>2 DEF BegunBy
    <3> QED
      BY <3>1, <3>3
  <2>2. told1 => opened1
    BY <1>4, <1>6, <2>1 DEF UnclosedBy
  <2>3. ASSUME NEW j \in 1 .. k, Closes(p[j], c) PROVE ~BegunBy(p, as, c, told1, j)
    <3>1. Closes(q[j + 1], c) /\ j + 1 \in 1 .. k + 1 /\ j \in 0 .. n
      BY <1>1, <1>2, <2>3
    <3>2. ~BegunBy(q, as, c, told, j + 1)
      BY <1>6, <3>1 DEF UnclosedBy
    <3> QED
      BY <1>5, <3>1, <3>2
  <2> QED
    BY <2>2, <2>3 DEF UnclosedBy
<1> QED
  BY <1>5, <1>6 DEF p, n

LEMMA ItemTail ==
  ASSUME NEW S, NEW q \in Seq(S), q # <<>>, NEW as, NEW c, NEW told, NEW opened,
         Item(q, as, c, told, opened),
         NEW told1, told1 <=> told \/ Starts(Head(q), as, c),
         NEW opened1, opened1 => told1,
         told1 /\ ~Closes(Head(q), c) /\ (told => opened) => opened1
  PROVE  /\ Item(Tail(q), as, c, told1, opened1)
         /\ BegunBy(Tail(q), as, c, told1, Len(Tail(q))) <=> BegunBy(q, as, c, told, Len(q))
         /\ UnclosedBy(q, as, c, told, opened, Len(q))
              => UnclosedBy(Tail(q), as, c, told1, opened1, Len(Tail(q)))
<1> DEFINE p == Tail(q)
           n == Len(q) - 1
<1>1. /\ Len(p) = n /\ Len(q) \in Nat /\ Len(q) >= 1
      /\ n + 1 = Len(q) /\ n \in 0 .. n
      /\ \A i \in 1 .. n : p[i] = q[i + 1] /\ i + 1 \in 1 .. Len(q)
  BY QueueTail
<1>2. \A i \in 1 .. n : i \in 0 .. n /\ i - 1 \in 0 .. n /\ (i + 1) - 1 = i /\ (i - 1) + 1 = i
  BY <1>1
<1>3. \A k \in 0 .. n :
        /\ BegunBy(p, as, c, told1, k) <=> BegunBy(q, as, c, told, k + 1)
        /\ UnclosedBy(q, as, c, told, opened, k + 1) => UnclosedBy(p, as, c, told1, opened1, k)
  <2>1. told1 <=> told \/ Starts(Head(q), as, c)
    OBVIOUS
  <2>2. told1 /\ ~Closes(Head(q), c) /\ (told => opened) => opened1
    OBVIOUS
  <2> QED
    BY <2>1, <2>2, BegunTail
<1> HIDE DEF p, n
<1>4. ASSUME NEW i \in 1 .. n
      PROVE  /\ Starts(p[i], as, c) /\ ~Again(p[i], c) => ~BegunBy(p, as, c, told1, i - 1)
             /\ Again(p[i], c) => UnclosedBy(p, as, c, told1, opened1, i - 1)
             /\ EndOf(p[i], c) => BegunBy(p, as, c, told1, i - 1)
             /\ Requests(p[i], as, c) => BegunBy(p, as, c, told1, i)
  <2>1. /\ Starts(q[i + 1], as, c) /\ ~Again(q[i + 1], c) => ~BegunBy(q, as, c, told, (i + 1) - 1)
        /\ Again(q[i + 1], c) => UnclosedBy(q, as, c, told, opened, (i + 1) - 1)
        /\ EndOf(q[i + 1], c) => BegunBy(q, as, c, told, (i + 1) - 1)
        /\ Requests(q[i + 1], as, c) => BegunBy(q, as, c, told, i + 1)
    BY <1>1 DEF Item
  <2>2. /\ BegunBy(p, as, c, told1, i - 1) <=> BegunBy(q, as, c, told, i)
        /\ UnclosedBy(q, as, c, told, opened, i) => UnclosedBy(p, as, c, told1, opened1, i - 1)
        /\ BegunBy(p, as, c, told1, i) <=> BegunBy(q, as, c, told, i + 1)
    <3>1. (i - 1) + 1 = i /\ i - 1 \in 0 .. n /\ i \in 0 .. n
      BY <1>2
    <3> QED
      BY <1>3, <3>1
  <2>3. p[i] = q[i + 1] /\ (i + 1) - 1 = i
    BY <1>1, <1>2
  <2> QED
    BY <2>1, <2>2, <2>3
<1>5. Item(p, as, c, told1, opened1)
  BY <1>1, <1>4 DEF Item
<1>6. /\ BegunBy(p, as, c, told1, Len(p)) <=> BegunBy(q, as, c, told, Len(q))
      /\ UnclosedBy(q, as, c, told, opened, Len(q)) => UnclosedBy(p, as, c, told1, opened1, Len(p))
  <2>1. /\ BegunBy(p, as, c, told1, n) <=> BegunBy(q, as, c, told, n + 1)
        /\ UnclosedBy(q, as, c, told, opened, n + 1) => UnclosedBy(p, as, c, told1, opened1, n)
    BY <1>1, <1>3
  <2> QED
    BY <1>1, <2>1
<1> QED
  BY <1>5, <1>6 DEF p

\* The head of the queue, when it is heard.
LEMMA ItemHead ==
  ASSUME NEW S, NEW q \in Seq(S), q # <<>>, NEW as, NEW c, NEW told, NEW opened,
         Item(q, as, c, told, opened)
  PROVE  /\ Starts(Head(q), as, c) /\ ~Again(Head(q), c) => ~told
         /\ Again(Head(q), c) => (told => opened)
         /\ EndOf(Head(q), c) => told
         /\ Requests(Head(q), as, c) => told \/ Starts(Head(q), as, c)
<1>1. 1 \in 1 .. Len(q) /\ Head(q) = q[1]
  BY QueueTail
<1>2. 1 - 1 = 0 /\ 1 .. 0 = {} /\ 1 .. 1 = {1}
  OBVIOUS
<1>3. /\ BegunBy(q, as, c, told, 1 - 1) <=> told
      /\ BegunBy(q, as, c, told, 1) <=> told \/ Starts(Head(q), as, c)
  BY <1>1, <1>2 DEF BegunBy
<1>4. UnclosedBy(q, as, c, told, opened, 1 - 1) => (told => opened)
  BY DEF UnclosedBy
<1>5. /\ Starts(q[1], as, c) /\ ~Again(q[1], c) => ~BegunBy(q, as, c, told, 1 - 1)
      /\ Again(q[1], c) => UnclosedBy(q, as, c, told, opened, 1 - 1)
      /\ EndOf(q[1], c) => BegunBy(q, as, c, told, 1 - 1)
      /\ Requests(q[1], as, c) => BegunBy(q, as, c, told, 1)
  BY <1>1 DEF Item
<1> QED
  BY <1>1, <1>3, <1>4, <1>5

\* The requests in the queue are the same, whatever is asked next.
LEMMA ItemAsked ==
  ASSUME NEW S, NEW q \in Seq(S), NEW as, NEW as1, NEW c, NEW told, NEW opened,
         \A i \in 1 .. Len(q) : q[i][1] = "ask" => as1[q[i][2]] = as[q[i][2]]
  PROVE  /\ Item(q, as, c, told, opened) => Item(q, as1, c, told, opened)
         /\ BegunBy(q, as1, c, told, Len(q)) <=> BegunBy(q, as, c, told, Len(q))
         /\ UnclosedBy(q, as, c, told, opened, Len(q)) => UnclosedBy(q, as1, c, told, opened, Len(q))
<1> DEFINE n == Len(q)
<1>0. /\ n \in Nat /\ n \in 0 .. n
      /\ \A i \in 1 .. n : i - 1 \in 0 .. n /\ i \in 0 .. n
      /\ \A k \in 0 .. n : \A j \in 1 .. k : j \in 1 .. n
  OBVIOUS
<1>1. ASSUME NEW i \in 1 .. n
      PROVE  /\ Starts(q[i], as1, c) <=> Starts(q[i], as, c)
             /\ Requests(q[i], as1, c) <=> Requests(q[i], as, c)
  BY DEF Starts, Requests
<1> HIDE DEF n
<1>2. ASSUME NEW k \in 0 .. n
      PROVE  BegunBy(q, as1, c, told, k) <=> BegunBy(q, as, c, told, k)
  BY <1>0, <1>1 DEF BegunBy
<1>3. ASSUME NEW k \in 0 .. n
      PROVE  UnclosedBy(q, as, c, told, opened, k) => UnclosedBy(q, as1, c, told, opened, k)
  <2>1. \A j \in 1 .. k : j \in 0 .. n
    BY <1>0
  <2> QED
    BY <1>2, <2>1 DEF UnclosedBy
<1>4. ASSUME Item(q, as, c, told, opened) PROVE Item(q, as1, c, told, opened)
  <2>1. ASSUME NEW i \in 1 .. n
        PROVE  /\ Starts(q[i], as1, c) /\ ~Again(q[i], c) => ~BegunBy(q, as1, c, told, i - 1)
               /\ Again(q[i], c) => UnclosedBy(q, as1, c, told, opened, i - 1)
               /\ EndOf(q[i], c) => BegunBy(q, as1, c, told, i - 1)
               /\ Requests(q[i], as1, c) => BegunBy(q, as1, c, told, i)
    <3>1. /\ Starts(q[i], as, c) /\ ~Again(q[i], c) => ~BegunBy(q, as, c, told, i - 1)
          /\ Again(q[i], c) => UnclosedBy(q, as, c, told, opened, i - 1)
          /\ EndOf(q[i], c) => BegunBy(q, as, c, told, i - 1)
          /\ Requests(q[i], as, c) => BegunBy(q, as, c, told, i)
      BY <1>4 DEF Item, n
    <3>2. i - 1 \in 0 .. n /\ i \in 0 .. n
      BY <1>0
    <3> QED
      BY <1>1, <1>2, <1>3, <3>1, <3>2
  <2> QED
    BY <1>4, <2>1 DEF Item, n
<1> QED
  BY <1>0, <1>2, <1>3, <1>4 DEF n

QueueOf(c) == Item(events, asked, c, toldItem[c] # <<>>, c \in open)
BegunOf(c) == BegunBy(events, asked, c, toldItem[c] # <<>>, Len(events))
OpenOf(c) == UnclosedBy(events, asked, c, toldItem[c] # <<>>, c \in open, Len(events))
AgainOf(c) == \E i \in 1 .. Len(events) : Again(events[i], c)

StartsOf(s) == {i \in 1 .. Len(s) : s[i] = "started"}
StartedFirst(s) == s # <<>> => StartsOf(s) = {1}

Refused(c) == \E n \in 1 .. Len(asked) :
                asked[n].call = c /\ asked[n].kind = "change" /\ given[n] \notin {"none", "accept"}

\* The call has an item from its begin or its first request on; the item of a patch
\* that has not begun is open, unless the patch is refused, and it begins when every
\* request for it is accepted.
ItemOf(c) ==
  /\ QueueOf(c) /\ StartedFirst(toldItem[c])
  /\ calls < c => ~BegunOf(c)
  /\ call.id = c =>
       /\ call.kind = "command" => call.begun
       /\ call.begun \/ call.asks > 0 <=> BegunOf(c)
       /\ call.kind = "change" /\ ~call.begun /\ ~Refused(c) => OpenOf(c)
  /\ \A n \in 1 .. Len(asked) : asked[n].call = c =>
       /\ answer[n] # "none" => toldItem[c] # <<>>
       /\ asked[n].kind = "change" /\ ((call.id = c /\ call.waits # n) \/ AgainOf(c))
            => given[n] = "accept"

ItemNotices == {"started", "declined", "", "command", "change", "ran", "failed"}

ItemsTyped ==
  /\ toldItem \in [Calls -> Seq(ItemNotices)]
  /\ call.id <= calls
  /\ \A n \in 1 .. Len(asked) : asked[n].call <= calls
  /\ \A n \in Asks : answer[n] \in {"none", "waiting"} => given[n] = "none"

ItemInv == ~archived => \A c \in Calls : ItemOf(c)

LEMMA EmitItem ==
  ASSUME events \in Seq(Events), NEW x \in Events, events' = Append(events, x), NEW c,
         \A i \in 1 .. Len(events) : events[i][1] = "ask" => asked'[events[i][2]] = asked[events[i][2]],
         UNCHANGED <<toldItem, open>>, QueueOf(c),
         Starts(x, asked', c) /\ ~Again(x, c) => ~BegunOf(c),
         Again(x, c) => OpenOf(c),
         EndOf(x, c) => BegunOf(c),
         Requests(x, asked', c) => BegunOf(c) \/ Starts(x, asked', c)
  PROVE  /\ QueueOf(c)'
         /\ BegunOf(c)' <=> BegunOf(c) \/ Starts(x, asked', c)
         /\ OpenOf(c) /\ (Closes(x, c) => ~BegunOf(c) /\ ~Starts(x, asked', c)) => OpenOf(c)'
         /\ AgainOf(c)' <=> AgainOf(c) \/ Again(x, c)
<1> DEFINE told == toldItem[c] # <<>>
           opened == c \in open
           as == asked'
<1>1. /\ Item(events, asked, c, told, opened) => Item(events, as, c, told, opened)
      /\ BegunBy(events, as, c, told, Len(events)) <=> BegunBy(events, asked, c, told, Len(events))
      /\ UnclosedBy(events, asked, c, told, opened, Len(events))
           => UnclosedBy(events, as, c, told, opened, Len(events))
  <2> HIDE DEF told, opened, as
  <2>1. \A i \in 1 .. Len(events) : events[i][1] = "ask" => as[events[i][2]] = asked[events[i][2]]
    BY DEF as
  <2> QED
    BY <2>1, ItemAsked
<1>2. /\ Len(events) \in 0 .. Len(events) /\ Len(events') = Len(events) + 1
      /\ events'[Len(events) + 1] = x /\ Len(events) + 1 \in 1 .. Len(events) + 1
      /\ \A i \in 1 .. Len(events) : events'[i] = events[i] /\ i \in 1 .. Len(events) + 1
      /\ \A i \in 1 .. Len(events) + 1 : i \in 1 .. Len(events) \/ i = Len(events) + 1
  BY QueueAppend
<1>3. /\ QueueOf(c)' <=> Item(events', as, c, told, opened)
      /\ BegunOf(c)' <=> BegunBy(events', as, c, told, Len(events) + 1)
      /\ OpenOf(c)' <=> UnclosedBy(events', as, c, told, opened, Len(events) + 1)
  BY <1>2 DEF QueueOf, BegunOf, OpenOf
<1>4. /\ Item(events, asked, c, told, opened)
      /\ BegunOf(c) <=> BegunBy(events, asked, c, told, Len(events))
      /\ OpenOf(c) <=> UnclosedBy(events, asked, c, told, opened, Len(events))
  BY DEF QueueOf, BegunOf, OpenOf
<1>5. /\ Starts(x, as, c) /\ ~Again(x, c) => ~BegunBy(events, as, c, told, Len(events))
      /\ Again(x, c) => UnclosedBy(events, as, c, told, opened, Len(events))
      /\ EndOf(x, c) => BegunBy(events, as, c, told, Len(events))
      /\ Requests(x, as, c) => BegunBy(events, as, c, told, Len(events)) \/ Starts(x, as, c)
  BY <1>1, <1>4
<1> HIDE DEF told, opened, as
<1>6. Item(events', as, c, told, opened)
  BY <1>1, <1>4, <1>5, ItemAppend
<1>7. /\ BegunBy(events', as, c, told, Len(events) + 1)
           <=> BegunBy(events, as, c, told, Len(events)) \/ Starts(x, as, c)
      /\ UnclosedBy(events, as, c, told, opened, Len(events))
         /\ (Closes(x, c) => ~BegunBy(events, as, c, told, Len(events)) /\ ~Starts(x, as, c))
           => UnclosedBy(events', as, c, told, opened, Len(events) + 1)
  BY BegunAppend
<1>8. AgainOf(c)' <=> AgainOf(c) \/ Again(x, c)
  BY <1>2 DEF AgainOf
<1>9. OpenOf(c) /\ (Closes(x, c) => ~BegunOf(c) /\ ~Starts(x, as, c)) => OpenOf(c)'
  BY <1>1, <1>3, <1>4, <1>7
<1> QED
  BY <1>1, <1>3, <1>4, <1>6, <1>7, <1>8, <1>9 DEF as

LEMMA HearItem ==
  ASSUME events \in Seq(Events), events # <<>>, events' = Tail(events), UNCHANGED asked, NEW c,
         QueueOf(c),
         toldItem'[c] # <<>> <=> toldItem[c] # <<>> \/ Starts(Head(events), asked, c),
         c \in open' => toldItem'[c] # <<>>,
         toldItem'[c] # <<>> /\ ~Closes(Head(events), c) /\ (toldItem[c] # <<>> => c \in open)
           => c \in open'
  PROVE  /\ QueueOf(c)' /\ (BegunOf(c)' <=> BegunOf(c)) /\ (OpenOf(c) => OpenOf(c)')
         /\ AgainOf(c)' => AgainOf(c)
<1> DEFINE told == toldItem[c] # <<>>
           opened == c \in open
           told1 == toldItem'[c] # <<>>
           opened1 == c \in open'
<1>1. /\ Len(events') = Len(events) - 1
      /\ \A i \in 1 .. Len(events) - 1 : events'[i] = events[i + 1] /\ i + 1 \in 1 .. Len(events)
  BY QueueTail
<1>2. /\ QueueOf(c)' <=> Item(Tail(events), asked, c, told1, opened1)
      /\ BegunOf(c)' <=> BegunBy(Tail(events), asked, c, told1, Len(Tail(events)))
      /\ OpenOf(c)' <=> UnclosedBy(Tail(events), asked, c, told1, opened1, Len(Tail(events)))
  BY DEF QueueOf, BegunOf, OpenOf
<1>3. /\ Item(events, asked, c, told, opened)
      /\ BegunOf(c) <=> BegunBy(events, asked, c, told, Len(events))
      /\ OpenOf(c) <=> UnclosedBy(events, asked, c, told, opened, Len(events))
  BY DEF QueueOf, BegunOf, OpenOf
<1>4. told1 <=> told \/ Starts(Head(events), asked, c)
  OBVIOUS
<1>5. opened1 => told1
  OBVIOUS
<1>6. told1 /\ ~Closes(Head(events), c) /\ (told => opened) => opened1
  OBVIOUS
<1> HIDE DEF told, opened, told1, opened1
<1>7. /\ Item(Tail(events), asked, c, told1, opened1)
      /\ BegunBy(Tail(events), asked, c, told1, Len(Tail(events)))
           <=> BegunBy(events, asked, c, told, Len(events))
      /\ UnclosedBy(events, asked, c, told, opened, Len(events))
           => UnclosedBy(Tail(events), asked, c, told1, opened1, Len(Tail(events)))
  BY <1>3, <1>4, <1>5, <1>6, ItemTail
<1>8. AgainOf(c)' => AgainOf(c)
  BY <1>1 DEF AgainOf
<1> QED
  BY <1>2, <1>3, <1>7, <1>8

LEMMA NoticeAppended ==
  ASSUME NEW s \in Seq(ItemNotices), NEW x \in ItemNotices, StartedFirst(s),
         x = "started" <=> s = <<>>
  PROVE  Append(s, x) \in Seq(ItemNotices) /\ Append(s, x) # <<>> /\ StartedFirst(Append(s, x))
<1>1. /\ Append(s, x) \in Seq(ItemNotices) /\ Len(s) \in Nat /\ Len(Append(s, x)) = Len(s) + 1
      /\ Append(s, x)[Len(s) + 1] = x /\ Len(s) + 1 \in 1 .. Len(s) + 1
      /\ \A i \in 1 .. Len(s) : Append(s, x)[i] = s[i] /\ i \in 1 .. Len(s) + 1 /\ i # Len(s) + 1
      /\ \A i \in 1 .. Len(s) + 1 : i \in 1 .. Len(s) \/ i = Len(s) + 1
  BY QueueAppend
<1>2. Append(s, x) # <<>>
  BY <1>1
<1>3. CASE s = <<>>
  <2>1. Len(s) = 0 /\ 0 + 1 = 1 /\ 1 .. 0 = {}
    BY <1>3
  <2>2. StartsOf(Append(s, x)) = {1}
    BY <1>1, <1>3, <2>1 DEF StartsOf
  <2> QED
    BY <1>1, <1>2, <2>2 DEF StartedFirst
<1>4. CASE s # <<>>
  <2>1. StartsOf(s) = {1} /\ x # "started"
    BY <1>4 DEF StartedFirst
  <2>2. StartsOf(Append(s, x)) = {1}
    BY <1>1, <2>1 DEF StartsOf
  <2> QED
    BY <1>1, <1>2, <2>2 DEF StartedFirst
<1> QED
  BY <1>3, <1>4

SameQueue(c) == QueueOf(c)' /\ (BegunOf(c)' <=> BegunOf(c)) /\ (AgainOf(c)' <=> AgainOf(c))

LEMMA QueueSame ==
  ASSUME NEW c, QueueOf(c), UNCHANGED <<events, asked, toldItem, open>>
  PROVE  SameQueue(c) /\ (OpenOf(c) => OpenOf(c)')
<1>1. events' = events /\ asked' = asked /\ toldItem' = toldItem /\ open' = open
  OBVIOUS
<1> QED
  BY <1>1 DEF SameQueue, QueueOf, BegunOf, AgainOf, OpenOf

\* What is said of an event by its first two parts.
LEMMA EventIs ==
  ASSUME NEW x, NEW as, NEW c
  PROVE  /\ x[1] \in {"error", "shutdown"} =>
              ~Starts(x, as, c) /\ ~Requests(x, as, c) /\ ~Again(x, c) /\ ~EndOf(x, c) /\ ~Closes(x, c)
         /\ x[1] \in {"complete", "aborted"} =>
              ~Starts(x, as, c) /\ ~Requests(x, as, c) /\ ~Again(x, c) /\ ~EndOf(x, c) /\ Closes(x, c)
         /\ x[1] = "end" =>
              /\ ~Starts(x, as, c) /\ ~Requests(x, as, c) /\ ~Again(x, c)
              /\ (EndOf(x, c) <=> x[2] = c) /\ (Closes(x, c) <=> x[2] = c)
         /\ x[1] = "begin" =>
              /\ ~Requests(x, as, c) /\ ~EndOf(x, c) /\ (Starts(x, as, c) <=> x[2] = c)
              /\ (Again(x, c) <=> x[2] = c /\ x[3] = "change")
              /\ (Closes(x, c) <=> x[2] = c /\ x[3] # "change")
         /\ x[1] = "ask" =>
              /\ ~Again(x, c) /\ ~EndOf(x, c) /\ ~Closes(x, c)
              /\ (Requests(x, as, c) <=> as[x[2]].call = c)
              /\ (Starts(x, as, c) <=> as[x[2]].call = c /\ as[x[2]].kind = "change")
BY DEF Starts, Requests, Again, EndOf, Closes, Ending

\* The item of another call, or of none, is left alone.
LEMMA QueueEmits ==
  ASSUME events \in Seq(Events), NEW x \in Events, events' = Append(events, x), NEW c,
         UNCHANGED <<asked, toldItem, open>>, QueueOf(c),
         ~Starts(x, asked, c), ~Requests(x, asked, c), ~Again(x, c), EndOf(x, c) => BegunOf(c)
  PROVE  SameQueue(c) /\ (~Closes(x, c) /\ OpenOf(c) => OpenOf(c)')
<1>1. asked' = asked
  OBVIOUS
<1>2. ~Starts(x, asked', c) /\ ~Requests(x, asked', c)
  BY <1>1
<1>3. /\ QueueOf(c)'
      /\ BegunOf(c)' <=> BegunOf(c) \/ Starts(x, asked', c)
      /\ OpenOf(c) /\ (Closes(x, c) => ~BegunOf(c) /\ ~Starts(x, asked', c)) => OpenOf(c)'
      /\ AgainOf(c)' <=> AgainOf(c) \/ Again(x, c)
  BY <1>1, <1>2, EmitItem
<1> QED
  BY <1>2, <1>3 DEF SameQueue

LEMMA PlainAppend ==
  ASSUME NEW q \in Seq(Events), NEW x \in Events, NEW as, NEW c, NEW told, NEW opened,
         Item(q, as, c, told, opened), x[1] \in {"complete", "aborted", "shutdown"}
  PROVE  /\ Append(q, x) \in Seq(Events) /\ Item(Append(q, x), as, c, told, opened)
         /\ BegunBy(Append(q, x), as, c, told, Len(Append(q, x))) <=> BegunBy(q, as, c, told, Len(q))
         /\ (\E i \in 1 .. Len(Append(q, x)) : Again(Append(q, x)[i], c))
              <=> \E i \in 1 .. Len(q) : Again(q[i], c)
<1>1. ~Starts(x, as, c) /\ ~Requests(x, as, c) /\ ~Again(x, c) /\ ~EndOf(x, c)
  BY EventIs
<1>2. Item(Append(q, x), as, c, told, opened)
  BY <1>1, ItemAppend
<1>3. BegunBy(Append(q, x), as, c, told, Len(q) + 1) <=> BegunBy(q, as, c, told, Len(q)) \/ Starts(x, as, c)
  BY BegunAppend
<1>4. /\ Append(q, x) \in Seq(Events) /\ Len(Append(q, x)) = Len(q) + 1 /\ Append(q, x)[Len(q) + 1] = x
      /\ \A i \in 1 .. Len(q) : Append(q, x)[i] = q[i] /\ i \in 1 .. Len(q) + 1
      /\ \A i \in 1 .. Len(q) + 1 : i \in 1 .. Len(q) \/ i = Len(q) + 1
  BY QueueAppend
<1> QED
  BY <1>1, <1>2, <1>3, <1>4

LEMMA Joined ==
  ASSUME NEW S, NEW q \in Seq(S), NEW x \in S
  PROVE  q \o <<>> = q /\ q \o <<x>> = Append(q, x) /\ Append(q, x) \in Seq(S)
OBVIOUS

LEMMA QueueStops ==
  ASSUME Typed, StopTurn(<<>>) \/ StopTurn(<<<<"shutdown", 0, "">>>>),
         UNCHANGED <<asked, toldItem, open>>, NEW c, QueueOf(c)
  PROVE  SameQueue(c)
<1> DEFINE s == <<"shutdown", 0, "">>
           a == <<"aborted", active, "">>
           told == toldItem[c] # <<>>
           opened == c \in open
           As(q) == /\ q \in Seq(Events) /\ Item(q, asked, c, told, opened)
                    /\ BegunBy(q, asked, c, told, Len(q)) <=> BegunOf(c)
                    /\ (\E i \in 1 .. Len(q) : Again(q[i], c)) <=> AgainOf(c)
<1>1. /\ s \in Events /\ s[1] = "shutdown" /\ a \in Events /\ a[1] = "aborted"
      /\ events \in Seq(Events)
  BY DEF Typed, Events
<1>2. As(events)
  BY <1>1 DEF QueueOf, BegunOf, AgainOf
<1>3. \/ events' = events \o <<>> \/ events' = events \o <<s>>
      \/ events' = events \o <<a>> \o <<>> \/ events' = events \o <<a>> \o <<s>>
  BY DEF StopTurn
<1>4. As(events') => SameQueue(c)
  BY DEF SameQueue, QueueOf, BegunOf, AgainOf
<1> HIDE DEF s, a, told, opened
<1>5. ASSUME NEW q, As(q), NEW x \in Events, x[1] \in {"complete", "aborted", "shutdown"}
      PROVE  As(Append(q, x))
  BY <1>5, PlainAppend
<1> HIDE DEF As
<1>6. \A q \in Seq(Events), x \in Events : q \o <<>> = q /\ q \o <<x>> = Append(q, x)
                                           /\ Append(q, x) \in Seq(Events)
  BY Joined
<1>7. As(Append(events, s)) /\ As(Append(events, a)) /\ As(Append(Append(events, a), s))
  BY <1>1, <1>2, <1>5
<1>8. \/ events' = events \/ events' = Append(events, s)
      \/ events' = Append(events, a) \/ events' = Append(Append(events, a), s)
  <2>1. events \o <<>> = events /\ events \o <<s>> = Append(events, s)
        /\ events \o <<a>> = Append(events, a) /\ Append(events, a) \in Seq(Events)
    BY <1>1, <1>6
  <2>2. Append(events, a) \o <<>> = Append(events, a)
        /\ Append(events, a) \o <<s>> = Append(Append(events, a), s)
    BY <1>1, <1>6, <2>1
  <2> QED
    BY <1>3, <2>1, <2>2
<1> QED
  BY <1>2, <1>4, <1>7, <1>8

\* An item that has not been started is not closed.
LEMMA NotBegunOpen ==
  ASSUME events \in Seq(Events), NEW c, ~BegunOf(c)
  PROVE  OpenOf(c) /\ ~AgainOf(c)
<1>1. \A j \in 1 .. Len(events) : \A i \in 1 .. j : i \in 1 .. Len(events)
  OBVIOUS
<1>2. \A j \in 1 .. Len(events) : ~Starts(events[j], asked, c)
  BY DEF BegunOf, BegunBy
<1>3. toldItem[c] = <<>>
  BY DEF BegunOf, BegunBy
<1>4. OpenOf(c)
  BY <1>1, <1>2, <1>3 DEF OpenOf, UnclosedBy, BegunBy
<1>5. ~AgainOf(c)
  BY <1>2 DEF AgainOf, Again, Starts
<1> QED
  BY <1>4, <1>5

\* An answer tells of an item, and may close it if no patch is to begin.
LEMMA TellItem ==
  ASSUME NEW c, QueueOf(c), UNCHANGED <<events, asked>>,
         toldItem'[c] # <<>> <=> toldItem[c] # <<>>,
         (c \in open' <=> c \in open) \/ (~(c \in open') /\ ~AgainOf(c))
  PROVE  SameQueue(c) /\ ((c \in open' <=> c \in open) => (OpenOf(c) => OpenOf(c)'))
<1>0. events' = events /\ asked' = asked
  OBVIOUS
<1> DEFINE told == toldItem[c] # <<>>
           opened == c \in open
           told1 == toldItem'[c] # <<>>
           opened1 == c \in open'
           B0(k) == BegunBy(events, asked, c, told, k)
           B1(k) == BegunBy(events, asked, c, told1, k)
           U0(k) == UnclosedBy(events, asked, c, told, opened, k)
           U1(k) == UnclosedBy(events, asked, c, told1, opened1, k)
<1>1. \A k : B1(k) <=> B0(k)
  BY DEF BegunBy
<1>2. (opened1 <=> opened) => \A k : U0(k) => U1(k)
  BY DEF UnclosedBy, BegunBy
<1>3. Item(events, asked, c, told1, opened1)
  <2>1. opened1 => told1
    BY DEF QueueOf, Item
  <2>2. ASSUME NEW i \in 1 .. Len(events)
        PROVE  /\ Starts(events[i], asked, c) /\ ~Again(events[i], c) => ~B1(i - 1)
               /\ Again(events[i], c) => U1(i - 1)
               /\ EndOf(events[i], c) => B1(i - 1)
               /\ Requests(events[i], asked, c) => B1(i)
    <3>1. /\ Starts(events[i], asked, c) /\ ~Again(events[i], c) => ~B0(i - 1)
          /\ Again(events[i], c) => U0(i - 1)
          /\ EndOf(events[i], c) => B0(i - 1)
          /\ Requests(events[i], asked, c) => B0(i)
      BY DEF QueueOf, Item
    <3>2. Again(events[i], c) => (opened1 <=> opened)
      BY DEF AgainOf
    <3> HIDE DEF B0, B1, U0, U1, opened, opened1
    <3> QED
      BY <1>1, <1>2, <3>1, <3>2
  <2> QED
    BY <2>1, <2>2 DEF Item
<1>4. QueueOf(c)' /\ (BegunOf(c)' <=> BegunOf(c)) /\ (AgainOf(c)' <=> AgainOf(c))
  BY <1>0, <1>1, <1>3 DEF QueueOf, BegunOf, AgainOf
<1>5. (opened1 <=> opened) => (OpenOf(c) => OpenOf(c)')
  BY <1>0, <1>2 DEF OpenOf
<1> QED
  BY <1>4, <1>5 DEF SameQueue

LEMMA EventTyped ==
  ASSUME NEW what \in {"ask", "begin", "end", "error", "complete", "aborted", "shutdown"},
         NEW n \in Nat, NEW how \in {"", "command", "change", "ran", "failed"},
         what = "ask" => how = ""
  PROVE  /\ <<what, n, how>> \in Events /\ <<what, n, how>>[1] = what
         /\ <<what, n, how>>[2] = n /\ <<what, n, how>>[3] = how
BY DEF Events

LEMMA Member ==
  ASSUME NEW S, NEW s \in Seq(S), NEW i \in 1 .. Len(s)
  PROVE  s[i] \in S
OBVIOUS

\* A step that leaves the calls alone.
LEMMA ItemRests ==
  ASSUME NEW c, ItemOf(c), SameQueue(c), OpenOf(c) => OpenOf(c)',
         UNCHANGED <<calls, call, asked, given, toldItem>>,
         \A n \in 1 .. Len(asked) : answer'[n] # "none" => answer[n] # "none"
  PROVE  ItemOf(c)'
<1>1. calls' = calls /\ call' = call /\ asked' = asked /\ given' = given /\ toldItem' = toldItem
  OBVIOUS
<1>2. Refused(c)' <=> Refused(c)
  BY <1>1 DEF Refused
<1>3. QueueOf(c)' /\ (BegunOf(c)' <=> BegunOf(c)) /\ (AgainOf(c)' <=> AgainOf(c))
  BY DEF SameQueue
<1>4. QueueOf(c)' /\ StartedFirst(toldItem[c])' /\ (calls' < c => ~BegunOf(c)')
  BY <1>1, <1>3 DEF ItemOf
<1>5. call'.id = c =>
        /\ call'.kind = "command" => call'.begun
        /\ call'.begun \/ call'.asks > 0 <=> BegunOf(c)'
        /\ call'.kind = "change" /\ ~call'.begun /\ ~Refused(c)' => OpenOf(c)'
  BY <1>1, <1>2, <1>3 DEF ItemOf
<1>6. \A n \in 1 .. Len(asked') : asked'[n].call = c =>
        /\ answer'[n] # "none" => toldItem'[c] # <<>>
        /\ asked'[n].kind = "change" /\ ((call'.id = c /\ call'.waits # n) \/ AgainOf(c)')
             => given'[n] = "accept"
  BY <1>1, <1>3 DEF ItemOf
<1> QED
  BY <1>4, <1>5, <1>6 DEF ItemOf

\* The call is over.
LEMMA ItemDone ==
  ASSUME NEW c, c # 0, ItemOf(c), SameQueue(c), call' = NoCall,
         UNCHANGED <<calls, asked, given, answer, toldItem>>
  PROVE  ItemOf(c)'
<1>1. calls' = calls /\ asked' = asked /\ given' = given /\ toldItem' = toldItem /\ answer' = answer
  OBVIOUS
<1>2. call'.id # c
  BY DEF NoCall
<1>3. QueueOf(c)' /\ (BegunOf(c)' <=> BegunOf(c)) /\ (AgainOf(c)' <=> AgainOf(c))
  BY DEF SameQueue
<1>4. QueueOf(c)' /\ StartedFirst(toldItem[c])' /\ (calls' < c => ~BegunOf(c)')
  BY <1>1, <1>3 DEF ItemOf
<1>6. \A n \in 1 .. Len(asked') : asked'[n].call = c =>
        /\ answer'[n] # "none" => toldItem'[c] # <<>>
        /\ asked'[n].kind = "change" /\ ((call'.id = c /\ call'.waits # n) \/ AgainOf(c)')
             => given'[n] = "accept"
  BY <1>1, <1>2, <1>3 DEF ItemOf
<1> QED
  BY <1>2, <1>4, <1>6 DEF ItemOf

LEMMA ItemCallStarts ==
  ASSUME Typed, ItemsTyped, NEW c \in Calls, ItemOf(c),
         NEW kind \in {"command", "change"}, CallStarts(kind)
  PROVE  ItemOf(c)'
<1>0. /\ c \in Nat /\ calls \in Nat /\ calls' = calls + 1 /\ call = NoCall
      /\ events \in Seq(Events)
      /\ UNCHANGED <<asked, given, answer, toldItem, open>>
  BY AppServerAssumption DEF Calls, CallStarts, Typed, summary, client
<1>1. /\ call'.id = calls + 1 /\ call'.kind = kind /\ call'.asks = 0
      /\ call'.begun <=> kind = "command"
  BY <1>0 DEF CallStarts, NoCall
<1>2. asked' = asked /\ given' = given /\ answer' = answer /\ toldItem' = toldItem /\ open' = open
  BY <1>0
<1>3. \A n \in 1 .. Len(asked) : asked[n].call \in Nat /\ asked[n].call # calls + 1
  <2> TAKE n \in 1 .. Len(asked)
  <2>1. asked[n].call \in Nat
    <3>1. asked \in Seq([turn : Nat, call : Nat, kind : {"command", "change"}])
      BY DEF Typed
    <3>2. asked[n] \in [turn : Nat, call : Nat, kind : {"command", "change"}]
      BY <3>1, Member
    <3> QED
      BY <3>2
  <2>2. asked[n].call <= calls
    BY DEF ItemsTyped
  <2> QED
    BY <1>0, <2>1, <2>2
<1>4. CASE c # calls + 1
  <2>1. calls' < c => calls < c
    BY <1>0
  <2>2. SameQueue(c)
    <3>1. CASE kind = "command"
      <4> DEFINE x == <<"begin", calls + 1, "command">>
      <4>0. events' = Append(events, x)
        <5>1. Emit(<<"begin", calls + 1, "command">>)
          BY <3>1 DEF CallStarts
        <5> QED
          BY <5>1 DEF Emit
      <4>01. x[1] = "begin" /\ x[2] # c
        BY <1>4
      <4>02. x \in Events
        <5>1. calls + 1 \in Nat
          BY <1>0
        <5> QED
          BY <5>1, EventTyped
      <4>1. events' = Append(events, x) /\ x \in Events /\ x[1] = "begin" /\ x[2] # c
        BY <4>0, <4>01, <4>02
      <4> HIDE DEF x
      <4>2. ~Starts(x, asked, c) /\ ~Requests(x, asked, c) /\ ~Again(x, c) /\ ~EndOf(x, c)
        BY <4>1, EventIs
      <4> QED
        BY <1>0, <4>1, <4>2, QueueEmits DEF ItemOf
    <3>2. CASE kind # "command"
      <4>1. events' = events
        BY <3>2 DEF CallStarts
      <4> QED
        BY <1>0, <4>1, QueueSame DEF ItemOf
    <3> QED
      BY <3>1, <3>2
  <2>3. QueueOf(c)' /\ (BegunOf(c)' <=> BegunOf(c)) /\ (AgainOf(c)' <=> AgainOf(c))
    BY <2>2 DEF SameQueue
  <2>4. QueueOf(c)' /\ StartedFirst(toldItem[c])' /\ (calls' < c => ~BegunOf(c)')
    BY <1>2, <2>1, <2>3 DEF ItemOf
  <2>5. call'.id # c
    BY <1>1, <1>4
  <2>6. \A n \in 1 .. Len(asked') : asked'[n].call = c =>
          /\ answer'[n] # "none" => toldItem'[c] # <<>>
          /\ asked'[n].kind = "change" /\ ((call'.id = c /\ call'.waits # n) \/ AgainOf(c)')
               => given'[n] = "accept"
    BY <1>2, <2>3, <2>5 DEF ItemOf
  <2> QED
    BY <2>4, <2>5, <2>6 DEF ItemOf
<1>5. CASE c = calls + 1
  <2>1. calls < c /\ ~(calls' < c)
    BY <1>0, <1>5
  <2>2. ~BegunOf(c) /\ QueueOf(c) /\ StartedFirst(toldItem[c])
    BY <2>1 DEF ItemOf
  <2>3. QueueOf(c)' /\ (BegunOf(c)' <=> kind = "command") /\ (kind # "command" => OpenOf(c)')
    <3>1. CASE kind = "command"
      <4> DEFINE x == <<"begin", calls + 1, "command">>
      <4>0. events' = Append(events, x)
        <5>1. Emit(<<"begin", calls + 1, "command">>)
          BY <3>1 DEF CallStarts
        <5> QED
          BY <5>1 DEF Emit
      <4>1. events' = Append(events, x) /\ x \in Events
            /\ x[1] = "begin" /\ x[2] = c /\ x[3] # "change"
        BY <1>0, <1>5, <4>0 DEF Events
      <4> HIDE DEF x
      <4>2. Starts(x, asked', c) /\ ~Requests(x, asked', c) /\ ~Again(x, c) /\ ~EndOf(x, c)
        BY <4>1, EventIs
      <4>3. QueueOf(c)' /\ (BegunOf(c)' <=> BegunOf(c) \/ Starts(x, asked', c))
        BY <1>0, <1>2, <2>2, <4>1, <4>2, EmitItem
      <4> QED
        BY <3>1, <4>2, <4>3
    <3>2. CASE kind # "command"
      <4>1. events' = events
        BY <3>2 DEF CallStarts
      <4>2. SameQueue(c) /\ (OpenOf(c) => OpenOf(c)')
        BY <1>0, <2>2, <4>1, QueueSame
      <4>3. OpenOf(c)
        BY <1>0, <2>2, NotBegunOpen
      <4> QED
        BY <2>2, <3>2, <4>2, <4>3 DEF SameQueue
    <3> QED
      BY <3>1, <3>2
  <2>4. call'.id = c =>
          /\ call'.kind = "command" => call'.begun
          /\ call'.begun \/ call'.asks > 0 <=> BegunOf(c)'
          /\ call'.kind = "change" /\ ~call'.begun /\ ~Refused(c)' => OpenOf(c)'
    <3>1. ~(call'.asks > 0)
      BY <1>1
    <3> QED
      BY <1>1, <2>3, <3>1
  <2>5. \A n \in 1 .. Len(asked') : asked'[n].call # c
    BY <1>2, <1>3, <1>5
  <2> QED
    BY <1>2, <2>1, <2>2, <2>3, <2>4, <2>5 DEF ItemOf
<1> QED
  BY <1>4, <1>5

LEMMA RequestIs ==
  ASSUME Typed, AskApproval
  PROVE  asked'[Len(asked) + 1] = [turn |-> active, call |-> call.id,
                                   kind |-> IF call.begun THEN "command" ELSE "change"]
<1> DEFINE R == [turn : Nat, call : Nat, kind : {"command", "change"}]
           x == [turn |-> active, call |-> call.id,
                 kind |-> IF call.begun THEN "command" ELSE "change"]
<1>1. x \in R
  BY DEF Typed
<1>2. asked' = Append(asked, x) /\ asked \in Seq(R)
  BY DEF AskApproval, Typed
<1> HIDE DEF x, R
<1>3. Append(asked, x)[Len(asked) + 1] = x
  BY <1>1, <1>2, QueueAppend
<1> QED
  BY <1>2, <1>3 DEF x

\* What is queued was asked before.
LEMMA QueuedAsked ==
  ASSUME Typed, AnswerInv, NEW i \in 1 .. Len(events), events[i][1] = "ask"
  PROVE  events[i][2] \in 1 .. Len(asked)
<1>1. events[i] \in Events
  <2>1. events \in Seq(Events)
    BY DEF Typed
  <2> QED
    BY <2>1, Member
<1>2. events[i] = <<"ask", events[i][2], "">> /\ events[i][2] \in Nat
  BY <1>1 DEF Events
<1>3. PICK n \in Nat : n = events[i][2] /\ events[i] = <<"ask", n, "">>
  BY <1>2
<1>4. Pending(n)
  BY <1>3 DEF Pending, Occurs
<1> QED
  BY <1>3, <1>4 DEF AnswerInv, AnswerOf

LEMMA ItemAsks ==
  ASSUME Typed, AnswerInv, ItemsTyped, NEW c \in Calls, ItemOf(c), AskApproval
  PROVE  ItemOf(c)'
<1> DEFINE m == Len(asked) + 1
           x == <<"ask", m, "">>
<1>1. /\ Len(asked) \in Nat /\ Len(asked') = m /\ m \in Asks /\ m > Len(asked) /\ m \in Nat
      /\ \A n \in 1 .. Len(asked) : asked'[n] = asked[n] /\ n # m /\ n \in 1 .. Len(asked')
      /\ \A n \in 1 .. Len(asked') : n \in 1 .. Len(asked) \/ n = m
      /\ m \in 1 .. Len(asked') /\ \A n \in 1 .. Len(asked) : n # 0
  <2>1. Len(asked) \in Nat /\ Len(asked') = Len(asked) + 1 /\ Len(asked') <= MaxAsks
        /\ \A n \in 1 .. Len(asked) : asked'[n] = asked[n]
    BY AskedIs
  <2>2. MaxAsks \in Nat /\ Asks = 1 .. MaxAsks
    BY AppServerAssumption DEF Asks
  <2> QED
    BY <2>1, <2>2
<1>2. /\ asked'[m].call = call.id
      /\ asked'[m].kind = IF call.begun THEN "command" ELSE "change"
  BY RequestIs
<1>3. events' = Append(events, x)
  <2>1. Emit(<<"ask", Len(asked'), "">>)
    BY DEF AskApproval
  <2> QED
    BY <1>1, <2>1 DEF Emit
<1>4. x \in Events /\ x[1] = "ask" /\ x[2] = m
  BY <1>1, EventTyped
<1>5. /\ call.waits = 0 /\ (call.asks = 0 \/ (call.asks = 1 /\ call.begun))
      /\ call' = [call EXCEPT !.waits = Len(asked'), !.asks = @ + 1]
      /\ calls' = calls /\ UNCHANGED summary /\ answer' = answer /\ UNCHANGED client
  BY DEF AskApproval
<1>6. open' = open /\ given' = given /\ toldItem' = toldItem
  BY <1>5 DEF summary, client
<1>7. /\ call'.id = call.id /\ call'.kind = call.kind /\ (call'.begun <=> call.begun)
      /\ call'.waits = m /\ call'.asks > 0
  <2>1. /\ call \in [id : Nat, kind : {"none", "command", "change"}, begun : BOOLEAN,
                     waits : Nat, asks : Nat]
    BY DEF Typed
  <2>2. call.asks + 1 > 0
    BY <2>1
  <2> QED
    BY <1>1, <1>5, <2>1, <2>2
<1>8. events \in Seq(Events)
  BY DEF Typed
<1>9. \A i \in 1 .. Len(events) : events[i][1] = "ask" => asked'[events[i][2]] = asked[events[i][2]]
  BY <1>1, QueuedAsked
<1>10. answer[m] = "none"
  <2>1. AnswerOf(m)
    BY <1>1 DEF AnswerInv
  <2> QED
    BY <1>1, <2>1 DEF AnswerOf
<1> HIDE DEF m, x
<1>11. /\ ~Again(x, c) /\ ~EndOf(x, c) /\ ~Closes(x, c)
       /\ Requests(x, asked', c) <=> call.id = c
       /\ Starts(x, asked', c) <=> call.id = c /\ ~call.begun
  <2>1. /\ ~Again(x, c) /\ ~EndOf(x, c) /\ ~Closes(x, c)
        /\ Requests(x, asked', c) <=> asked'[x[2]].call = c
        /\ Starts(x, asked', c) <=> asked'[x[2]].call = c /\ asked'[x[2]].kind = "change"
    BY <1>4, EventIs
  <2> QED
    BY <1>2, <1>4, <2>1
<1>12. call.id = c => (call.begun <=> BegunOf(c))
  <2>1. call.id = c => (call.begun \/ call.asks > 0 <=> BegunOf(c))
    BY DEF ItemOf
  <2>2. call.asks = 0 => ~(call.asks > 0)
    BY DEF Typed
  <2> QED
    BY <1>5, <2>1, <2>2
<1>13. /\ QueueOf(c)'
       /\ BegunOf(c)' <=> BegunOf(c) \/ Starts(x, asked', c)
       /\ OpenOf(c) /\ (Closes(x, c) => ~BegunOf(c) /\ ~Starts(x, asked', c)) => OpenOf(c)'
       /\ AgainOf(c)' <=> AgainOf(c) \/ Again(x, c)
  <2>1. QueueOf(c) /\ UNCHANGED <<toldItem, open>>
    BY <1>6 DEF ItemOf
  <2>2. /\ Starts(x, asked', c) /\ ~Again(x, c) => ~BegunOf(c)
        /\ Again(x, c) => OpenOf(c)
        /\ EndOf(x, c) => BegunOf(c)
        /\ Requests(x, asked', c) => BegunOf(c) \/ Starts(x, asked', c)
    BY <1>11, <1>12
  <2> QED
    BY <1>3, <1>4, <1>8, <1>9, <2>1, <2>2, EmitItem
<1>14. Refused(c) => Refused(c)'
  BY <1>1, <1>6 DEF Refused
<1>15. QueueOf(c)' /\ StartedFirst(toldItem[c])' /\ (calls' < c => ~BegunOf(c)')
  <2>1. calls < c => call.id # c
    <3>1. call.id <= calls /\ calls \in Nat /\ call.id \in Nat /\ c \in Nat
      BY AppServerAssumption DEF ItemsTyped, Typed, Calls
    <3> QED
      BY <3>1
  <2>2. StartedFirst(toldItem[c]) /\ (calls < c => ~BegunOf(c))
    BY DEF ItemOf
  <2> QED
    BY <1>5, <1>6, <1>11, <1>13, <2>1, <2>2
<1>16. call'.id = c =>
         /\ call'.kind = "command" => call'.begun
         /\ call'.begun \/ call'.asks > 0 <=> BegunOf(c)'
         /\ call'.kind = "change" /\ ~call'.begun /\ ~Refused(c)' => OpenOf(c)'
  <2> HAVE call'.id = c
  <2>1. call.id = c
    BY <1>7
  <2>2. BegunOf(c)'
    BY <1>11, <1>12, <1>13, <2>1
  <2>3. call.kind = "command" => call.begun
    BY <2>1 DEF ItemOf
  <2>4. call.kind = "change" /\ ~call.begun /\ ~Refused(c) => OpenOf(c)
    BY <2>1 DEF ItemOf
  <2> QED
    BY <1>7, <1>11, <1>13, <1>14, <2>2, <2>3, <2>4
<1>17. ASSUME NEW n \in 1 .. Len(asked'), asked'[n].call = c
       PROVE  /\ answer'[n] # "none" => toldItem'[c] # <<>>
              /\ asked'[n].kind = "change" /\ ((call'.id = c /\ call'.waits # n) \/ AgainOf(c)')
                   => given'[n] = "accept"
  <2>1. CASE n \in 1 .. Len(asked)
    <3>1. /\ answer[n] # "none" => toldItem[c] # <<>>
          /\ asked[n].kind = "change" /\ ((call.id = c /\ call.waits # n) \/ AgainOf(c))
               => given[n] = "accept"
      BY <1>1, <1>17, <2>1 DEF ItemOf
    <3> QED
      BY <1>1, <1>5, <1>6, <1>7, <1>11, <1>13, <2>1, <3>1
  <2>2. CASE n = m
    <3>1. call.id = c
      BY <1>2, <1>17, <2>2
    <3>2. asked'[n].kind = "change" => ~AgainOf(c)'
      <4>1. asked'[n].kind = "change" => ~BegunOf(c)
        BY <1>2, <1>12, <2>2, <3>1
      <4> QED
        BY <1>8, <1>11, <1>13, <4>1, NotBegunOpen
    <3> QED
      BY <1>5, <1>7, <1>10, <2>2, <3>2
  <2> QED
    BY <1>1, <2>1, <2>2
<1> QED
  BY <1>15, <1>16, <1>17 DEF ItemOf

LEMMA ItemPatchBegins ==
  ASSUME Typed, ItemsTyped, NEW c \in Calls, ItemOf(c), PatchBegins
  PROVE  ItemOf(c)'
<1> DEFINE x == <<"begin", call.id, "change">>
<1>1. x \in Events /\ x[1] = "begin" /\ x[2] = call.id /\ x[3] = "change"
  <2>1. call.id \in Nat
    BY DEF Typed
  <2> QED
    BY <2>1, EventTyped
<1>2. events' = Append(events, x) /\ events \in Seq(Events)
  BY DEF PatchBegins, Emit, Typed
<1>3. /\ call.kind = "change" /\ ~call.begun /\ call.waits = 0
      /\ call' = [call EXCEPT !.begun = TRUE] /\ UNCHANGED <<calls, asked, answer>>
      /\ UNCHANGED summary /\ UNCHANGED client
  BY DEF PatchBegins
<1>4. open' = open /\ given' = given /\ toldItem' = toldItem /\ calls' = calls
      /\ asked' = asked /\ answer' = answer
  BY <1>3 DEF summary, client
<1>5. call'.id = call.id /\ call'.kind = call.kind /\ call'.begun /\ call'.waits = call.waits
  BY <1>3 DEF Typed
<1> HIDE DEF x
<1>6. /\ ~Requests(x, asked', c) /\ ~EndOf(x, c) /\ (Starts(x, asked', c) <=> call.id = c)
      /\ (Again(x, c) <=> call.id = c) /\ ~Closes(x, c)
  BY <1>1, EventIs
<1>7. \A n \in 1 .. Len(asked) : n # 0
  BY DEF Typed
<1>8. call.id = c => OpenOf(c)
  <2> HAVE call.id = c
  <2>1. ~Refused(c)
    BY <1>3, <1>7 DEF ItemOf, Refused
  <2> QED
    BY <1>3, <2>1 DEF ItemOf
<1>9. /\ QueueOf(c)'
      /\ BegunOf(c)' <=> BegunOf(c) \/ Starts(x, asked', c)
      /\ AgainOf(c)' <=> AgainOf(c) \/ Again(x, c)
  <2>1. QueueOf(c) /\ UNCHANGED <<toldItem, open>>
    BY <1>4 DEF ItemOf
  <2>2. /\ Starts(x, asked', c) /\ ~Again(x, c) => ~BegunOf(c)
        /\ Again(x, c) => OpenOf(c)
        /\ EndOf(x, c) => BegunOf(c)
        /\ Requests(x, asked', c) => BegunOf(c) \/ Starts(x, asked', c)
    BY <1>6, <1>8
  <2>3. \A i \in 1 .. Len(events) : events[i][1] = "ask" => asked'[events[i][2]] = asked[events[i][2]]
    BY <1>4
  <2> QED
    BY <1>1, <1>2, <2>1, <2>2, <2>3, EmitItem
<1>10. QueueOf(c)' /\ StartedFirst(toldItem[c])' /\ (calls' < c => ~BegunOf(c)')
  <2>1. calls < c => call.id # c
    <3>1. call.id <= calls /\ calls \in Nat /\ call.id \in Nat /\ c \in Nat
      BY AppServerAssumption DEF ItemsTyped, Typed, Calls
    <3> QED
      BY <3>1
  <2>2. StartedFirst(toldItem[c]) /\ (calls < c => ~BegunOf(c))
    BY DEF ItemOf
  <2> QED
    BY <1>4, <1>6, <1>9, <2>1, <2>2
<1>11. call'.id = c =>
         /\ call'.kind = "command" => call'.begun
         /\ call'.begun \/ call'.asks > 0 <=> BegunOf(c)'
         /\ call'.kind = "change" /\ ~call'.begun /\ ~Refused(c)' => OpenOf(c)'
  BY <1>5, <1>6, <1>9
<1>12. ASSUME NEW n \in 1 .. Len(asked'), asked'[n].call = c
       PROVE  /\ answer'[n] # "none" => toldItem'[c] # <<>>
              /\ asked'[n].kind = "change" /\ ((call'.id = c /\ call'.waits # n) \/ AgainOf(c)')
                   => given'[n] = "accept"
  <2>1. /\ answer[n] # "none" => toldItem[c] # <<>>
        /\ asked[n].kind = "change" /\ ((call.id = c /\ call.waits # n) \/ AgainOf(c))
             => given[n] = "accept"
    BY <1>4, <1>12 DEF ItemOf
  <2>2. n # 0
    BY <1>4, <1>7
  <2> QED
    BY <1>3, <1>4, <1>5, <1>6, <1>9, <2>1, <2>2
<1> QED
  BY <1>10, <1>11, <1>12 DEF ItemOf

LEMMA ItemAccepted ==
  ASSUME Typed, AnswerInv, SettledInv, NEW c, ItemOf(c), ServeDecision,
         asked[Op[2]].turn = active, given[Op[2]] = "accept", call.waits # 0, Decide(TRUE)
  PROVE  ItemOf(c)'
<1>1. /\ call' = [call EXCEPT !.waits = 0] /\ events' = events
      /\ calls' = calls /\ asked' = asked /\ answer' = answer
      /\ UNCHANGED summary /\ UNCHANGED client
  BY DEF Decide, ServeDecision
<1>2. open' = open /\ given' = given /\ toldItem' = toldItem
  BY <1>1 DEF summary, client
<1>3. /\ call'.id = call.id /\ call'.kind = call.kind /\ call'.begun = call.begun
      /\ call'.asks = call.asks /\ call'.waits = 0
  BY <1>1 DEF Typed
<1>4. given[call.waits] = "accept"
  BY ServedIsAwaited
<1>5. QueueOf(c)' /\ (BegunOf(c)' <=> BegunOf(c)) /\ (AgainOf(c)' <=> AgainOf(c))
      /\ (OpenOf(c) => OpenOf(c)')
  <2>1. QueueOf(c)
    BY DEF ItemOf
  <2> QED
    BY <1>1, <1>2, <2>1, QueueSame DEF SameQueue
<1>6. Refused(c)' <=> Refused(c)
  BY <1>1, <1>2 DEF Refused
<1>7. QueueOf(c)' /\ StartedFirst(toldItem[c])' /\ (calls' < c => ~BegunOf(c)')
  BY <1>1, <1>2, <1>5 DEF ItemOf
<1>8. call'.id = c =>
        /\ call'.kind = "command" => call'.begun
        /\ call'.begun \/ call'.asks > 0 <=> BegunOf(c)'
        /\ call'.kind = "change" /\ ~call'.begun /\ ~Refused(c)' => OpenOf(c)'
  BY <1>3, <1>5, <1>6 DEF ItemOf
<1>9. \A n \in 1 .. Len(asked') : asked'[n].call = c =>
        /\ answer'[n] # "none" => toldItem'[c] # <<>>
        /\ asked'[n].kind = "change" /\ ((call'.id = c /\ call'.waits # n) \/ AgainOf(c)')
             => given'[n] = "accept"
  BY <1>1, <1>2, <1>3, <1>4, <1>5 DEF ItemOf
<1> QED
  BY <1>7, <1>8, <1>9 DEF ItemOf

LEMMA ItemAnswered ==
  ASSUME Typed, ItemsTyped, NEW c, ItemOf(c),
         NEW m \in Asks, NEW d \in Decisions, Answer(m, d)
  PROVE  ItemOf(c)'
<1>1. /\ answer[m] = "waiting" /\ answer' = [answer EXCEPT ![m] = "got"]
      /\ given' = [given EXCEPT ![m] = d] /\ UNCHANGED session /\ UNCHANGED summary
      /\ toldItem' = toldItem
  BY DEF Answer
<1>2. /\ calls' = calls /\ asked' = asked /\ call' = call /\ events' = events /\ open' = open
  BY <1>1 DEF session, summary
<1>3. given[m] = "none" /\ given \in [Asks -> Decisions \union {"none"}]
  BY <1>1 DEF ItemsTyped, Typed
<1>4. \A n : n # m => given'[n] = given[n]
  BY <1>1, <1>3
<1>5. QueueOf(c)' /\ (BegunOf(c)' <=> BegunOf(c)) /\ (AgainOf(c)' <=> AgainOf(c))
      /\ (OpenOf(c) => OpenOf(c)')
  <2>1. QueueOf(c)
    BY DEF ItemOf
  <2> QED
    BY <1>1, <1>2, <2>1, QueueSame DEF SameQueue
<1>6. Refused(c) => Refused(c)'
  BY <1>2, <1>3, <1>4 DEF Refused
<1>7. QueueOf(c)' /\ StartedFirst(toldItem[c])' /\ (calls' < c => ~BegunOf(c)')
  BY <1>1, <1>2, <1>5 DEF ItemOf
<1>8. call'.id = c =>
        /\ call'.kind = "command" => call'.begun
        /\ call'.begun \/ call'.asks > 0 <=> BegunOf(c)'
        /\ call'.kind = "change" /\ ~call'.begun /\ ~Refused(c)' => OpenOf(c)'
  BY <1>2, <1>5, <1>6 DEF ItemOf
<1>9. ASSUME NEW n \in 1 .. Len(asked'), asked'[n].call = c
      PROVE  /\ answer'[n] # "none" => toldItem'[c] # <<>>
             /\ asked'[n].kind = "change" /\ ((call'.id = c /\ call'.waits # n) \/ AgainOf(c)')
                  => given'[n] = "accept"
  <2>1. /\ answer[n] # "none" => toldItem[c] # <<>>
        /\ asked[n].kind = "change" /\ ((call.id = c /\ call.waits # n) \/ AgainOf(c))
             => given[n] = "accept"
    BY <1>2, <1>9 DEF ItemOf
  <2>2. CASE n = m
    BY <1>1, <1>2, <1>3, <1>5, <2>1, <2>2
  <2>3. CASE n # m
    <3>1. answer'[n] = answer[n] /\ given'[n] = given[n]
      <4>1. answer \in [Asks -> AnswerStates]
        BY DEF Typed
      <4> QED
        BY <1>1, <1>4, <2>3, <4>1
    <3> QED
      BY <1>1, <1>2, <1>5, <2>1, <3>1
  <2> QED
    BY <2>2, <2>3
<1> QED
  BY <1>7, <1>8, <1>9 DEF ItemOf

\* An event is heard.
LEMMA ItemHears ==
  ASSUME Typed, NEW c, ItemOf(c), events # <<>>, events' = Tail(events),
         UNCHANGED <<calls, call, asked, given>>,
         toldItem'[c] # <<>> <=> toldItem[c] # <<>> \/ Starts(Head(events), asked, c),
         c \in open' => toldItem'[c] # <<>>,
         toldItem'[c] # <<>> /\ ~Closes(Head(events), c) /\ (toldItem[c] # <<>> => c \in open)
           => c \in open',
         StartedFirst(toldItem'[c]),
         \A n \in 1 .. Len(asked) : asked[n].call = c =>
            (answer'[n] # "none" => answer[n] # "none" \/ toldItem'[c] # <<>>)
  PROVE  ItemOf(c)'
<1>1. calls' = calls /\ asked' = asked /\ call' = call /\ given' = given
  OBVIOUS
<1>2. QueueOf(c)' /\ (BegunOf(c)' <=> BegunOf(c)) /\ (OpenOf(c) => OpenOf(c)')
      /\ (AgainOf(c)' => AgainOf(c))
  <2>1. QueueOf(c) /\ events \in Seq(Events)
    BY DEF ItemOf, Typed
  <2> QED
    BY <2>1, HearItem
<1>3. Refused(c)' <=> Refused(c)
  BY <1>1 DEF Refused
<1>4. QueueOf(c)' /\ StartedFirst(toldItem[c])' /\ (calls' < c => ~BegunOf(c)')
  BY <1>1, <1>2 DEF ItemOf
<1>5. call'.id = c =>
        /\ call'.kind = "command" => call'.begun
        /\ call'.begun \/ call'.asks > 0 <=> BegunOf(c)'
        /\ call'.kind = "change" /\ ~call'.begun /\ ~Refused(c)' => OpenOf(c)'
  BY <1>1, <1>2, <1>3 DEF ItemOf
<1>6. ASSUME NEW n \in 1 .. Len(asked'), asked'[n].call = c
      PROVE  /\ answer'[n] # "none" => toldItem'[c] # <<>>
             /\ asked'[n].kind = "change" /\ ((call'.id = c /\ call'.waits # n) \/ AgainOf(c)')
                  => given'[n] = "accept"
  <2>1. /\ answer[n] # "none" => toldItem[c] # <<>>
        /\ asked[n].kind = "change" /\ ((call.id = c /\ call.waits # n) \/ AgainOf(c))
             => given[n] = "accept"
    BY <1>1, <1>6 DEF ItemOf
  <2> QED
    BY <1>1, <1>2, <1>6, <2>1
<1> QED
  BY <1>4, <1>5, <1>6 DEF ItemOf

LEMMA Noticed ==
  ASSUME NEW told \in [Calls -> Seq(ItemNotices)], NEW c \in Calls, StartedFirst(told[c]),
         NEW x \in ItemNotices, NEW b, b = c => (x = "started" <=> told[c] = <<>>)
  PROVE  /\ StartedFirst(Tell(told, b, x)[c])
         /\ b = c => Tell(told, b, x)[c] # <<>>
         /\ b # c => Tell(told, b, x)[c] = told[c]
<1>1. CASE b = c
  <2>1. Tell(told, b, x)[c] = Append(told[c], x)
    BY <1>1 DEF Tell
  <2>2. told[c] \in Seq(ItemNotices)
    OBVIOUS
  <2> QED
    BY <1>1, <2>1, <2>2, NoticeAppended
<1>2. CASE b # c
  BY <1>2 DEF Tell
<1> QED
  BY <1>1, <1>2

LEMMA ItemHeard ==
  ASSUME Typed, ItemsTyped, NEW c \in Calls, ItemOf(c), Listen
  PROVE  ItemOf(c)'
<1> DEFINE e == Head(events)
           Effect == /\ toldItem'[c] # <<>> <=> toldItem[c] # <<>> \/ Starts(e, asked, c)
                     /\ c \in open' => toldItem'[c] # <<>>
                     /\ toldItem'[c] # <<>> /\ ~Closes(e, c) /\ (toldItem[c] # <<>> => c \in open)
                          => c \in open'
                     /\ StartedFirst(toldItem'[c])
<1>1. /\ events # <<>> /\ events' = Tail(events) /\ events \in Seq(Events)
      /\ UNCHANGED <<calls, call, asked, given>>
  <2>1. events \in Seq(Events)
    BY DEF Typed
  <2>2. events # <<>> /\ events' = Tail(events)
    BY DEF Listen, HearBegin, HearAsk, HearEnd, HearError, HearComplete, HearAborted, HearShutdown,
           Heard
  <2>3. UNCHANGED <<calls, call, asked, given>>
    BY DEF Listen, HearBegin, HearAsk, HearEnd, HearError, HearComplete, HearAborted, HearShutdown,
           client
  <2> QED
    BY <2>1, <2>2, <2>3
<1>2. e \in Events
  BY <1>1, QueueTail
<1>3. /\ c \in open => toldItem[c] # <<>>
      /\ Starts(e, asked, c) /\ ~Again(e, c) => toldItem[c] = <<>>
      /\ Again(e, c) => (toldItem[c] # <<>> => c \in open)
      /\ EndOf(e, c) => toldItem[c] # <<>>
      /\ Requests(e, asked, c) => toldItem[c] # <<>> \/ Starts(e, asked, c)
  <2>1. Item(events, asked, c, toldItem[c] # <<>>, c \in open)
    BY DEF ItemOf, QueueOf
  <2>2. c \in open => toldItem[c] # <<>>
    BY <2>1 DEF Item
  <2>3. /\ Starts(e, asked, c) /\ ~Again(e, c) => ~(toldItem[c] # <<>>)
        /\ Again(e, c) => (toldItem[c] # <<>> => c \in open)
        /\ EndOf(e, c) => toldItem[c] # <<>>
        /\ Requests(e, asked, c) => toldItem[c] # <<>> \/ Starts(e, asked, c)
    <3> DEFINE told == toldItem[c] # <<>>
               opened == c \in open
    <3>1. Item(events, asked, c, told, opened)
      BY <2>1
    <3> HIDE DEF told, opened
    <3>2. /\ Starts(e, asked, c) /\ ~Again(e, c) => ~told
          /\ Again(e, c) => (told => opened)
          /\ EndOf(e, c) => told
          /\ Requests(e, asked, c) => told \/ Starts(e, asked, c)
      BY <1>1, <3>1, ItemHead
    <3> QED
      BY <3>2 DEF told, opened
  <2> QED
    BY <2>2, <2>3
<1>4. toldItem \in [Calls -> Seq(ItemNotices)] /\ StartedFirst(toldItem[c])
  <2>1. toldItem \in [Calls -> Seq(ItemNotices)]
    BY DEF ItemsTyped
  <2>2. StartedFirst(toldItem[c])
    BY DEF ItemOf
  <2> QED
    BY <2>1, <2>2
<1>5. "started" \in ItemNotices
  BY DEF ItemNotices
<1> HIDE DEF e
<1>6. ASSUME UNCHANGED toldItem, UNCHANGED open, ~Starts(e, asked, c) PROVE Effect
  BY <1>3, <1>4, <1>6
<1>7. ASSUME NEW b, FirstStart(b), b = c => Starts(e, asked, c) /\ ~Closes(e, c),
             b # c => ~Starts(e, asked, c)
      PROVE  Effect
  <2>1. open' = open \union {b}
    BY <1>7 DEF FirstStart
  <2>2. CASE b \in open
    <3>1. toldItem' = toldItem
      BY <1>7, <2>2 DEF FirstStart
    <3> QED
      BY <1>3, <1>4, <1>7, <2>1, <2>2, <3>1
  <2>3. CASE b \notin open
    <3>1. toldItem' = Tell(toldItem, b, "started")
      BY <1>7, <2>3 DEF FirstStart
    <3>2. b = c => toldItem[c] = <<>>
      BY <1>3, <1>7, <2>3
    <3>3. /\ StartedFirst(toldItem'[c])
          /\ b = c => toldItem'[c] # <<>>
          /\ b # c => toldItem'[c] = toldItem[c]
      BY <1>4, <1>5, <3>1, <3>2, Noticed
    <3> QED
      BY <1>3, <1>7, <2>1, <3>3
  <2> QED
    BY <2>2, <2>3
<1>8. ASSUME HearBegin PROVE Effect
  <2>1. e[1] = "begin"
    BY <1>8 DEF HearBegin, Heard, Is, Event, e
  <2>2. /\ Starts(e, asked, c) <=> e[2] = c
        /\ Again(e, c) <=> e[2] = c /\ e[3] = "change"
        /\ Closes(e, c) <=> e[2] = c /\ e[3] # "change"
    BY <2>1, EventIs
  <2>3. CASE e[3] = "change"
    <3>1. FirstStart(e[2])
      BY <1>8, <2>3 DEF HearBegin, Event, e
    <3> QED
      BY <1>7, <2>2, <2>3, <3>1
  <2>4. CASE e[3] # "change"
    <3>1. toldItem' = Tell(toldItem, e[2], "started") /\ open' = open
      BY <1>8, <2>4 DEF HearBegin, Event, e
    <3>2. e[2] = c => toldItem[c] = <<>>
      BY <1>3, <2>2, <2>4
    <3>3. /\ StartedFirst(toldItem'[c])
          /\ e[2] = c => toldItem'[c] # <<>>
          /\ e[2] # c => toldItem'[c] = toldItem[c]
      BY <1>4, <1>5, <3>1, <3>2, Noticed
    <3> QED
      BY <1>3, <2>2, <2>4, <3>1, <3>3
  <2> QED
    BY <2>3, <2>4
<1>9. ASSUME HearAsk PROVE Effect
  <2>1. e[1] = "ask"
    BY <1>9 DEF HearAsk, Heard, Is, Event, e
  <2>2. /\ Starts(e, asked, c) <=> asked[e[2]].call = c /\ asked[e[2]].kind = "change"
        /\ ~Closes(e, c)
    BY <2>1, EventIs
  <2>3. CASE asked[e[2]].kind = "change"
    <3>1. FirstStart(asked[e[2]].call)
      BY <1>9, <2>3 DEF HearAsk, Event, e
    <3> QED
      BY <1>7, <2>2, <2>3, <3>1
  <2>4. CASE asked[e[2]].kind # "change"
    <3>1. UNCHANGED <<open, toldItem>>
      BY <1>9, <2>4 DEF HearAsk, Event, e
    <3> QED
      BY <1>6, <2>2, <2>4, <3>1
  <2> QED
    BY <2>3, <2>4
<1>10. ASSUME HearEnd PROVE Effect
  <2>1. e[1] = "end" /\ open' = open \ {e[2]} /\ toldItem' = Tell(toldItem, e[2], e[3])
    BY <1>10 DEF HearEnd, Heard, Is, Event, e
  <2>2. ~Starts(e, asked, c) /\ (EndOf(e, c) <=> e[2] = c) /\ (Closes(e, c) <=> e[2] = c)
    BY <2>1, EventIs
  <2>3. e[3] \in ItemNotices /\ e[3] # "started"
    BY <1>2 DEF Events, ItemNotices
  <2>4. e[2] = c => toldItem[c] # <<>>
    BY <1>3, <2>2
  <2>5. /\ StartedFirst(toldItem'[c])
        /\ e[2] = c => toldItem'[c] # <<>>
        /\ e[2] # c => toldItem'[c] = toldItem[c]
    BY <1>4, <2>1, <2>3, <2>4, Noticed
  <2> QED
    BY <1>3, <2>1, <2>2, <2>4, <2>5
<1>11. ASSUME HearError \/ HearShutdown PROVE Effect
  <2>1. e[1] \in {"error", "shutdown"}
    BY <1>11 DEF HearError, HearShutdown, Heard, Is, Event, e
  <2>2. ~Starts(e, asked, c)
    BY <2>1, EventIs
  <2>3. UNCHANGED toldItem /\ UNCHANGED open
    BY <1>11 DEF HearError, HearShutdown, summary, client
  <2> QED
    BY <1>6, <2>2, <2>3
<1>12. ASSUME HearComplete \/ HearAborted PROVE Effect
  <2>1. e[1] \in {"complete", "aborted"} /\ open' = {} /\ toldItem' = toldItem
    BY <1>12 DEF HearComplete, HearAborted, Heard, Is, Event, e
  <2>2. ~Starts(e, asked, c) /\ Closes(e, c)
    BY <2>1, EventIs
  <2> QED
    BY <1>3, <1>4, <2>1, <2>2
<1>13. Effect
  BY <1>8, <1>9, <1>10, <1>11, <1>12 DEF Listen
<1>14. ASSUME NEW n \in 1 .. Len(asked), asked[n].call = c, answer'[n] # "none"
       PROVE  answer[n] # "none" \/ toldItem'[c] # <<>>
  <2>1. CASE HearAsk
    <3>1. e[1] = "ask" /\ answer' = [answer EXCEPT ![e[2]] = "waiting"]
      BY <2>1 DEF HearAsk, Heard, Is, Event, e
    <3>2. answer \in [Asks -> AnswerStates]
      BY DEF Typed
    <3>3. CASE n = e[2]
      <4>1. Requests(e, asked, c)
        BY <1>14, <3>1, <3>3 DEF Requests
      <4> QED
        BY <1>3, <1>13, <4>1
    <3>4. CASE n # e[2]
      <4>1. answer'[n] = answer[n]
        BY <3>1, <3>2, <3>4
      <4> QED
        BY <1>14, <4>1
    <3> QED
      BY <3>3, <3>4
  <2>2. CASE ~HearAsk
    <3>1. UNCHANGED answer
      BY <2>2 DEF Listen, HearBegin, HearEnd, HearError, HearComplete, HearAborted, HearShutdown
    <3> QED
      BY <1>14, <3>1
  <2> QED
    BY <2>1, <2>2
<1> QED
  BY <1>1, <1>13, <1>14, ItemHears DEF e

\* A declined item is told of, and is not open again while its patch has not begun.
LEMMA ItemDeclined ==
  ASSUME Typed, AnswerInv, ItemsTyped, NEW c \in Calls, ItemOf(c),
         NEW m \in Asks, TellDeclined(m)
  PROVE  ItemOf(c)'
<1> DEFINE b == asked[m].call
<1>1. /\ answer[m] = "got" /\ given[m] # "accept"
      /\ answer' = [answer EXCEPT ![m] = "told"]
      /\ toldItem' = Tell(toldItem, b, "declined")
      /\ open' = IF asked[m].kind = "change" THEN open \ {b} ELSE open
      /\ UNCHANGED session /\ given' = given
  BY DEF TellDeclined
<1>2. /\ calls' = calls /\ asked' = asked /\ call' = call /\ events' = events
  BY <1>1 DEF session
<1>3. m \in 1 .. Len(asked) /\ given[m] # "none"
  <2>1. m \in Nat /\ m >= 1
    BY AppServerAssumption DEF Asks
  <2>2. Len(asked) \in Nat
    BY DEF Typed
  <2>3. AnswerOf(m)
    BY <2>1 DEF AnswerInv
  <2>4. (m > Len(asked) => answer[m] = "none") /\ given[m] # "none"
    BY <1>1, <2>3 DEF AnswerOf
  <2>5. ~(m > Len(asked))
    BY <1>1, <2>4
  <2> QED
    BY <2>1, <2>2, <2>4, <2>5
<1>4. b = c => /\ toldItem[c] # <<>>
               /\ asked[m].kind = "change" => ~AgainOf(c) /\ Refused(c)'
  <2> HAVE b = c
  <2>1. /\ answer[m] # "none" => toldItem[c] # <<>>
        /\ asked[m].kind = "change" /\ AgainOf(c) => given[m] = "accept"
    BY <1>3 DEF ItemOf
  <2>2. asked[m].kind = "change" => Refused(c)'
    BY <1>1, <1>2, <1>3 DEF Refused
  <2> QED
    BY <1>1, <2>1, <2>2
<1> HIDE DEF b
<1>5. /\ StartedFirst(toldItem'[c])
      /\ toldItem'[c] # <<>> <=> toldItem[c] # <<>>
  <2>1. toldItem \in [Calls -> Seq(ItemNotices)]
    BY DEF ItemsTyped
  <2>2. StartedFirst(toldItem[c])
    BY DEF ItemOf
  <2>3. "declined" \in ItemNotices
    BY DEF ItemNotices
  <2>4. /\ StartedFirst(Tell(toldItem, b, "declined")[c])
        /\ b = c => Tell(toldItem, b, "declined")[c] # <<>>
        /\ b # c => Tell(toldItem, b, "declined")[c] = toldItem[c]
    BY <1>4, <2>1, <2>2, <2>3, Noticed
  <2> QED
    BY <1>1, <1>4, <2>4
<1>6. \/ c \in open' <=> c \in open
      \/ b = c /\ asked[m].kind = "change" /\ c \notin open'
  BY <1>1
<1>7. SameQueue(c) /\ ((c \in open' <=> c \in open) => (OpenOf(c) => OpenOf(c)'))
  <2>1. QueueOf(c)
    BY DEF ItemOf
  <2>2. (c \in open' <=> c \in open) \/ (~(c \in open') /\ ~AgainOf(c))
    BY <1>4, <1>6
  <2> QED
    BY <1>2, <1>5, <2>1, <2>2, TellItem
<1>8. QueueOf(c)' /\ (BegunOf(c)' <=> BegunOf(c)) /\ (AgainOf(c)' <=> AgainOf(c))
  BY <1>7 DEF SameQueue
<1>9. Refused(c) => Refused(c)'
  BY <1>1, <1>2 DEF Refused
<1>10. QueueOf(c)' /\ StartedFirst(toldItem[c])' /\ (calls' < c => ~BegunOf(c)')
  BY <1>2, <1>5, <1>8 DEF ItemOf
<1>11. call'.id = c =>
         /\ call'.kind = "command" => call'.begun
         /\ call'.begun \/ call'.asks > 0 <=> BegunOf(c)'
         /\ call'.kind = "change" /\ ~call'.begun /\ ~Refused(c)' => OpenOf(c)'
  <2> HAVE call'.id = c
  <2>1. /\ call.kind = "command" => call.begun
        /\ call.begun \/ call.asks > 0 <=> BegunOf(c)
        /\ call.kind = "change" /\ ~call.begun /\ ~Refused(c) => OpenOf(c)
    BY <1>2 DEF ItemOf
  <2> QED
    BY <1>2, <1>4, <1>6, <1>7, <1>8, <1>9, <2>1
<1>12. ASSUME NEW n \in 1 .. Len(asked'), asked'[n].call = c
       PROVE  /\ answer'[n] # "none" => toldItem'[c] # <<>>
              /\ asked'[n].kind = "change" /\ ((call'.id = c /\ call'.waits # n) \/ AgainOf(c)')
                   => given'[n] = "accept"
  <2>1. /\ answer[n] # "none" => toldItem[c] # <<>>
        /\ asked[n].kind = "change" /\ ((call.id = c /\ call.waits # n) \/ AgainOf(c))
             => given[n] = "accept"
    BY <1>2, <1>12 DEF ItemOf
  <2>2. answer'[n] # "none" => answer[n] # "none"
    <3>1. answer \in [Asks -> AnswerStates]
      BY DEF Typed
    <3>2. n # m => answer'[n] = answer[n]
      BY <1>1, <3>1
    <3> QED
      BY <1>1, <3>2
  <2> QED
    BY <1>1, <1>2, <1>5, <1>8, <2>1, <2>2
<1> QED
  BY <1>10, <1>11, <1>12 DEF ItemOf

\* A step that touches neither the calls nor the notices of items.
LEMMA ItemUntouched ==
  ASSUME NEW c, ItemOf(c), UNCHANGED <<events, calls, call, asked, given, toldItem, open>>,
         \A n \in 1 .. Len(asked) : answer'[n] # "none" => answer[n] # "none"
  PROVE  ItemOf(c)'
<1>1. QueueOf(c)
  BY DEF ItemOf
<1>2. SameQueue(c) /\ (OpenOf(c) => OpenOf(c)')
  BY <1>1, QueueSame
<1> QED
  BY <1>2, ItemRests

LEMMA CallPositive ==
  ASSUME NEW c \in Calls
  PROVE  c # 0
BY AppServerAssumption DEF Calls

\* The turn is stopped, and its call with it.
LEMMA ItemStops ==
  ASSUME Typed, CallInv, NEW c \in Calls, ItemOf(c),
         StopTurn(<<>>) \/ StopTurn(<<<<"shutdown", 0, "">>>>),
         UNCHANGED <<calls, asked, given, answer, toldItem, open>>
  PROVE  ItemOf(c)'
<1>1. QueueOf(c)
  BY DEF ItemOf
<1>2. SameQueue(c)
  BY <1>1, QueueStops
<1>3. call' = NoCall
  <2>1. CASE active = 0
    <3>1. call = NoCall
      BY <2>1 DEF CallInv
    <3> QED
      BY <2>1, <3>1 DEF StopTurn
  <2>2. CASE active # 0
    BY <2>2 DEF StopTurn, Ends
  <2> QED
    BY <2>1, <2>2
<1>4. c # 0
  BY CallPositive
<1> QED
  BY <1>2, <1>3, <1>4, ItemDone

\* The call ends, with the turn or on its own.
LEMMA ItemEnds ==
  ASSUME Typed, NEW c \in Calls, ItemOf(c), call' = NoCall,
         NEW x \in Events, UNCHANGED events \/ events' = Append(events, x),
         x[1] \in {"end", "complete"}, x[1] = "end" => x[2] = call.id /\ call.begun,
         UNCHANGED <<calls, asked, given, answer, toldItem, open>>
  PROVE  ItemOf(c)'
<1>1. QueueOf(c) /\ events \in Seq(Events)
  <2>1. QueueOf(c)
    BY DEF ItemOf
  <2>2. events \in Seq(Events)
    BY DEF Typed
  <2> QED
    BY <2>1, <2>2
<1>2. SameQueue(c)
  <2>1. CASE UNCHANGED events
    BY <1>1, <2>1, QueueSame
  <2>2. CASE events' = Append(events, x)
    <3>1. call.id = c /\ call.begun => BegunOf(c)
      BY DEF ItemOf
    <3>2. ~Starts(x, asked, c) /\ ~Requests(x, asked, c) /\ ~Again(x, c)
          /\ (EndOf(x, c) => x[1] = "end" /\ x[2] = c)
      BY EventIs
    <3>3. EndOf(x, c) => BegunOf(c)
      BY <3>1, <3>2
    <3> QED
      BY <1>1, <2>2, <3>2, <3>3, QueueEmits
  <2> QED
    BY <2>1, <2>2
<1>3. c # 0
  BY AppServerAssumption DEF Calls
<1> QED
  BY <1>2, <1>3, ItemDone

LEMMA ItemErrs ==
  ASSUME Typed, NEW c \in Calls, ItemOf(c), TurnErrs
  PROVE  ItemOf(c)'
<1> DEFINE x == <<"error", active, "">>
<1>1. x \in Events /\ x[1] = "error"
  <2>1. active \in Nat
    BY DEF Typed
  <2> QED
    BY <2>1, EventTyped
<1>2. /\ events' = Append(events, x) /\ UNCHANGED <<calls, call, asked, answer>>
      /\ UNCHANGED summary /\ UNCHANGED client
  BY DEF TurnErrs, Emit
<1>3. UNCHANGED <<calls, call, asked, given, answer, toldItem, open>>
  BY <1>2 DEF summary, client
<1>4. QueueOf(c)
  BY DEF ItemOf
<1>5. events \in Seq(Events)
  BY DEF Typed
<1> HIDE DEF x
<1>6. ~Starts(x, asked, c) /\ ~Requests(x, asked, c) /\ ~Again(x, c) /\ ~EndOf(x, c) /\ ~Closes(x, c)
  BY <1>1, EventIs
<1>7. SameQueue(c) /\ (~Closes(x, c) /\ OpenOf(c) => OpenOf(c)')
  BY <1>1, <1>2, <1>3, <1>4, <1>5, <1>6, QueueEmits
<1> QED
  BY <1>3, <1>6, <1>7, ItemRests

LEMMA ItemDecided ==
  ASSUME Typed, CallInv, AnswerInv, SettledInv, NEW c \in Calls, ItemOf(c), ServeDecision
  PROVE  ItemOf(c)'
<1> DEFINE n == Op[2]
<1>1. UNCHANGED <<calls, asked, answer>> /\ UNCHANGED summary /\ UNCHANGED client
  BY DEF ServeDecision
<1>2. UNCHANGED <<calls, asked, given, answer, toldItem, open>>
  BY <1>1 DEF summary, client
<1>3. CASE StopTurn(<<>>)
  BY <1>2, <1>3, ItemStops
<1>4. CASE UNCHANGED <<call, events>>
  BY <1>2, <1>4, ItemUntouched
<1>5. CASE call.waits # 0 /\ asked[n].turn = active /\ given[n] = "accept" /\ Decide(TRUE)
  BY <1>5, ItemAccepted
<1>6. CASE Decide(FALSE)
  <2> DEFINE x == <<"end", call.id, "failed">>
             y == <<"complete", 0, "">>
  <2>1. x \in Events /\ x[1] = "end" /\ x[2] = call.id /\ y \in Events /\ y[1] = "complete"
    <3>1. call.id \in Nat /\ 0 \in Nat
      BY DEF Typed
    <3> QED
      BY <3>1, EventTyped
  <2>2. call' = NoCall /\ (call.begun => events' = Append(events, x)) /\ (~call.begun => events' = events)
    BY <1>6 DEF Decide, Emit
  <2> HIDE DEF x, y
  <2>3. CASE call.begun
    BY <1>2, <2>1, <2>2, <2>3, ItemEnds
  <2>4. CASE ~call.begun
    BY <1>2, <2>1, <2>2, <2>4, ItemEnds
  <2> QED
    BY <2>3, <2>4
<1>7. \/ StopTurn(<<>>) \/ UNCHANGED <<call, events>> \/ Decide(FALSE)
      \/ call.waits # 0 /\ asked[n].turn = active /\ given[n] = "accept" /\ Decide(TRUE)
  <2>1. \/ StopTurn(<<>>) \/ UNCHANGED <<call, events>>
        \/ call.waits # 0 /\ asked[n].turn = active /\ Decide(given[n] = "accept")
    BY DEF ServeDecision
  <2>2. CASE given[n] = "accept"
    <3>1. Decide(given[n] = "accept") => Decide(TRUE)
      BY <2>2 DEF Decide
    <3> QED
      BY <2>1, <2>2, <3>1
  <2>3. CASE given[n] # "accept"
    <3>1. Decide(given[n] = "accept") => Decide(FALSE)
      BY <2>3 DEF Decide
    <3> QED
      BY <2>1, <3>1
  <2> QED
    BY <2>2, <2>3
<1> QED
  BY <1>3, <1>4, <1>5, <1>6, <1>7

LEMMA ItemStep ==
  ASSUME IInv, SummaryTyped, ItemsTyped, [Next]_vars, ~archived, NEW c \in Calls, ItemOf(c)
  PROVE  ItemOf(c)'
<1>1. Typed /\ CallInv /\ AnswerInv /\ SettledInv
  BY DEF IInv
<1>2. ~ArchiveReads
  BY DEF ArchiveReads, SummaryTyped
<1>3. CASE UNCHANGED <<session, summary, answer, client>>
  <2>1. UNCHANGED session /\ UNCHANGED summary /\ UNCHANGED answer /\ UNCHANGED client
    BY <1>3
  <2>2. UNCHANGED <<events, calls, call, asked, given, toldItem, open>>
    BY <2>1 DEF session, summary, client
  <2> QED
    BY <2>1, <2>2, ItemUntouched
<1>4. CASE ServeInput \/ TurnStart \/ TurnStarted \/ InterruptSent \/ Archive \/ ArchiveReturns
  <2>1. UNCHANGED <<events, calls, call, asked, given, toldItem, open>>
    <3>1. UNCHANGED <<events, calls, call, asked>>
      BY <1>4 DEF ServeInput, TurnStart, TurnStarted, InterruptSent, Archive, ArchiveReturns, session
    <3>2. UNCHANGED summary
      BY <1>4 DEF ServeInput, TurnStart, TurnStarted, InterruptSent, Archive, ArchiveReturns
    <3>3. UNCHANGED <<given, toldItem>>
      BY <1>4 DEF ServeInput, TurnStart, TurnStarted, InterruptSent, Archive, ArchiveReturns, client
    <3> QED
      BY <3>1, <3>2, <3>3 DEF summary
  <2>2. UNCHANGED answer
    BY <1>4 DEF ServeInput, TurnStart, TurnStarted, InterruptSent, Archive, ArchiveReturns
  <2> QED
    BY <2>1, <2>2, ItemUntouched
<1>5. CASE ServeInterrupt \/ ServeShutdown
  <2>1. StopTurn(<<>>) \/ StopTurn(<<<<"shutdown", 0, "">>>>)
    BY <1>5 DEF ServeInterrupt, ServeShutdown
  <2>2. UNCHANGED <<calls, asked, answer>> /\ UNCHANGED summary /\ UNCHANGED client
    BY <1>5 DEF ServeInterrupt, ServeShutdown
  <2>3. UNCHANGED <<calls, asked, given, answer, toldItem, open>>
    BY <2>2 DEF summary, client
  <2> QED
    BY <1>1, <2>1, <2>3, ItemStops
<1>6. CASE ServeDecision
  BY <1>1, <1>6, ItemDecided
<1>7. ASSUME NEW kind \in {"command", "change"}, CallStarts(kind) PROVE ItemOf(c)'
  BY <1>1, <1>7, ItemCallStarts
<1>8. CASE AskApproval
  BY <1>1, <1>8, ItemAsks
<1>9. CASE PatchBegins
  BY <1>1, <1>9, ItemPatchBegins
<1>10. CASE CallEnds \/ TurnCompletes
  <2> DEFINE x == IF CallEnds THEN <<"end", call.id, "ran">> ELSE <<"complete", active, "">>
  <2>1. /\ x \in Events /\ x[1] \in {"end", "complete"}
        /\ x[1] = "end" => CallEnds /\ x[2] = call.id
    <3>1. call.id \in Nat /\ active \in Nat
      BY <1>1 DEF Typed
    <3>2. /\ <<"end", call.id, "ran">> \in Events /\ <<"end", call.id, "ran">>[1] = "end"
          /\ <<"end", call.id, "ran">>[2] = call.id
      BY <3>1, EventTyped
    <3>3. <<"complete", active, "">> \in Events /\ <<"complete", active, "">>[1] = "complete"
      BY <3>1, EventTyped
    <3>4. CASE CallEnds
      BY <3>2, <3>4
    <3>5. CASE ~CallEnds
      BY <3>3, <3>5
    <3> QED
      BY <3>4, <3>5
  <2>2. events' = Append(events, x)
    <3>1. CASE CallEnds
      BY <3>1 DEF CallEnds, Emit
    <3>2. CASE ~CallEnds
      BY <1>10, <3>2 DEF TurnCompletes, Emit
    <3> QED
      BY <3>1, <3>2
  <2> HIDE DEF x
  <2>3. call' = NoCall
    BY <1>10 DEF CallEnds, TurnCompletes, Ends
  <2>4. x[1] = "end" => x[2] = call.id /\ call.begun
    BY <2>1 DEF CallEnds
  <2>5. UNCHANGED <<calls, asked, answer>> /\ UNCHANGED summary /\ UNCHANGED client
    BY <1>10 DEF CallEnds, TurnCompletes
  <2>6. UNCHANGED <<calls, asked, given, answer, toldItem, open>>
    BY <2>5 DEF summary, client
  <2> QED
    BY <1>1, <2>1, <2>2, <2>3, <2>4, <2>6, ItemEnds
<1>11. CASE TurnErrs
  BY <1>1, <1>11, ItemErrs
<1>12. ASSUME NEW m \in Asks, NEW d \in Decisions, Answer(m, d) PROVE ItemOf(c)'
  BY <1>1, <1>12, ItemAnswered
<1>13. ASSUME NEW m \in Asks, TellDeclined(m) PROVE ItemOf(c)'
  BY <1>1, <1>13, ItemDeclined
<1>14. ASSUME NEW m \in Asks, Resolve(m) PROVE ItemOf(c)'
  <2>1. UNCHANGED <<events, calls, call, asked>> /\ UNCHANGED summary /\ UNCHANGED client
    BY <1>14 DEF Resolve
  <2>2. UNCHANGED <<events, calls, call, asked, given, toldItem, open>>
    BY <2>1 DEF summary, client
  <2>3. \A n : answer'[n] # "none" => answer[n] # "none"
    BY <1>1, <1>14 DEF Resolve, Typed
  <2> QED
    BY <2>2, <2>3, ItemUntouched
<1>15. CASE TurnInterrupt
  <2>1. UNCHANGED session /\ UNCHANGED summary /\ UNCHANGED answer /\ UNCHANGED client
    BY <1>15 DEF TurnInterrupt
  <2> QED
    BY <1>3, <2>1
<1>16. CASE Listen
  BY <1>1, <1>16, ItemHeard
<1>17. CASE UNCHANGED vars
  BY <1>3, <1>17 DEF vars
<1> QED
  BY <1>2, <1>4, <1>5, <1>6, <1>7, <1>8, <1>9, <1>10, <1>11, <1>12, <1>13, <1>14, <1>15, <1>16, <1>17
     DEF Next, SessionStep, Serve, ProcessorStep

\* Nothing brings a thread back from the archive.
LEMMA ArchivedStays ==
  ASSUME [Next]_vars, archived
  PROVE  archived'
BY DEF Next, SessionStep, Serve, ServeInput, ServeInterrupt, ServeShutdown, ServeDecision,
       CallStarts, AskApproval, PatchBegins, CallEnds, TurnErrs, TurnCompletes, ProcessorStep,
       vars, TurnStart, TurnStarted, TurnInterrupt, InterruptSent, Archive, Answer,
       ArchiveReturns, ArchiveReads, Listen, HearBegin, HearAsk, HearEnd, HearError,
       HearComplete, HearAborted, HearShutdown, TellDeclined, Resolve

LEMMA ToldItemStep ==
  ASSUME Typed, ItemsTyped, [Next]_vars
  PROVE  toldItem' \in [Calls -> Seq(ItemNotices)]
<1>1. toldItem \in [Calls -> Seq(ItemNotices)]
  BY DEF ItemsTyped
<1>2. ASSUME NEW b, NEW x \in ItemNotices, toldItem' = Tell(toldItem, b, x)
      PROVE  toldItem' \in [Calls -> Seq(ItemNotices)]
  <2>1. ASSUME NEW s \in Seq(ItemNotices) PROVE Append(s, x) \in Seq(ItemNotices)
    BY QueueAppend
  <2> QED
    BY <1>1, <1>2, <2>1 DEF Tell
<1>3. "started" \in ItemNotices /\ "declined" \in ItemNotices
  BY DEF ItemNotices
<1>4. ASSUME NEW b, FirstStart(b) PROVE toldItem' \in [Calls -> Seq(ItemNotices)]
  <2>1. toldItem' = toldItem \/ toldItem' = Tell(toldItem, b, "started")
    BY <1>4 DEF FirstStart
  <2> QED
    BY <1>1, <1>2, <1>3, <2>1
<1>5. CASE HearBegin
  BY <1>2, <1>3, <1>4, <1>5 DEF HearBegin
<1>6. CASE HearAsk
  BY <1>1, <1>4, <1>6 DEF HearAsk
<1>7. CASE HearEnd
  <2>1. events \in Seq(Events) /\ events # <<>> /\ toldItem' = Tell(toldItem, Event[2], Event[3])
    BY <1>7 DEF HearEnd, Heard, Typed
  <2>2. Event \in Events
    BY <2>1, QueueTail DEF Event
  <2>3. Event[3] \in ItemNotices
    BY <2>2 DEF Events, ItemNotices
  <2> QED
    BY <1>2, <2>1, <2>3
<1>8. ASSUME NEW n \in Asks, TellDeclined(n) PROVE toldItem' \in [Calls -> Seq(ItemNotices)]
  BY <1>2, <1>3, <1>8 DEF TellDeclined
<1>9. CASE UNCHANGED toldItem
  BY <1>1, <1>9
<1> QED
  BY <1>5, <1>6, <1>7, <1>8, <1>9
     DEF Next, SessionStep, Serve, ServeInput, ServeInterrupt, ServeShutdown, ServeDecision,
         CallStarts, AskApproval, PatchBegins, CallEnds, TurnErrs, TurnCompletes, ProcessorStep,
         client, vars, TurnStart, TurnStarted, TurnInterrupt, InterruptSent, Archive, Answer,
         ArchiveReturns, ArchiveReads, Listen, HearError, HearComplete, HearAborted,
         HearShutdown, Resolve

\* A call has the number of the calls so far, or a smaller one.
LEMMA CallNumbered ==
  ASSUME Typed, call.id <= calls, [Next]_vars
  PROVE  calls <= calls' /\ call'.id <= calls'
<1>1. /\ calls \in Nat /\ 0 <= calls
      /\ call \in [id : Nat, kind : {"none", "command", "change"}, begun : BOOLEAN,
                   waits : Nat, asks : Nat]
  BY DEF Typed
<1>2. ASSUME NEW kind, CallStarts(kind) PROVE calls' = calls + 1 /\ call'.id = calls + 1
  BY <1>2 DEF CallStarts, NoCall
<1>3. calls' = calls \/ \E kind : CallStarts(kind)
  BY DEF Next, SessionStep, Serve, ServeInput, ServeInterrupt, ServeShutdown, ServeDecision,
         AskApproval, PatchBegins, CallEnds, TurnErrs, TurnCompletes, ProcessorStep, session,
         vars, TurnStart, TurnStarted, TurnInterrupt, InterruptSent, Archive, Answer,
         ArchiveReturns, ArchiveReads, Listen, HearBegin, HearAsk, HearEnd, HearError,
         HearComplete, HearAborted, HearShutdown, TellDeclined, Resolve
<1>4. \/ call'.id = call.id \/ call' = NoCall \/ \E kind : CallStarts(kind)
  <2>1. CASE AskApproval \/ PatchBegins
    BY <1>1, <2>1 DEF AskApproval, PatchBegins
  <2>2. ASSUME NEW s, StopTurn(s) PROVE call' = call \/ call' = NoCall
    BY <2>2 DEF StopTurn, Ends
  <2>3. ASSUME NEW accept, Decide(accept) PROVE call'.id = call.id \/ call' = NoCall
    BY <1>1, <2>3 DEF Decide
  <2>4. CASE ServeInterrupt \/ ServeShutdown \/ ServeDecision
    BY <2>2, <2>3, <2>4 DEF ServeInterrupt, ServeShutdown, ServeDecision
  <2>5. CASE CallEnds \/ TurnCompletes
    BY <2>5 DEF CallEnds, TurnCompletes, Ends
  <2>6. CASE UNCHANGED call
    BY <2>6
  <2> QED
    BY <2>1, <2>4, <2>5, <2>6
       DEF Next, SessionStep, Serve, ServeInput, TurnErrs, ProcessorStep, session,
         vars, TurnStart, TurnStarted, TurnInterrupt, InterruptSent, Archive, Answer,
         ArchiveReturns, ArchiveReads, Listen, HearBegin, HearAsk, HearEnd, HearError,
         HearComplete, HearAborted, HearShutdown, TellDeclined, Resolve
<1>5. call'.id = call.id \/ call'.id = 0 \/ (calls' = calls + 1 /\ call'.id = calls + 1)
  BY <1>2, <1>4 DEF NoCall
<1>6. calls' = calls \/ calls' = calls + 1
  BY <1>2, <1>3
<1> QED
  BY <1>1, <1>5, <1>6

LEMMA ItemsTypedStep ==
  ASSUME Typed, Typed', AnswerInv, ItemsTyped, [Next]_vars
  PROVE  ItemsTyped'
<1>1. toldItem' \in [Calls -> Seq(ItemNotices)]
  BY ToldItemStep
<1>2. call.id <= calls /\ calls <= calls' /\ call'.id <= calls'
  <2>1. call.id <= calls
    BY DEF ItemsTyped
  <2> QED
    BY <2>1, CallNumbered
<1>3. calls \in Nat /\ calls' \in Nat /\ call.id \in Nat
  BY DEF Typed
<1>4. ASSUME NEW n \in 1 .. Len(asked'), asked'[n].call <= calls PROVE asked'[n].call <= calls'
  <2>1. asked' \in Seq([turn : Nat, call : Nat, kind : {"command", "change"}])
    BY DEF Typed
  <2>2. asked'[n] \in [turn : Nat, call : Nat, kind : {"command", "change"}]
    BY <2>1, Member
  <2>3. asked'[n].call \in Nat
    BY <2>2
  <2> QED
    BY <1>2, <1>3, <1>4, <2>3
<1>5. ASSUME NEW n \in 1 .. Len(asked') PROVE asked'[n].call <= calls'
  <2>1. CASE AskApproval
    <3>1. Len(asked) \in Nat /\ Len(asked') = Len(asked) + 1
          /\ \A k \in 1 .. Len(asked) : asked'[k] = asked[k]
      BY <2>1, AskedIs
    <3>2. asked'[Len(asked) + 1].call = call.id
      BY <2>1, RequestIs
    <3>3. n \in 1 .. Len(asked) \/ n = Len(asked) + 1
      BY <3>1
    <3>4. asked'[n].call <= calls
      BY <1>2, <3>1, <3>2, <3>3 DEF ItemsTyped
    <3> QED
      BY <1>4, <3>4
  <2>2. CASE UNCHANGED asked
    <3>1. asked'[n].call <= calls
      BY <2>2 DEF ItemsTyped
    <3> QED
      BY <1>4, <3>1
  <2> QED
    BY <2>1, <2>2, AskedStep
<1>6. ASSUME NEW n \in Asks, answer'[n] \in {"none", "waiting"} PROVE given'[n] = "none"
  <2>1. CASE HearAsk /\ Event[2] = n /\ given'[n] = given[n]
    <3>1. n \in Nat
      BY AppServerAssumption DEF Asks
    <3>2. Pending(n)
      BY <2>1, <3>1, Announced
    <3>3. answer[n] = "none"
      BY <3>1, <3>2 DEF AnswerInv, AnswerOf
    <3> QED
      BY <2>1, <3>3 DEF ItemsTyped
  <2>2. CASE answer'[n] = answer[n] /\ given'[n] = given[n]
    BY <1>6, <2>2 DEF ItemsTyped
  <2> QED
    BY <1>6, <2>1, <2>2, AnswerStep
<1> QED
  BY <1>1, <1>2, <1>5, <1>6 DEF ItemsTyped

ItemsIInv == IInv /\ SummaryTyped /\ ItemsTyped /\ ItemInv

LEMMA ItemsIInvInit == Init => ItemsIInv
<1> SUFFICES ASSUME Init PROVE ItemsIInv
  OBVIOUS
<1>1. IInv /\ SummaryTyped
  BY IInvInit, StatusIInvInit DEF StatusIInv
<1>2. /\ events = <<>> /\ asked = <<>> /\ open = {} /\ call = NoCall /\ calls = 0
      /\ toldItem = [c \in Calls |-> <<>>]
      /\ given = [n \in Asks |-> "none"]
  BY DEF Init
<1>3. 1 .. Len(<<>>) = {} /\ Len(<<>>) = 0 /\ <<>> \in Seq(ItemNotices)
  OBVIOUS
<1>4. ItemsTyped
  <2>1. call.id <= calls
    BY <1>2 DEF NoCall
  <2>2. \A n \in 1 .. Len(asked) : asked[n].call <= calls
    BY <1>2, <1>3
  <2> QED
    BY <1>2, <1>3, <2>1, <2>2 DEF ItemsTyped
<1>5. ASSUME NEW c \in Calls PROVE ItemOf(c)
  <2>1. 1 .. Len(events) = {} /\ 1 .. Len(asked) = {} /\ toldItem[c] = <<>> /\ c \notin open
    BY <1>2, <1>3
  <2>2. QueueOf(c)
    BY <2>1 DEF QueueOf, Item
  <2>3. ~BegunOf(c)
    BY <2>1 DEF BegunOf, BegunBy
  <2>4. call.id # c
    BY <1>2, CallPositive DEF NoCall
  <2> QED
    BY <2>1, <2>2, <2>3, <2>4 DEF ItemOf, StartedFirst
<1> QED
  BY <1>1, <1>4, <1>5 DEF ItemsIInv, ItemInv

LEMMA ItemsIInvStep == ItemsIInv /\ [Next]_vars => ItemsIInv'
<1> SUFFICES ASSUME ItemsIInv, [Next]_vars PROVE ItemsIInv'
  OBVIOUS
<1>1. IInv /\ SummaryTyped /\ ItemsTyped /\ ItemInv /\ Typed /\ AnswerInv
  BY DEF ItemsIInv, IInv
<1>2. IInv' /\ Typed'
  <2>1. IInv'
    BY <1>1, IInvStep
  <2> QED
    BY <2>1 DEF IInv
<1>3. SummaryTyped'
  BY <1>1, <1>2, SummaryTypedStep
<1>4. ItemsTyped'
  BY <1>1, <1>2, ItemsTypedStep
<1>5. ASSUME ~archived', NEW c \in Calls PROVE ItemOf(c)'
  <2>1. ~archived
    BY <1>5, ArchivedStays
  <2>2. ItemOf(c)
    BY <1>1, <2>1 DEF ItemInv
  <2> QED
    BY <1>1, <2>1, <2>2, ItemStep
<1>6. ItemInv'
  BY <1>5 DEF ItemInv
<1> QED
  BY <1>2, <1>3, <1>4, <1>6 DEF ItemsIInv

LEMMA ItemsStartedOnce == ItemsIInv => StartedOnce
<1> SUFFICES ASSUME ItemsIInv, ~archived, NEW c \in Calls, toldItem[c] # <<>>
             PROVE  {i \in DOMAIN toldItem[c] : toldItem[c][i] = "started"} = {1}
  BY DEF StartedOnce
<1>1. StartedFirst(toldItem[c])
  BY DEF ItemsIInv, ItemInv, ItemOf
<1>2. toldItem[c] \in Seq(ItemNotices)
  BY DEF ItemsIInv, ItemsTyped
<1>3. DOMAIN toldItem[c] = 1 .. Len(toldItem[c])
  BY <1>2
<1> QED
  BY <1>1, <1>3 DEF StartedFirst, StartsOf

\* Until a thread is archived, an item is started once, and before anything else is told of
\* it, whether its request for approval or its begin event comes first
\* (file_change_started of the turn summary, and on_file_change_request_approval_response),
\* for any number of turns, calls and approvals and for answers however late.
THEOREM ItemsStart == Spec => []StartedOnce
<1>1. ItemsIInv /\ [Next]_vars => ItemsIInv'
  BY ItemsIInvStep
<1> QED
  BY <1>1, ItemsIInvInit, ItemsStartedOnce, PTL DEF Spec
=============================================================================
