---------------------------- MODULE ToolHostProofs ----------------------------
(***************************************************************************)
(* Safety of the .NET host for any number of sessions, lines and requests: *)
(* the output of a session is complete and in order, and so are the        *)
(* answers.                                                                *)
(***************************************************************************)
EXTENDS ToolHost, SequenceTheorems, TLAPS

\* A number that has not been given to a session has no process.
FreshIds == \A id \in Sessions : id > nextId => proc[id] = "none"

\* What is being served is a call, and the last that has been read.
Serving ==
    pc \in {"call", "write", "delay", "wait", "pipes"} =>
       /\ taken >= 1 /\ requests[taken] \in Calls
       /\ \A i \in DOMAIN answered : answered[i] < taken

\* The bound on requests is kept.
Bounded == Len(requests) <= MaxRequests

IInv == TypeOK /\ FreshIds /\ Bounded /\ Serving /\ OutputOnce /\ CallsAnswered

\* The initial states satisfy the invariant.
LEMMA InitInv == Init => IInv
  <1> SUFFICES ASSUME Init PROVE IInv
    OBVIOUS
  <1> USE SessionBoundsAssumption, RequestsAssumption DEF Init, InitSessions
  <1>1. SessionsTypeOK
    BY DEF SessionsTypeOK, ProcStates
  <1>2. TypeOK
    <2>1. requests \in Seq(Kinds) /\ answered \in Seq(1 .. MaxRequests)
      OBVIOUS
    <2>2. taken \in 0 .. Len(requests)
      OBVIOUS
    <2>3. child \in Child
      BY DEF Child, NoChild
    <2> QED
      BY <1>1, <2>1, <2>2, <2>3 DEF TypeOK
  <1>3. FreshIds /\ Bounded /\ Serving
    BY DEF FreshIds, Bounded, Serving
  <1>4. OutputOnce
    <2> SUFFICES ASSUME NEW id \in Sessions PROVE Transcript(id) = <<>>
      BY DEF OutputOnce, Streams
    <2> QED
      BY DEF Transcript
  <1>5. CallsAnswered
    BY DEF CallsAnswered
  <1> QED
    BY <1>2, <1>3, <1>4, <1>5 DEF IInv

-----------------------------------------------------------------------------
(* The output of a session                                                  *)

\* What OutputOnce says of one session: T is its transcript, r what its
\* readers have got, m and p whether its exit line is there and its process.
Faithful(T, r, m, p) ==
    /\ \A i, j \in DOMAIN T : i < j /\ T[i].from = T[j].from => T[i].n < T[j].n
    /\ \A i \in DOMAIN T :
          IF T[i] = ExitLine THEN m /\ p = "exited"
          ELSE \E s \in Streams : \E n \in 1 .. r[s] :
                  T[i] = [from |-> s, n |-> n]
    /\ \A s \in Streams : \A n \in 1 .. r[s] :
          \E i \in DOMAIN T : T[i] = [from |-> s, n |-> n]
    /\ m => \E i \in DOMAIN T : T[i] = ExitLine

\* OutputOnce, session by session.
LEMMA OutputOnceIsFaithful ==
  OutputOnce <=>
    \A id \in Sessions : Faithful(Transcript(id), read[id], marked[id], proc[id])
  BY DEF OutputOnce, Faithful

\* The next line of a stream keeps a transcript faithful.
LEMMA NextLineFaithful ==
  ASSUME NEW T \in Seq(Line), NEW r \in [Streams -> Nat], NEW m \in BOOLEAN,
         NEW p, NEW s \in Streams, Faithful(T, r, m, p)
  PROVE  Faithful(Append(T, [from |-> s, n |-> r[s] + 1]),
                  [r EXCEPT ![s] = @ + 1], m, p)
  <1> DEFINE x == [from |-> s, n |-> r[s] + 1]
             U == Append(T, x)
             q == [r EXCEPT ![s] = @ + 1]
  <1>1. /\ DOMAIN T = 1 .. Len(T) /\ Len(T) \in Nat
        /\ DOMAIN U = 1 .. Len(T) + 1
        /\ U[Len(T) + 1] = x /\ \A i \in 1 .. Len(T) : U[i] = T[i]
    OBVIOUS
  <1>2. /\ q[s] = r[s] + 1 /\ r[s] \in Nat
        /\ \A t \in Streams : r[t] \in Nat /\ q[t] \in {r[t], r[t] + 1}
        /\ \A t \in Streams : t # s => q[t] = r[t]
    OBVIOUS
  <1>3. x # ExitLine /\ x.from = s /\ x.n = r[s] + 1
    BY DEF ExitLine, Streams
  <1> HIDE DEF x, U, q
  <1>4. ASSUME NEW i \in DOMAIN T, T[i].from = s PROVE T[i].n < x.n
    <2>1. T[i] # ExitLine
      BY <1>4 DEF ExitLine, Streams
    <2>2. PICK t \in Streams : \E n \in 1 .. r[t] : T[i] = [from |-> t, n |-> n]
      BY <2>1 DEF Faithful
    <2> QED
      BY <1>2, <1>3, <1>4, <2>2
  <1>5. ASSUME NEW i \in DOMAIN U, NEW j \in DOMAIN U,
               i < j, U[i].from = U[j].from
        PROVE  U[i].n < U[j].n
    <2>1. CASE j = Len(T) + 1
      BY <1>1, <1>3, <1>4, <1>5, <2>1
    <2>2. CASE j # Len(T) + 1
      <3>1. /\ i \in DOMAIN T /\ j \in DOMAIN T
            /\ U[i] = T[i] /\ U[j] = T[j]
        BY <1>1, <1>5, <2>2
      <3> QED
        BY <1>5, <3>1 DEF Faithful
    <2> QED
      BY <2>1, <2>2
  <1>6. ASSUME NEW i \in DOMAIN U
        PROVE  IF U[i] = ExitLine THEN m /\ p = "exited"
               ELSE \E t \in Streams : \E n \in 1 .. q[t] :
                       U[i] = [from |-> t, n |-> n]
    <2>1. CASE i = Len(T) + 1
      <3>1. U[i] = [from |-> s, n |-> r[s] + 1] /\ U[i] # ExitLine
        BY <1>1, <1>3, <2>1 DEF x
      <3>2. r[s] + 1 \in 1 .. q[s]
        BY <1>2
      <3> QED
        BY <3>1, <3>2
    <2>2. CASE i # Len(T) + 1
      <3>1. i \in DOMAIN T /\ U[i] = T[i]
        BY <1>1, <1>6, <2>2
      <3>2. CASE T[i] = ExitLine
        BY <3>1, <3>2 DEF Faithful
      <3>3. CASE T[i] # ExitLine
        <4>1. PICK t \in Streams :
                \E n \in 1 .. r[t] : T[i] = [from |-> t, n |-> n]
          BY <3>1, <3>3 DEF Faithful
        <4>2. 1 .. r[t] \subseteq 1 .. q[t]
          BY <1>2
        <4> QED
          BY <3>1, <3>3, <4>1, <4>2
      <3> QED
        BY <3>2, <3>3
    <2> QED
      BY <2>1, <2>2
  <1>7. ASSUME NEW t \in Streams, NEW n \in 1 .. q[t]
        PROVE  \E i \in DOMAIN U : U[i] = [from |-> t, n |-> n]
    <2>1. CASE t = s /\ n = r[s] + 1
      BY <1>1, <2>1 DEF x
    <2>2. CASE ~(t = s /\ n = r[s] + 1)
      <3>1. n \in 1 .. r[t]
        BY <1>2, <1>7, <2>2
      <3>2. PICK i \in DOMAIN T : T[i] = [from |-> t, n |-> n]
        BY <3>1 DEF Faithful
      <3> QED
        BY <1>1, <3>2
    <2> QED
      BY <2>1, <2>2
  <1>8. m => \E i \in DOMAIN U : U[i] = ExitLine
    BY <1>1 DEF Faithful
  <1>9. Faithful(U, q, m, p)
    BY <1>5, <1>6, <1>7, <1>8 DEF Faithful
  <1> QED
    BY <1>9 DEF U, q, x

\* The line of the Exited event keeps it faithful.
LEMMA ExitLineFaithful ==
  ASSUME NEW T \in Seq(Line), NEW r \in [Streams -> Nat],
         Faithful(T, r, FALSE, "exited")
  PROVE  Faithful(Append(T, ExitLine), r, TRUE, "exited")
  <1> DEFINE U == Append(T, ExitLine)
  <1>1. /\ DOMAIN T = 1 .. Len(T) /\ Len(T) \in Nat
        /\ DOMAIN U = 1 .. Len(T) + 1
        /\ U[Len(T) + 1] = ExitLine /\ \A i \in 1 .. Len(T) : U[i] = T[i]
    BY DEF ExitLine, Line
  <1> HIDE DEF U
  <1>2. ASSUME NEW i \in DOMAIN T PROVE T[i].from # "exit"
    <2>1. PICK t \in Streams : \E n \in 1 .. r[t] : T[i] = [from |-> t, n |-> n]
      BY DEF Faithful
    <2> QED
      BY <2>1 DEF Streams
  <1>3. ASSUME NEW i \in DOMAIN U, NEW j \in DOMAIN U,
               i < j, U[i].from = U[j].from
        PROVE  U[i].n < U[j].n
    <2>1. i \in DOMAIN T /\ U[i] = T[i]
      BY <1>1, <1>3
    <2>2. CASE j = Len(T) + 1
      BY <1>1, <1>2, <1>3, <2>1, <2>2 DEF ExitLine
    <2>3. CASE j # Len(T) + 1
      <3>1. j \in DOMAIN T /\ U[j] = T[j]
        BY <1>1, <1>3, <2>3
      <3> QED
        BY <1>3, <2>1, <3>1 DEF Faithful
    <2> QED
      BY <2>2, <2>3
  <1>4. ASSUME NEW i \in DOMAIN U, U[i] # ExitLine
        PROVE  \E t \in Streams : \E n \in 1 .. r[t] : U[i] = [from |-> t, n |-> n]
    <2>1. i \in DOMAIN T /\ U[i] = T[i]
      BY <1>1, <1>4
    <2> QED
      BY <1>4, <2>1 DEF Faithful
  <1>5. ASSUME NEW t \in Streams, NEW n \in 1 .. r[t]
        PROVE  \E i \in DOMAIN U : U[i] = [from |-> t, n |-> n]
    <2>1. PICK i \in DOMAIN T : T[i] = [from |-> t, n |-> n]
      BY DEF Faithful
    <2> QED
      BY <1>1, <2>1
  <1>6. Faithful(U, r, TRUE, "exited")
    BY <1>1, <1>3, <1>4, <1>5 DEF Faithful
  <1> QED
    BY <1>6 DEF U

\* A transcript does not care what its process does before it has exited.
LEMMA ProcFaithful ==
  ASSUME NEW T, NEW r, NEW m, NEW p, NEW q, p # "exited", Faithful(T, r, m, p)
  PROVE  Faithful(T, r, m, q)
  BY DEF Faithful

\* An append to the buffer is one to the transcript.
LEMMA AppendConcat ==
  ASSUME NEW S, NEW a \in Seq(S), NEW b \in Seq(S), NEW x \in S
  PROVE  /\ a \o b \in Seq(S) /\ Append(b, x) \in Seq(S)
         /\ a \o Append(b, x) = Append(a \o b, x)
  OBVIOUS

\* The steps of a session, whoever takes them.
SessionNext ==
    \/ UNCHANGED sessionVars
    \/ \E started \in BOOLEAN : StartSession(started)
    \/ \E id \in Sessions : DrainOutput(id) \/ ProcessStep(id) \/ SessionEvent(id)

SInv == SessionsTypeOK /\ FreshIds /\ OutputOnce

\* They keep types, fresh ids, and the transcripts.
LEMMA SessionsSafe == SInv /\ SessionNext => SInv'
  <1> SUFFICES ASSUME SInv, SessionNext PROVE SInv'
    OBVIOUS
  <1> USE SessionBoundsAssumption
  <1>1. SessionsTypeOK /\ FreshIds /\ OutputOnce
    BY DEF SInv
  <1>2. ASSUME NEW id \in Sessions
        PROVE  /\ delivered[id] \in Seq(Line) /\ output[id] \in Seq(Line)
               /\ Transcript(id) \in Seq(Line)
               /\ read[id] \in [Streams -> Nat] /\ marked[id] \in BOOLEAN
               /\ Faithful(Transcript(id), read[id], marked[id], proc[id])
    <2>1. delivered[id] \in Seq(Line) /\ output[id] \in Seq(Line)
      BY <1>1 DEF SessionsTypeOK
    <2>2. read[id] \in [Streams -> Nat] /\ marked[id] \in BOOLEAN
      BY <1>1 DEF SessionsTypeOK
    <2> QED
      BY <1>1, <2>1, <2>2, OutputOnceIsFaithful DEF Transcript
  <1>3. ASSUME \A id \in Sessions :
                 Faithful(Transcript(id)', read'[id], marked'[id], proc'[id])
        PROVE  OutputOnce'
    BY <1>3 DEF OutputOnce, Faithful
  <1>4. CASE UNCHANGED sessionVars
    <2> USE <1>4 DEF sessionVars
    <2>1. SessionsTypeOK' /\ FreshIds'
      BY <1>1 DEF SessionsTypeOK, FreshIds
    <2>2. OutputOnce'
      BY <1>2, <1>3 DEF Transcript
    <2> QED
      BY <2>1, <2>2 DEF SInv
  <1>5. ASSUME NEW started \in BOOLEAN, StartSession(started) PROVE SInv'
    <2> USE <1>5 DEF StartSession, pipeVars
    <2>1. nextId' \in Sessions /\ proc[nextId'] = "none"
      BY <1>1 DEF SessionsTypeOK, FreshIds, Sessions
    <2>2. SessionsTypeOK' /\ FreshIds'
      BY <1>1, <2>1 DEF SessionsTypeOK, FreshIds, ProcStates, Sessions
    <2>3. ASSUME NEW id \in Sessions
          PROVE  Faithful(Transcript(id)', read'[id], marked'[id], proc'[id])
      <3>1. Transcript(id)' = Transcript(id)
        BY DEF Transcript
      <3>2. CASE id = nextId'
        BY <1>2, <2>1, <3>1, <3>2, ProcFaithful
      <3>3. CASE id # nextId'
        <4>1. proc'[id] = proc[id]
          BY <1>1, <3>3 DEF SessionsTypeOK
        <4> QED
          BY <1>2, <3>1, <4>1
      <3> QED
        BY <3>2, <3>3
    <2> QED
      BY <1>3, <2>2, <2>3 DEF SInv
  <1>6. ASSUME NEW id \in Sessions, DrainOutput(id) PROVE SInv'
    <2> USE <1>6 DEF DrainOutput, pipeVars
    <2>1. <<>> \in Seq(Line) /\ delivered[id] \o output[id] \in Seq(Line)
      BY <1>2 DEF Transcript
    <2>2. SessionsTypeOK'
      BY <1>1, <2>1 DEF SessionsTypeOK
    <2>3. FreshIds'
      BY <1>1 DEF FreshIds
    <2>4. ASSUME NEW k \in Sessions PROVE Transcript(k)' = Transcript(k)
      <3>1. CASE k = id
        <4>1. delivered'[k] = delivered[k] \o output[k] /\ output'[k] = <<>>
          BY <1>1, <3>1 DEF SessionsTypeOK
        <4> QED
          BY <1>2, <4>1, ConcatEmptySeq DEF Transcript
      <3>2. CASE k # id
        BY <1>1, <3>2 DEF SessionsTypeOK, Transcript
      <3> QED
        BY <3>1, <3>2
    <2> QED
      BY <1>2, <1>3, <2>2, <2>3, <2>4 DEF SInv
  <1>7. ASSUME NEW id \in Sessions, ProcessExits(id) PROVE SInv'
    <2> USE <1>7 DEF ProcessExits, pipeVars
    <2>1. SessionsTypeOK'
      BY <1>1 DEF SessionsTypeOK, ProcStates
    <2>2. FreshIds'
      BY <1>1 DEF FreshIds, SessionsTypeOK
    <2>3. ASSUME NEW k \in Sessions
          PROVE  Faithful(Transcript(k)', read'[k], marked'[k], proc'[k])
      <3>1. Transcript(k)' = Transcript(k)
        BY DEF Transcript
      <3>2. CASE k = id
        BY <1>2, <3>1, <3>2, ProcFaithful
      <3>3. CASE k # id
        <4>1. proc'[k] = proc[k]
          BY <1>1, <3>3 DEF SessionsTypeOK
        <4> QED
          BY <1>2, <3>1, <4>1
      <3> QED
        BY <3>2, <3>3
    <2> QED
      BY <1>3, <2>1, <2>2, <2>3 DEF SInv
  <1>8. ASSUME NEW id \in Sessions, NEW s \in Streams, ProcessWrites(id, s)
        PROVE  SInv'
    <2> USE <1>8 DEF ProcessWrites
    <2>1. SessionsTypeOK' /\ FreshIds'
      BY <1>1 DEF SessionsTypeOK, FreshIds
    <2>2. OutputOnce'
      BY <1>2, <1>3 DEF Transcript
    <2> QED
      BY <2>1, <2>2 DEF SInv
  <1>9. ASSUME NEW id \in Sessions, NEW s \in Streams, AppendOutput(id, s)
        PROVE  SInv'
    <2> USE <1>9 DEF AppendOutput
    <2>1. read[id][s] \in 0 .. MaxLines /\ written[id][s] \in 0 .. MaxLines
      BY <1>1 DEF SessionsTypeOK
    <2>2. NextLine(id, s) \in Line
      BY <2>1 DEF NextLine, Line
    <2>3. Append(output[id], NextLine(id, s)) \in Seq(Line)
      BY <1>2, <2>2, AppendConcat
    <2>4. SessionsTypeOK' /\ FreshIds'
      BY <1>1, <2>1, <2>3 DEF SessionsTypeOK, FreshIds
    <2>5. ASSUME NEW k \in Sessions
          PROVE  Faithful(Transcript(k)', read'[k], marked'[k], proc'[k])
      <3>1. CASE k = id
        <4>1. /\ output'[k] = Append(output[k], NextLine(id, s))
              /\ read'[k] = [read[k] EXCEPT ![s] = @ + 1]
          BY <1>1, <3>1 DEF SessionsTypeOK
        <4>2. Transcript(k)' = delivered[k] \o Append(output[k], NextLine(id, s))
          BY <4>1 DEF Transcript
        <4>3. delivered[k] \o Append(output[k], NextLine(id, s))
                = Append(delivered[k] \o output[k], NextLine(id, s))
          <5>1. \E d \in Seq(Line) : d = delivered[k]
            BY <1>2
          <5>2. \E o \in Seq(Line) : o = output[k]
            BY <1>2
          <5>3. PICK d \in Seq(Line) : d = delivered[k]
            BY <5>1
          <5>4. PICK o \in Seq(Line) : o = output[k]
            BY <5>2
          <5>5. PICK x \in Line : x = NextLine(id, s)
            BY <2>2
          <5>6. d \o Append(o, x) = Append(d \o o, x)
            BY ONLY d \in Seq(Line), o \in Seq(Line), x \in Line
          <5> QED
            BY ONLY <5>3, <5>4, <5>5, <5>6
        <4>4. Transcript(k)' = Append(Transcript(k), NextLine(id, s))
          BY <4>2, <4>3 DEF Transcript
        <4> QED
          BY <1>2, <3>1, <4>1, <4>4, NextLineFaithful DEF NextLine
      <3>2. CASE k # id
        <4>1. output'[k] = output[k] /\ read'[k] = read[k]
          BY <1>1, <3>2 DEF SessionsTypeOK
        <4> QED
          BY <1>2, <4>1 DEF Transcript
      <3> QED
        BY <3>1, <3>2
    <2> QED
      BY <1>3, <2>4, <2>5 DEF SInv
  <1>10. ASSUME NEW id \in Sessions, AppendExit(id) PROVE SInv'
    <2> USE <1>10 DEF AppendExit
    <2>1. ExitLine \in Line
      BY DEF ExitLine, Line
    <2>2. Append(output[id], ExitLine) \in Seq(Line)
      BY <1>2, <2>1, AppendConcat
    <2>3. SessionsTypeOK' /\ FreshIds'
      BY <1>1, <2>2 DEF SessionsTypeOK, FreshIds
    <2>4. ASSUME NEW k \in Sessions
          PROVE  Faithful(Transcript(k)', read'[k], marked'[k], proc'[k])
      <3>1. CASE k = id
        <4>1. /\ output'[k] = Append(output[k], ExitLine) /\ read'[k] = read[k]
              /\ marked[k] = FALSE /\ marked'[k] = TRUE
              /\ proc[k] = "exited" /\ proc'[k] = "exited"
          BY <1>1, <3>1 DEF SessionsTypeOK
        <4>2. Transcript(k)' = delivered[k] \o Append(output[k], ExitLine)
          BY <4>1 DEF Transcript
        <4>3. delivered[k] \o Append(output[k], ExitLine)
                = Append(delivered[k] \o output[k], ExitLine)
          <5>1. \E d \in Seq(Line) : d = delivered[k]
            BY <1>2
          <5>2. \E o \in Seq(Line) : o = output[k]
            BY <1>2
          <5>3. PICK d \in Seq(Line) : d = delivered[k]
            BY <5>1
          <5>4. PICK o \in Seq(Line) : o = output[k]
            BY <5>2
          <5>5. PICK x \in Line : x = ExitLine
            BY <2>1
          <5>6. d \o Append(o, x) = Append(d \o o, x)
            BY ONLY d \in Seq(Line), o \in Seq(Line), x \in Line
          <5> QED
            BY ONLY <5>3, <5>4, <5>5, <5>6
        <4>4. Transcript(k)' = Append(Transcript(k), ExitLine)
          BY <4>2, <4>3 DEF Transcript
        <4> QED
          BY <1>2, <4>1, <4>4, ExitLineFaithful
      <3>2. CASE k # id
        <4>1. output'[k] = output[k] /\ marked'[k] = marked[k]
          BY <1>1, <3>2 DEF SessionsTypeOK
        <4> QED
          BY <1>2, <4>1 DEF Transcript
      <3> QED
        BY <3>1, <3>2
    <2> QED
      BY <1>3, <2>3, <2>4 DEF SInv
  <1> QED
    BY <1>4, <1>5, <1>6, <1>7, <1>8, <1>9, <1>10
       DEF SessionNext, ProcessStep, SessionEvent

-----------------------------------------------------------------------------
(* The loop                                                                 *)

\* What a step of the host does to the sessions is a step of theirs.
LEMMA NextIsSessionNext == TypeOK /\ Next => SessionNext
  <1> SUFFICES ASSUME TypeOK, Next PROVE SessionNext
    OBVIOUS
  <1>1. CASE CloseInput \/ Take \/ InputEnds \/ CallPlain
    BY <1>1 DEF CloseInput, Take, InputEnds, CallPlain, SessionNext
  <1>2. CASE CallExec
    BY <1>2 DEF CallExec, SessionNext
  <1>3. CASE CallRun \/ WriteInput \/ ExitSeen
    BY <1>3 DEF CallRun, WriteInput, ExitSeen, SessionNext
  <1>4. CASE Yielded
    BY <1>4 DEF Yielded, SessionNext, TypeOK
  <1>5. CASE TimedOut \/ Return \/ ChildStep \/ KillLands
    BY <1>5 DEF TimedOut, Return, ChildStep, KillLands, SessionNext
  <1>6. CASE \E kind \in Kinds : Send(kind)
    BY <1>6 DEF Send, SessionNext
  <1>7. CASE \E id \in Sessions : CallWrite(id)
    BY <1>7 DEF CallWrite, SessionNext
  <1>8. CASE \E id \in Sessions : Sessioned(ProcessStep(id))
    BY <1>8 DEF Sessioned, SessionNext
  <1>9. CASE \E id \in Sessions : Sessioned(SessionEvent(id))
    BY <1>9 DEF Sessioned, SessionNext
  <1> QED
    BY <1>1, <1>2, <1>3, <1>4, <1>5, <1>6, <1>7, <1>8, <1>9 DEF Next

\* The part of the invariant that is about the loop, its input and the child.
LoopTypes ==
    /\ mode \in {"mcp", "react", "trun"}
    /\ requests \in Seq(Kinds) /\ closed \in BOOLEAN
    /\ taken \in 0 .. Len(requests)
    /\ pc \in {"idle", "call", "write", "delay", "wait", "pipes",
               "ended", "crashed"}
    /\ answered \in Seq(1 .. MaxRequests)
    /\ pc \in {"write", "delay"} => target \in Sessions

ChildTypes == timed \in BOOLEAN /\ child \in Child

LInv == LoopTypes /\ Bounded /\ Serving /\ CallsAnswered

Busy == {"call", "write", "delay", "wait", "pipes"}

\* An answer to the call that is being served.
LEMMA AnswerSafe ==
  ASSUME LInv, pc \in Busy, Answer, UNCHANGED inVars
  PROVE  LInv'
  <1> USE RequestsAssumption DEF LInv, Answer, inVars
  <1>1. taken \in 1 .. MaxRequests /\ taken \in 1 .. Len(requests)
    BY DEF LoopTypes, Bounded, Serving, Busy
  <1>2. /\ DOMAIN answered = 1 .. Len(answered) /\ Len(answered) \in Nat
        /\ DOMAIN answered' = 1 .. Len(answered) + 1
        /\ answered'[Len(answered) + 1] = taken
        /\ \A i \in 1 .. Len(answered) : answered'[i] = answered[i]
    BY <1>1 DEF LoopTypes
  <1>3. LoopTypes' /\ Bounded' /\ Serving'
    BY <1>1 DEF LoopTypes, Bounded, Serving
  <1>4. requests[taken] \in Calls /\ \A i \in DOMAIN answered : answered[i] < taken
    BY DEF Serving, Busy
  <1>5. pc' \in {"idle", "ended"}
    OBVIOUS
  <1>6. ASSUME NEW i \in DOMAIN answered', NEW j \in DOMAIN answered', i < j
        PROVE  answered'[i] < answered'[j]
    BY <1>2, <1>4, <1>6 DEF CallsAnswered
  <1>7. ASSUME NEW k \in 1 .. taken, requests[k] \in Calls
        PROVE  \E i \in DOMAIN answered' : answered'[i] = k
    <2>1. CASE k = taken
      BY <1>2, <2>1
    <2>2. CASE k # taken
      <3>1. PICK i \in DOMAIN answered : answered[i] = k
        BY <1>7, <2>2 DEF CallsAnswered
      <3> QED
        BY <1>2, <3>1
    <2> QED
      BY <2>1, <2>2
  <1>8. ASSUME NEW i \in DOMAIN answered'
        PROVE  answered'[i] \in {k \in 1 .. taken : requests[k] \in Calls}
    BY <1>1, <1>2, <1>4, <1>8 DEF CallsAnswered
  <1>9. CallsAnswered'
    BY <1>5, <1>6, <1>7, <1>8 DEF CallsAnswered
  <1> QED
    BY <1>3, <1>9

\* The call goes on, or takes the host down.
LEMMA GoOnSafe ==
  ASSUME LInv, pc \in Busy, NEW next \in Busy \union {"crashed"},
         pc' = next, UNCHANGED <<mode, taken, answered>>, UNCHANGED inVars,
         next \in {"write", "delay"} => target' \in Sessions
  PROVE  LInv'
  <1> USE DEF LInv, inVars
  <1>1. LoopTypes' /\ Bounded' /\ Serving'
    BY DEF LoopTypes, Bounded, Serving, Busy
  <1>2. CallsAnswered'
    BY DEF CallsAnswered, Busy
  <1> QED
    BY <1>1, <1>2

\* An exception of a handler.
LEMMA ThrowSafe ==
  ASSUME LInv, pc \in Busy, Throw, UNCHANGED inVars
  PROVE  LInv'
  <1>1. CASE mode = "react"
    BY <1>1, AnswerSafe DEF Throw
  <1>2. CASE mode # "react"
    BY <1>2, GoOnSafe DEF Throw
  <1> QED
    BY <1>1, <1>2

\* The next request is read.
LEMMA TakeSafe ==
  ASSUME LInv, Take
  PROVE  LInv'
  <1> USE DEF LInv, Take, inVars
  <1>1. /\ taken \in 0 .. Len(requests) /\ taken < Len(requests)
        /\ Len(requests) \in Nat /\ taken' = taken + 1
    BY DEF LoopTypes, Pending
  <1>2. /\ pc' \in {"idle", "call", "ended", "crashed"}
        /\ pc' = "call" => requests[taken'] \in Calls
        /\ pc' \in {"idle", "ended"} => requests[taken'] \notin Calls
    BY DEF LoopTypes, Calls
  <1>3. \A i \in DOMAIN answered :
           answered[i] \in 1 .. taken /\ requests[answered[i]] \in Calls
    BY DEF CallsAnswered
  <1>4. LoopTypes' /\ Bounded'
    BY <1>1, <1>2 DEF LoopTypes, Bounded
  <1>5. Serving'
    BY <1>1, <1>2, <1>3 DEF Serving
  <1>6. ASSUME NEW k \in 1 .. taken', requests[k] \in Calls,
               k # taken' \/ pc' \in {"idle", "ended"}
        PROVE  \E i \in DOMAIN answered : answered[i] = k
    <2>1. k \in 1 .. taken
      BY <1>1, <1>2, <1>6
    <2> QED
      BY <1>6, <2>1 DEF CallsAnswered
  <1>7. CallsAnswered'
    <2>1. \A i, j \in DOMAIN answered : i < j => answered[i] < answered[j]
      BY DEF CallsAnswered
    <2>2. \A i \in DOMAIN answered :
             answered[i] \in {k \in 1 .. taken' : requests[k] \in Calls}
      BY <1>1, <1>3
    <2> QED
      BY <1>6, <2>1, <2>2 DEF CallsAnswered
  <1> QED
    BY <1>4, <1>5, <1>7

\* A request arrives.
LEMMA SendSafe ==
  ASSUME LInv, NEW kind \in Kinds, Send(kind)
  PROVE  LInv'
  <1> USE RequestsAssumption DEF LInv, Send, loopVars
  <1>1. /\ requests \in Seq(Kinds) /\ Len(requests) \in Nat
        /\ taken \in 0 .. Len(requests)
    BY DEF LoopTypes
  <1>2. /\ requests' \in Seq(Kinds) /\ Len(requests') = Len(requests) + 1
        /\ \A k \in 1 .. Len(requests) : requests'[k] = requests[k]
    BY <1>1
  <1>3. \A k \in 1 .. taken : requests'[k] = requests[k]
    BY <1>1, <1>2
  <1>4. LoopTypes' /\ Bounded'
    BY <1>1, <1>2 DEF LoopTypes, Bounded
  <1>5. Serving'
    BY <1>1, <1>3 DEF Serving
  <1>6. {k \in 1 .. taken : requests'[k] \in Calls}
          = {k \in 1 .. taken : requests[k] \in Calls}
    BY <1>3
  <1>7. CallsAnswered'
    BY <1>6 DEF CallsAnswered
  <1> QED
    BY <1>4, <1>5, <1>7

\* Every step of the host keeps the part of the loop.
LEMMA LoopSafe == LInv /\ Next => LInv'
  <1> SUFFICES ASSUME LInv, Next PROVE LInv'
    OBVIOUS
  <1>1. ASSUME UNCHANGED <<loopVars, requests>>, closed' \in BOOLEAN PROVE LInv'
    BY <1>1 DEF LInv, loopVars, LoopTypes, Bounded, Serving, CallsAnswered
  <1>2. CASE CloseInput
    BY <1>1, <1>2 DEF CloseInput
  <1>3. CASE Take
    BY <1>3, TakeSafe
  <1>4. CASE InputEnds
    <2> USE <1>4 DEF InputEnds, GoOn, inVars, LInv
    <2>1. LoopTypes' /\ Bounded' /\ Serving'
      BY DEF LoopTypes, Bounded, Serving
    <2>2. CallsAnswered'
      BY DEF CallsAnswered
    <2> QED
      BY <2>1, <2>2
  <1>5. CASE CallPlain
    BY <1>5, AnswerSafe, ThrowSafe DEF CallPlain, Busy
  <1>6. CASE CallExec
    BY <1>6, AnswerSafe, ThrowSafe DEF CallExec, Busy
  <1>7. CASE CallRun
    BY <1>7, ThrowSafe, GoOnSafe DEF CallRun, GoOn, Busy
  <1>8. CASE WriteInput
    <2>1. target \in Sessions
      BY <1>8 DEF WriteInput, LInv, LoopTypes
    <2> QED
      BY <1>8, <2>1, ThrowSafe, GoOnSafe DEF WriteInput, GoOn, Busy
  <1>9. CASE Yielded
    BY <1>9, AnswerSafe DEF Yielded, Busy
  <1>10. CASE ExitSeen
    BY <1>10, GoOnSafe DEF ExitSeen, GoOn, Busy
  <1>11. CASE TimedOut
    BY <1>11, GoOnSafe DEF TimedOut, GoOn, Busy
  <1>12. CASE Return
    BY <1>12, AnswerSafe, ThrowSafe DEF Return, Busy
  <1>13. CASE ChildStep \/ KillLands
    BY <1>1, <1>13 DEF ChildStep, KillLands, inVars, LInv, LoopTypes
  <1>14. ASSUME NEW kind \in Kinds, Send(kind) PROVE LInv'
    BY <1>14, SendSafe
  <1>15. ASSUME NEW id \in Sessions, CallWrite(id) PROVE LInv'
    BY <1>15, AnswerSafe, GoOnSafe DEF CallWrite, Busy
  <1>16. ASSUME NEW id \in Sessions,
                Sessioned(ProcessStep(id)) \/ Sessioned(SessionEvent(id))
         PROVE  LInv'
    BY <1>1, <1>16 DEF Sessioned, inVars, LInv, LoopTypes
  <1> QED
    BY <1>2, <1>3, <1>4, <1>5, <1>6, <1>7, <1>8, <1>9, <1>10, <1>11, <1>12,
       <1>13, <1>14, <1>15, <1>16 DEF Next

\* And the types of the child.
LEMMA ChildSafe == ChildTypes /\ Next => ChildTypes'
  <1> SUFFICES ASSUME ChildTypes, Next PROVE ChildTypes'
    OBVIOUS
  <1> USE DEF ChildTypes
  <1>1. CASE UNCHANGED runVars
    BY <1>1 DEF runVars
  <1>2. CASE CallRun
    <2>1. ASSUME timed' \in BOOLEAN,
                 child' = [alive |-> TRUE, pipe |-> "child", kill |-> "no"]
          PROVE  ChildTypes'
      <3>1. child' \in Child
        BY <2>1 DEF Child
      <3> QED
        BY <2>1, <3>1
    <2> QED
      BY <1>1, <1>2, <2>1, Zenon DEF CallRun
  <1>3. CASE TimedOut
    <2>1. PICK kill \in {"sent", "failed"} :
            child' = [child EXCEPT !.kill = IF child.alive THEN kill ELSE @]
      BY <1>3 DEF TimedOut
    <2>2. child' \in Child
      BY <2>1 DEF Child
    <2> QED
      BY <1>3, <2>2 DEF TimedOut
  <1>4. CASE ChildStep
    BY <1>4 DEF ChildStep, Child, Dead
  <1>5. CASE KillLands
    BY <1>5 DEF KillLands, Child, Dead
  <1> QED
    BY <1>1, <1>2, <1>3, <1>4, <1>5
       DEF Next, CloseInput, Take, InputEnds, CallPlain, CallExec, WriteInput,
           Yielded, ExitSeen, Return, Send, CallWrite, Sessioned

-----------------------------------------------------------------------------
\* The invariant is inductive.
LEMMA NextInv == IInv /\ [Next]_vars => IInv'
  <1> SUFFICES ASSUME IInv, [Next]_vars PROVE IInv'
    OBVIOUS
  <1>1. TypeOK <=> SessionsTypeOK /\ LoopTypes /\ ChildTypes
    BY DEF TypeOK, LoopTypes, ChildTypes
  <1>2. SInv /\ LInv /\ ChildTypes
    BY <1>1 DEF IInv, SInv, LInv
  <1>3. CASE Next
    <2>1. SInv' /\ LInv' /\ ChildTypes'
      BY <1>2, <1>3, NextIsSessionNext, SessionsSafe, LoopSafe, ChildSafe DEF IInv
    <2> QED
      BY <2>1 DEF IInv, SInv, LInv, TypeOK, LoopTypes, ChildTypes
  <1>4. CASE UNCHANGED vars
    <2>1. SInv'
      BY <1>2, <1>4, SessionsSafe DEF vars, SessionNext
    <2>2. LInv' /\ ChildTypes'
      BY <1>2, <1>4 DEF vars, loopVars, inVars, runVars, LInv, ChildTypes,
         LoopTypes, Bounded, Serving, CallsAnswered
    <2> QED
      BY <2>1, <2>2 DEF IInv, SInv, LInv, TypeOK, LoopTypes, ChildTypes
  <1> QED
    BY <1>3, <1>4

\* The invariant holds in every state of the host.
THEOREM Invariance == Spec => []IInv
  BY InitInv, NextInv, PTL DEF Spec

\* The types of ToolHost hold for any number of sessions, lines and requests.
THEOREM TypesHold == Spec => []TypeOK
  BY Invariance, PTL DEF IInv

\* Every line a reader has got, and the exit line, is returned to the client
\* once and in the order of its stream (ExecSessionManager.cs).
THEOREM OutputIsOnce == Spec => []OutputOnce
  BY Invariance, PTL DEF IInv

\* The answers are those of the calls that have been read, in their order; only
\* that of the call being served may be missing (Program.cs).
THEOREM AnswersInOrder == Spec => []CallsAnswered
  BY Invariance, PTL DEF IInv
===============================================================================
