------------------------- MODULE UnifiedExecProofs -------------------------
(***************************************************************************)
(* Proofs about the processes of a session: however many commands there    *)
(* are, and whatever the limits, no process is left behind, none is        *)
(* reported to have ended twice, the model reads the output of each in     *)
(* order, and the user is asked once about a run at most.                  *)
(***************************************************************************)
EXTENDS UnifiedExec, FiniteSetTheorems, TLAPS

-----------------------------------------------------------------------------
(* The first element of a sequence that is removed                          *)

\* A set of positions has a first one: below it there is the fewest.
LEMMA Least ==
  ASSUME NEW n \in Nat, NEW T \in SUBSET (1 .. n), T # {}
  PROVE  \E x \in T : \A y \in T : x <= y
<1> DEFINE Below(x) == {y \in T : y < x}
           All == {Below(x) : x \in T}
<1>1. IsWellFoundedOn(StrictSubsetOrdering(1 .. n), FiniteSubsetsOf(1 .. n))
  BY FS_StrictSubsetOrderingWellFounded
<1>2. All \subseteq FiniteSubsetsOf(1 .. n) /\ All # {}
  <2>1. FiniteSubsetsOf(1 .. n) = SUBSET (1 .. n)
    <3>1. IsFiniteSet(1 .. n)
      BY FS_Interval
    <3> QED
      BY <3>1, FS_FiniteSubsetsOfFinite
  <2>2. ASSUME NEW Y \in All PROVE Y \in SUBSET (1 .. n)
    <3>1. PICK x \in T : Y = Below(x)
      OBVIOUS
    <3> QED
      BY <3>1
  <2>3. All # {}
    OBVIOUS
  <2> HIDE DEF All
  <2> QED
    BY <2>1, <2>2, <2>3
<1>3. PICK X \in All : \A Y \in All : ~(<<Y, X>> \in StrictSubsetOrdering(1 .. n))
  <2> HIDE DEF All
  <2> QED
    BY <1>1, <1>2, WFMin
<1>4. PICK x \in T : X = Below(x)
  OBVIOUS
<1>5. ASSUME NEW y \in T, y < x PROVE FALSE
  <2>1. y \in Below(x) /\ y \notin Below(y) /\ \A z \in Below(y) : z \in Below(x)
    BY <1>5
  <2>2. <<Below(y), X>> \in StrictSubsetOrdering(1 .. n)
    BY <2>1, <1>4 DEF StrictSubsetOrdering
  <2> QED
    BY <2>2, <1>3
<1> QED
  BY <1>5

LEMMA MinIsIn ==
  ASSUME NEW n \in Nat, NEW T \in SUBSET (1 .. n), T # {}
  PROVE  Min(T) \in T
BY Least DEF Min

\* What RemoveFirst returns, position by position.
LEMMA RemoveFirstIs ==
  ASSUME NEW S, NEW s \in Seq(S), NEW e, e \in ToSet(s)
  PROVE  \E n \in 1 .. Len(s) :
            /\ s[n] = e /\ RemoveFirst(s, e) \in Seq(S)
            /\ Len(RemoveFirst(s, e)) = Len(s) - 1
            /\ \A i \in 1 .. Len(s) - 1 : RemoveFirst(s, e)[i] = IF i < n THEN s[i] ELSE s[i + 1]
<1> DEFINE I == {i \in 1 .. Len(s) : s[i] = e}
           n == Min(I)
           r == RemoveAt(s, n)
<1>1. n \in 1 .. Len(s) /\ s[n] = e
  <2>1. I \in SUBSET (1 .. Len(s)) /\ I # {} /\ Len(s) \in Nat
    BY DEF ToSet
  <2>2. n \in I
    BY <2>1, MinIsIn
  <2> QED
    BY <2>2
<1>2. RemoveFirst(s, e) = r
  BY <1>1 DEF RemoveFirst, SelectInSeq
<1> HIDE DEF n
<1> DEFINE a == SubSeq(s, 1, n - 1)
           b == SubSeq(s, n + 1, Len(s))
<1>3. a \in Seq(S) /\ Len(a) = n - 1 /\ \A i \in 1 .. n - 1 : a[i] = s[i]
  BY <1>1
<1>4. b \in Seq(S) /\ Len(b) = Len(s) - n /\ \A i \in 1 .. Len(s) - n : b[i] = s[n + i]
  BY <1>1
<1>5. r = a \o b
  BY DEF RemoveAt
<1> HIDE DEF a, b, r
<1>6. r \in Seq(S) /\ Len(r) = Len(s) - 1
  BY <1>1, <1>3, <1>4, <1>5
<1>7. ASSUME NEW i \in 1 .. Len(s) - 1 PROVE r[i] = IF i < n THEN s[i] ELSE s[i + 1]
  <2>1. CASE i < n
    BY <1>1, <1>3, <1>4, <1>5, <2>1
  <2>2. CASE i >= n
    <3>1. i - (n - 1) \in 1 .. Len(s) - n /\ r[i] = b[i - (n - 1)]
      BY <1>1, <1>3, <1>4, <1>5, <2>2
    <3>2. b[i - (n - 1)] = s[n + (i - (n - 1))] /\ n + (i - (n - 1)) = i + 1
      BY <1>1, <1>4, <3>1
    <3> QED
      BY <1>1, <2>2, <3>1, <3>2
  <2> QED
    BY <1>1, <2>1, <2>2
<1> QED
  BY <1>1, <1>2, <1>6, <1>7

\* No element comes or goes but the one that is removed.
LEMMA FirstRemoved ==
  ASSUME NEW S, NEW s \in Seq(S), NEW e
  PROVE  /\ RemoveFirst(s, e) \in Seq(S)
         /\ ToSet(RemoveFirst(s, e)) \subseteq ToSet(s)
         /\ ToSet(s) \ {e} \subseteq ToSet(RemoveFirst(s, e))
<1>1. CASE e \notin ToSet(s)
  <2>1. ~ \E i \in 1 .. Len(s) : s[i] = e
    BY <1>1 DEF ToSet
  <2>2. RemoveFirst(s, e) = s
    BY <2>1 DEF RemoveFirst
  <2> QED
    BY <1>1, <2>2
<1>2. CASE e \in ToSet(s)
  <2> DEFINE r == RemoveFirst(s, e)
  <2>1. PICK n \in 1 .. Len(s) :
           /\ s[n] = e /\ r \in Seq(S) /\ Len(r) = Len(s) - 1
           /\ \A i \in 1 .. Len(s) - 1 : r[i] = IF i < n THEN s[i] ELSE s[i + 1]
    <3>1. s \in Seq(S) /\ e \in ToSet(s)
      BY <1>2
    <3> QED
      BY ONLY <3>1, RemoveFirstIs
  <2> HIDE DEF r
  <2>2. DOMAIN r = 1 .. Len(s) - 1 /\ DOMAIN s = 1 .. Len(s) /\ Len(s) \in Nat
    BY <2>1
  <2>3. ASSUME NEW i \in DOMAIN r PROVE r[i] \in ToSet(s)
    <3>1. CASE i < n
      BY <2>1, <2>2, <3>1 DEF ToSet
    <3>2. CASE i >= n
      <4>1. i + 1 \in DOMAIN s /\ r[i] = s[i + 1]
        BY <2>1, <2>2, <3>2
      <4> QED
        BY <4>1 DEF ToSet
    <3> QED
      BY <2>1, <2>2, <3>1, <3>2
  <2>4. ASSUME NEW i \in DOMAIN s, s[i] # e PROVE s[i] \in ToSet(r)
    <3>1. CASE i < n
      BY <2>1, <2>2, <3>1 DEF ToSet
    <3>2. CASE i > n
      <4>1. i - 1 \in DOMAIN r /\ r[i - 1] = s[i]
        BY <2>1, <2>2, <3>2
      <4> QED
        BY <4>1 DEF ToSet
    <3> QED
      BY <2>1, <2>2, <2>4, <3>1, <3>2
  <2> QED
    BY <2>1, <2>3, <2>4 DEF ToSet, r
<1> QED
  BY <1>1, <1>2

NoTwice(s) == \A i, j \in 1 .. Len(s) : s[i] = s[j] => i = j

\* What is in the sequence once is gone when it is removed.
LEMMA OnceRemoved ==
  ASSUME NEW S, NEW s \in Seq(S), NEW e, e \in ToSet(s), NoTwice(s)
  PROVE  /\ NoTwice(RemoveFirst(s, e)) /\ Len(RemoveFirst(s, e)) = Len(s) - 1
         /\ e \notin ToSet(RemoveFirst(s, e))
<1> DEFINE r == RemoveFirst(s, e)
<1>1. PICK n \in 1 .. Len(s) :
         /\ s[n] = e /\ r \in Seq(S) /\ Len(r) = Len(s) - 1
         /\ \A i \in 1 .. Len(s) - 1 : r[i] = IF i < n THEN s[i] ELSE s[i + 1]
  BY RemoveFirstIs
<1> HIDE DEF r
<1> DEFINE At(i) == IF i < n THEN i ELSE i + 1
<1>2. Len(s) \in Nat /\ \A i \in 1 .. Len(s) - 1 : At(i) \in 1 .. Len(s) /\ At(i) # n /\ r[i] = s[At(i)]
  BY <1>1
<1>3. \A i, j \in 1 .. Len(s) - 1 : At(i) = At(j) => i = j
  BY <1>1
<1> HIDE DEF At
<1>4. NoTwice(r)
  BY <1>1, <1>2, <1>3 DEF NoTwice
<1>5. e \notin ToSet(r)
  <2>1. DOMAIN r = 1 .. Len(s) - 1
    BY <1>1, <1>2
  <2>2. \A i \in 1 .. Len(s) - 1 : r[i] # e
    BY <1>1, <1>2 DEF NoTwice
  <2> QED
    BY <2>1, <2>2 DEF ToSet
<1> QED
  BY <1>1, <1>4, <1>5 DEF r

LEMMA OnceAppended ==
  ASSUME NEW S, NEW s \in Seq(S), NEW e \in S, e \notin ToSet(s), NoTwice(s)
  PROVE  NoTwice(Append(s, e)) /\ Len(Append(s, e)) = Len(s) + 1
<1>1. /\ Len(Append(s, e)) = Len(s) + 1 /\ Append(s, e)[Len(s) + 1] = e /\ Len(s) \in Nat
      /\ \A i \in 1 .. Len(s) : Append(s, e)[i] = s[i] /\ s[i] # e
  BY DEF ToSet
<1> QED
  BY <1>1 DEF NoTwice

\* There are as many elements as positions.
LEMMA OnceCounted ==
  ASSUME NEW S, NEW s \in Seq(S), NoTwice(s)
  PROVE  IsFiniteSet(ToSet(s)) /\ Cardinality(ToSet(s)) = Len(s)
<1>1. Len(s) \in Nat /\ DOMAIN s = 1 .. Len(s) /\ ToSet(s) = {s[i] : i \in 1 .. Len(s)}
      /\ s \in [1 .. Len(s) -> ToSet(s)]
  BY DEF ToSet
<1>2. s \in Bijection(1 .. Len(s), ToSet(s))
  BY <1>1 DEF NoTwice, Bijection, Injection, Surjection, IsInjective
<1>3. IsFiniteSet(1 .. Len(s)) /\ Cardinality(1 .. Len(s)) = Len(s)
  <2> DEFINE n == Len(s)
  <2>1. 1 \in Int /\ n \in Int /\ n \in Nat
    BY <1>1
  <2> HIDE DEF n
  <2>2. IsFiniteSet(1 .. n) /\ Cardinality(1 .. n) = IF 1 > n THEN 0 ELSE n - 1 + 1
    BY <2>1, FS_Interval
  <2>3. (IF 1 > n THEN 0 ELSE n - 1 + 1) = n
    BY <2>1
  <2> QED
    BY <2>2, <2>3 DEF n
<1> QED
  BY <1>2, <1>3, FS_Bijection DEF ExistsBijection

LEMMA MaxOfTwo ==
  ASSUME NEW a \in Int, NEW b \in Int
  PROVE  Max({a, b}) = IF a <= b THEN b ELSE a
<1> DEFINE m == IF a <= b THEN b ELSE a
<1>1. m \in {a, b} /\ \A y \in {a, b} : m >= y
  OBVIOUS
<1>2. \A x \in {a, b} : (\A y \in {a, b} : x >= y) => x = m
  OBVIOUS
<1> QED
  BY <1>1, <1>2 DEF Max

LEMMA WiderSeq ==
  ASSUME NEW A, NEW B, A \subseteq B, NEW s \in Seq(A)
  PROVE  s \in Seq(B)
<1>1. Len(s) \in Nat /\ s \in [1 .. Len(s) -> A]
  OBVIOUS
<1>2. s \in [1 .. Len(s) -> B]
  BY <1>1
<1> QED
  BY <1>1, <1>2

LEMMA Appended ==
  ASSUME NEW S, NEW s \in Seq(S), NEW e \in S
  PROVE  ToSet(Append(s, e)) = ToSet(s) \union {e}
<1>1. /\ Len(Append(s, e)) = Len(s) + 1 /\ Append(s, e)[Len(s) + 1] = e /\ Len(s) \in Nat
      /\ \A i \in 1 .. Len(s) : Append(s, e)[i] = s[i]
      /\ DOMAIN Append(s, e) = 1 .. Len(s) + 1 /\ DOMAIN s = 1 .. Len(s)
  OBVIOUS
<1>2. ToSet(Append(s, e)) = {Append(s, e)[i] : i \in 1 .. Len(s) + 1} /\ ToSet(s) = {s[i] : i \in 1 .. Len(s)}
  BY <1>1 DEF ToSet
<1>3. 1 .. Len(s) + 1 = 1 .. Len(s) \union {Len(s) + 1}
  BY <1>1
<1> QED
  BY <1>1, <1>2, <1>3

-----------------------------------------------------------------------------
(* The inductive invariant                                                  *)

\* What the stage of the orchestrator says of the approval the run has.
AskInv ==
  /\ OrchestratorTypeOK
  /\ asks \in {0, 1}
  /\ asks = 1 => mode.policy # "never"
  /\ approved => asks = 1 \/ ApprovalKey \in cached
  /\ stage = "off" => asks = 0 /\ ~approved
  /\ stage = "ask" => /\ asks = 0 /\ ~approved
                      /\ request.need = "ask" /\ mode.policy # "never"
  /\ stage = "again" => /\ asks = 0 /\ ~approved
                        /\ request.need # "ask" /\ mode.policy # "never"
  /\ stage = "first" /\ ~approved => asks = 0 /\ request.need # "ask"
  /\ stage \in {"ask", "first"} => boxed = FirstBoxed(request)
  /\ stage = "second" => asks = 1 \/ ApprovalKey \in cached

\* What is left for further commands, and where a call is when there is none.
CallInv ==
  /\ calls + left["command"] <= MaxCommands
  /\ pc = "idle" => cur = 0 /\ hand = {}
  /\ pc # "idle" => cur # 0 /\ ~down
  /\ down => used = <<>>

BaseInv == TypeOK /\ CallInv

\* A command there has not been yet.
Fresh(c) ==
  /\ proc[c] = "none" /\ written[c] = 0 /\ ended[c] = 0
  /\ buffer[c] = {} /\ told[c] = {} /\ pos[c] = 0
  /\ c \notin killed \union token \union watched

\* A cancelled session that was not terminated has exited. Until the command is
\* streamed nobody else knows of it, and until it is stored nobody reports it.
SessionInv ==
  /\ \A c \in Commands : c > calls => Fresh(c)
  /\ token \ killed \subseteq {c \in Commands : proc[c] = "exited"}
  /\ \A c \in watched : ended[c] = 0
  /\ pc = "open" => proc[cur] = "none" /\ written[cur] = 0 /\ pos[cur] = 0 /\ buffer[cur] = {}
  /\ pc \in {"open", "probe"} =>
        /\ cur \notin killed \union token \union watched
        /\ ended[cur] = 0 /\ hand = {} /\ told[cur] = {}
  /\ pc \in {"collect", "judge", "store", "warn"} => ended[cur] = 0 /\ cur \notin watched

Held(c) == IF c = cur THEN hand ELSE {}

\* What has been read from the channel, wherever it is now.
Ordered(c) ==
  /\ pos[c] <= written[c]
  /\ told[c] \union Held(c) \union buffer[c] \subseteq 1 .. pos[c]
  /\ \A i \in told[c], j \in Held(c) \union buffer[c] : i < j
  /\ \A i \in Held(c), j \in buffer[c] : i < j
  /\ lost[c] = {} => 1 .. pos[c] \subseteq told[c] \union Held(c) \union buffer[c]
  /\ "lagged" \notin lost[c] => \A i \in buffer[c] : i .. pos[c] \subseteq buffer[c]

OutputInv == \A c \in Commands : Ordered(c)

\* A command is stored once at most, and not before its call stores it.
StoreInv ==
  /\ NoTwice(used) /\ Len(used) <= MaxSessions
  /\ pc \in {"open", "probe", "collect", "judge", "store"} => cur \notin Stored
-----------------------------------------------------------------------------
(* Approvals                                                                *)

OrchestratorNext ==
  (\E r \in Requests : OrchestratorBegin(r)) \/ Approval \/ Denied \/ Fails \/ OrchestratorEnds

LEMMA StepOfOrchestrator ==
  ASSUME [Next]_vars
  PROVE  [OrchestratorNext]_orchestrator
<1> USE DEF OrchestratorNext
<1>1. CASE ExecCommand
  BY <1>1 DEF ExecCommand
<1>2. CASE Answered
  BY <1>2 DEF Answered
<1>3. CASE Spawn
  BY <1>3 DEF Spawn
<1>4. CASE ProbeDenied
  BY <1>4 DEF ProbeDenied
<1>5. CASE Refused \/ Respond \/ Dropped
  BY <1>5 DEF Refused, Respond, Dropped
<1>6. CASE UNCHANGED orchestrator
  BY <1>6
<1> QED
  BY <1>1, <1>2, <1>3, <1>4, <1>5, <1>6
     DEF Next, Call, Background, vars, WriteStdin, Shutdown, Probed, Collect, Finished, Lives,
         Store, Warned, Refresh, Write, Exit, Signal, Buffer, Stream, StreamEnds, ReportEnd

LEMMA AskInvStep ==
  ASSUME AskInv, [OrchestratorNext]_orchestrator
  PROVE  AskInv'
<1> USE NoRetryAssumption DEF AskInv, OrchestratorTypeOK, ApprovalKey
<1>1. ASSUME NEW r \in Requests, OrchestratorBegin(r) PROVE AskInv'
  BY <1>1 DEF OrchestratorBegin, Possible, FirstBoxed, Requests
<1>2. CASE Approval
  <2>0. request.escalated \in BOOLEAN
    BY DEF Requests
  <2>3. asks' \in {asks, asks + 1} /\ cached' \in {cached, cached \union {request.escalated}}
    BY <1>2 DEF Approval
  <2>1. CASE stage = "ask"
    <3>1. stage' \in {"first", "refused"} /\ approved' \in BOOLEAN
      BY <1>2, <2>1 DEF Approval
    <3>2. stage' = "first" => approved'
      <4>1. stage' = "first" => approved' = (approved \/ stage = "ask")
        BY <1>2, <2>1 DEF Approval
      <4> QED
        BY <2>1, <4>1
    <3>3. stage' = "refused" => ~approved'
      BY <1>2, <2>1 DEF Approval
    <3>4. asks' = 1 \/ ApprovalKey' \in cached'
      BY <1>2, <2>1 DEF Approval
    <3>5. asks' \in {0, 1} /\ cached' \subseteq BOOLEAN
      BY <2>0, <2>3, <2>1
    <3>6. mode' = mode /\ request' = request /\ boxed' = boxed
      BY <1>2 DEF Approval
    <3>7. FirstBoxed(request)' = FirstBoxed(request)
      BY <3>6 DEF FirstBoxed
    <3> QED
      BY <2>1, <3>1, <3>2, <3>3, <3>4, <3>5, <3>6, <3>7
  <2>2. CASE stage = "again"
    <3>1. stage' \in {"second", "refused"} /\ ~approved' /\ approved' \in BOOLEAN
      BY <1>2, <2>2 DEF Approval
    <3>2. asks' \in {0, 1} /\ cached' \subseteq BOOLEAN
      BY <2>0, <2>3, <2>2
    <3>4. stage' = "second" => asks' = 1 \/ ApprovalKey' \in cached'
      BY <1>2, <2>2 DEF Approval
    <3>3. mode' = mode /\ request' = request /\ boxed' = boxed
      BY <1>2 DEF Approval
    <3> QED
      BY <2>2, <3>1, <3>2, <3>3, <3>4
  <2> QED
    BY <1>2, <2>1, <2>2 DEF Approval
<1>3. CASE Denied
  BY <1>3 DEF Denied, FirstBoxed
<1>4. CASE Fails
  BY <1>4 DEF Fails
<1>5. CASE OrchestratorEnds
  BY <1>5 DEF OrchestratorEnds, Requests, NoRequest
<1>6. CASE UNCHANGED orchestrator
  <2>1. /\ mode' = mode /\ cached' = cached /\ stage' = stage /\ request' = request
        /\ approved' = approved /\ asks' = asks /\ boxed' = boxed
    BY <1>6 DEF orchestrator
  <2>2. FirstBoxed(request)' = FirstBoxed(request)
    BY <2>1 DEF FirstBoxed
  <2> QED
    BY <2>1, <2>2
<1> QED
  BY <1>1, <1>2, <1>3, <1>4, <1>5, <1>6 DEF OrchestratorNext

LEMMA AskInvInit == Init => AskInv
<1> SUFFICES ASSUME OrchestratorInit PROVE AskInv
  BY DEF Init
<1>1. /\ mode \in Modes /\ request = NoRequest /\ NoRequest \in Requests
      /\ stage = "off" /\ asks = 0 /\ ~approved /\ cached = {} /\ ~boxed
      /\ approved \in BOOLEAN /\ boxed \in BOOLEAN
  BY DEF OrchestratorInit, Requests, NoRequest
<1> QED
  BY <1>1 DEF AskInv, OrchestratorTypeOK

LEMMA AskInvHolds == Spec => []AskInv
<1>1. AskInv /\ [Next]_vars => AskInv'
  BY StepOfOrchestrator, AskInvStep
<1> QED
  BY <1>1, AskInvInit, PTL DEF Spec

\* A call of exec_command asks the user at most once, never under the policy
\* "never", and its process is outside the sandbox only with an approval or
\* because request, policy or platform have it so from the start.
THEOREM Approvals == Spec => []ApprovalsHold
<1>1. AskInv => ApprovalsHold
  BY DEF AskInv, ApprovalsHold
<1> QED
  BY <1>1, AskInvHolds, PTL
-----------------------------------------------------------------------------
(* Types                                                                    *)

LEMMA FollowingIs ==
  ASSUME TypeOK, NEW c \in Commands, NEW p \in Nat, p < written[c]
  PROVE  Following(c, p) \in Nat /\ p < Following(c, p) /\ Following(c, p) <= written[c]
<1>1. written[c] \in Nat /\ Retained \in Nat \ {0}
  BY UnifiedExecAssumption DEF TypeOK
<1>2. Following(c, p) = Max({p + 1, written[c] - Retained + 1})
  BY DEF Following
<1> DEFINE a == p + 1
           b == written[c] - Retained + 1
<1>3. a \in Int /\ b \in Int /\ a <= written[c] /\ b <= written[c]
  BY <1>1
<1>4. Max({a, b}) = IF a <= b THEN b ELSE a
  BY <1>3, MaxOfTwo
<1> QED
  BY <1>1, <1>2, <1>3, <1>4

LEMMA NewestIs ==
  ASSUME NEW chunks
  PROVE  Newest(chunks) \subseteq chunks
BY DEF Newest

LEMMA TruncatedIs ==
  ASSUME NEW chunks, NEW size
  PROVE  Truncated(chunks, size) \subseteq chunks
BY DEF Truncated

LEMMA StoredIs ==
  ASSUME TypeOK
  PROVE  Stored \subseteq 1 .. calls /\ 1 .. calls \subseteq Commands
<1>1. used \in Seq(1 .. calls) /\ calls \in Nat /\ calls <= MaxCommands /\ MaxCommands \in Nat
  BY UnifiedExecAssumption DEF TypeOK
<1> QED
  BY <1>1 DEF Stored, ToSet, Commands

\* The sessions beyond the protected ones.
Old == {used[i] : i \in 1 .. Len(used) - Protected}

LEMMA FirstOfIs ==
  ASSUME TypeOK, NEW T
  PROVE  IF Old \intersect T = {} THEN FirstOf(T) = {}
         ELSE \E e \in Old \intersect T : FirstOf(T) = {e}
<1> DEFINE n == Len(used) - Protected
           old == SubSeq(used, 1, n)
           in == {i \in DOMAIN old : old[i] \in T}
<1>1. used \in Seq(1 .. calls) /\ Len(used) \in Nat /\ n \in Int /\ n <= Len(used)
  BY UnifiedExecAssumption DEF TypeOK
<1>2. DOMAIN old = 1 .. n /\ \A i \in 1 .. n : old[i] = used[i]
  <2>1. CASE n < 1
    <3>1. DOMAIN old = {} /\ 1 .. n = {}
      BY <1>1, <2>1
    <3> QED
      BY <3>1
  <2>2. CASE n >= 1
    BY <1>1, <2>2
  <2> QED
    BY <1>1, <2>1, <2>2
<1>3. FirstOf(T) = IF in = {} THEN {} ELSE {old[Min(in)]}
  BY DEF FirstOf
<1>4. Old = {used[i] : i \in 1 .. n}
  BY DEF Old
<1> HIDE DEF old, n
<1>5. CASE in = {}
  <2>1. Old \intersect T = {}
    BY <1>2, <1>4, <1>5
  <2> QED
    BY <1>3, <1>5, <2>1
<1>6. CASE in # {}
  <2>1. in \in SUBSET (1 .. n) /\ n \in Nat
    BY <1>1, <1>2, <1>6 DEF n
  <2>2. Min(in) \in in
    <3> HIDE DEF in
    <3> QED
      BY <1>6, <2>1, MinIsIn
  <2>3. old[Min(in)] \in Old \intersect T
    BY <1>2, <1>4, <2>2
  <2> QED
    BY <1>3, <1>6, <2>3
<1> QED
  BY <1>5, <1>6

LEMMA PrunedIs ==
  ASSUME TypeOK
  PROVE  /\ Pruned \subseteq Commands /\ Pruned \subseteq Stored
         /\ Kept \in Seq(1 .. calls)
         /\ Stored \ Pruned \subseteq ToSet(Kept) /\ ToSet(Kept) \subseteq Stored
<1>1. used \in Seq(1 .. calls) /\ calls \in Nat /\ calls <= MaxCommands /\ MaxCommands \in Nat
  BY UnifiedExecAssumption DEF TypeOK
<1>2. Stored \subseteq 1 .. calls /\ 1 .. calls \subseteq Commands
  BY StoredIs
<1>3. ASSUME NEW T, FirstOf(T) # {} PROVE \E e \in Stored : FirstOf(T) = {e}
  <2>1. \A i \in 1 .. Len(used) - Protected : used[i] \in Stored
    BY <1>1, UnifiedExecAssumption DEF Stored, ToSet
  <2> QED
    BY <1>3, <2>1, FirstOfIs DEF Old
<1>4. CASE Pruned = {}
  BY <1>1, <1>4 DEF Kept, Stored
<1>5. CASE Pruned # {}
  <2>1. PICK e \in Stored : Pruned = {e}
    BY <1>3, <1>5 DEF Pruned
  <2>2. Kept = RemoveFirst(used, e)
    BY <2>1 DEF Kept
  <2> QED
    BY <1>1, <1>2, <2>1, <2>2, FirstRemoved DEF Stored
<1> QED
  BY <1>4, <1>5

LEMMA Spent ==
  ASSUME TypeOK, NEW what \in Bounded, Spend(what)
  PROVE  left' \in [Bounded -> Nat] /\ left'["command"] \in Nat /\ left["command"] \in Nat
         /\ left'["command"] = IF what = "command" THEN left["command"] - 1 ELSE left["command"]
BY DEF TypeOK, Spend, Bounded

LEMMA BaseInvStep ==
  ASSUME BaseInv, [Next]_vars, OrchestratorTypeOK'
  PROVE  BaseInv'
<1> USE DEF BaseInv, CallInv
<1>0. /\ calls \in Nat /\ MaxCommands \in Nat /\ calls <= MaxCommands
      /\ (pc # "idle" => cur \in Commands /\ cur \in 1 .. calls)
      /\ left["command"] \in Nat
  BY UnifiedExecAssumption DEF TypeOK, Commands, Bounded
<1>1. CASE ExecCommand
  <2>1. "command" \in Bounded
    BY DEF Bounded
  <2>2. left["command"] > 0 /\ left'["command"] = left["command"] - 1 /\ left' \in [Bounded -> Nat]
    BY <1>1, <2>1, Spent DEF ExecCommand, Spend
  <2>3. calls' = calls + 1 /\ cur' = calls + 1 /\ calls' \in 0 .. MaxCommands
    BY <1>0, <1>1, <2>2 DEF ExecCommand
  <2>4. used \in Seq(1 .. calls')
    <3>1. 1 .. calls \subseteq 1 .. calls'
      BY <1>0, <2>3
    <3>2. used \in Seq(1 .. calls)
      BY DEF TypeOK
    <3> QED
      BY <3>1, <3>2, WiderSeq
  <2>5. TypeOK'
    BY <1>0, <1>1, <2>2, <2>3, <2>4
       DEF ExecCommand, TypeOK, Goto, process, output, events, results
  <2>6. CallInv'
    BY <1>0, <1>1, <2>2, <2>3 DEF ExecCommand, Goto
  <2> QED
    BY <2>5, <2>6
<1>2. ASSUME NEW c \in Commands, WriteStdin(c) PROVE BaseInv'
  <2>1. left'["command"] = left["command"] /\ left' \in [Bounded -> Nat]
    BY <1>2, Spent DEF WriteStdin, Bounded
  <2>2. used \in Seq(1 .. calls) /\ c \in 1 .. calls
    BY <1>2, <1>0 DEF WriteStdin, Stored, ToSet, TypeOK
  <2>3. calls' = calls /\ used' \in Seq(1 .. calls') /\ cur' \in 0 .. calls'
    <3>1. RemoveFirst(used, c) \in Seq(1 .. calls)
      BY <2>2, FirstRemoved
    <3> QED
      BY <1>0, <1>2, <2>2, <3>1 DEF WriteStdin
  <2>4. ~down
    BY <1>2 DEF WriteStdin, Stored, ToSet
  <2>5. TypeOK'
    BY <1>0, <1>2, <2>1, <2>2, <2>3 DEF WriteStdin, TypeOK, Goto, process, output, events, results
  <2>6. CallInv'
    BY <1>0, <1>2, <2>1, <2>2, <2>4 DEF WriteStdin, Goto
  <2> QED
    BY <2>5, <2>6
<1>3. CASE Answered
  BY <1>0, <1>3 DEF Answered, TypeOK, call, process, output, events, results
<1>4. CASE Spawn
  BY <1>0, <1>4 DEF Spawn, TypeOK, Goto, output, events, results
<1>5. CASE ProbeDenied
  <2>1. TypeOK'
    BY <1>0, <1>5 DEF ProbeDenied, TypeOK, Goto, events
  <2>2. CallInv'
    BY <1>0, <1>5 DEF ProbeDenied, Goto
  <2> QED
    BY <2>1, <2>2
<1>6. CASE Probed
  BY <1>0, <1>6 DEF Probed, TypeOK, Goto, process, events, results
<1>7. CASE Refused
  <2>1. calls' = calls /\ cur' = 0 /\ 0 \in 0 .. calls /\ pc' = "idle" /\ hand' = {} /\ ~down
    BY <1>0, <1>7 DEF Refused, Return, Goto
  <2>2. TypeOK'
    BY <1>7, <2>1 DEF Refused, Return, TypeOK, process, output, events, results
  <2>3. CallInv'
    BY <1>7, <2>1 DEF Refused
  <2> QED
    BY <2>2, <2>3
<1>8. CASE Collect
  <2>1. TypeOK'
    BY <1>0, <1>8 DEF Collect, TypeOK, Goto, process, events, results
  <2>2. CallInv'
    BY <1>0, <1>8 DEF Collect, Goto
  <2> QED
    BY <2>1, <2>2
<1>9. CASE Finished
  BY <1>0, <1>9 DEF Finished, TypeOK, Goto, process, output, results
<1>10. CASE Lives
  BY <1>0, <1>10 DEF Lives, TypeOK, Goto, process, output, events, results
<1>11. CASE Store
  <2>1. Kept \in Seq(1 .. calls) /\ Pruned \subseteq Commands
    BY PrunedIs
  <2>2. calls' = calls /\ cur' = cur /\ used' \in Seq(1 .. calls') /\ killed' \subseteq Commands
        /\ token' \subseteq Commands /\ watched' \subseteq Commands /\ ~down /\ ~down'
        /\ pc' \in {"warn", "respond"} /\ pc # "idle"
    BY <1>0, <1>11, <2>1 DEF Store, Terminate, Goto, TypeOK
  <2> QED
    BY <1>0, <1>11, <2>2 DEF Store, TypeOK, process, output, results
<1>12. CASE Warned
  BY <1>0, <1>12 DEF Warned, TypeOK, Goto, process, output, results
<1>13. CASE Refresh
  <2>1. used' \in Seq(1 .. calls')
    <3>1. used \in Seq(1 .. calls) /\ calls' = calls
      BY <1>13 DEF Refresh, TypeOK
    <3> QED
      BY <1>13, <3>1, FirstRemoved DEF Refresh
  <2>2. killed' \union token' \subseteq Commands
    BY <1>0, <1>13 DEF Refresh, Terminate, TypeOK
  <2> QED
    BY <1>0, <1>13, <2>1, <2>2 DEF Refresh, TypeOK, Goto, process, output, events, results
<1>14. CASE Respond
  <2>1. calls' = calls /\ cur' = 0 /\ 0 \in 0 .. calls /\ pc' = "idle" /\ hand' = {} /\ ~down
    BY <1>0, <1>14 DEF Respond, Return, Goto
  <2>2. killed' \subseteq Commands /\ token' \subseteq Commands
    BY <1>0, <1>14 DEF Respond, DropSession, Terminate, TypeOK
  <2>3. told' \in [Commands -> SUBSET Nat] /\ lost' \in [Commands -> SUBSET Losses]
    <3>1. PICK size \in AnswerSizes :
             /\ told' = [told EXCEPT ![cur] = @ \union Truncated(hand, size)]
             /\ Lose(cur, {"cut" : x \in hand \ Truncated(hand, size)})
      BY <1>14 DEF Respond
    <3>2. Truncated(hand, size) \subseteq Nat
      BY TruncatedIs DEF TypeOK
    <3> QED
      BY <1>0, <1>14, <3>1, <3>2 DEF Respond, Lose, Losses, TypeOK
  <2>4. TypeOK'
    BY <1>14, <2>1, <2>2, <2>3 DEF Respond, Return, TypeOK, process, output, events
  <2>5. CallInv'
    BY <1>14, <2>1 DEF Respond
  <2> QED
    BY <2>4, <2>5
<1>15. CASE Dropped
  <2>1. left'["command"] = left["command"] /\ left' \in [Bounded -> Nat]
    BY <1>15, Spent DEF Dropped, Bounded
  <2>2. calls' = calls /\ cur' = 0 /\ 0 \in 0 .. calls /\ pc' = "idle" /\ hand' = {} /\ ~down
    BY <1>0, <1>15 DEF Dropped, Return, Goto
  <2>3. /\ killed' \subseteq Commands /\ token' \subseteq Commands
        /\ lost' \in [Commands -> SUBSET Losses]
    BY <1>0, <1>15 DEF Dropped, DropSession, Terminate, Lose, Losses, TypeOK
  <2>4. TypeOK'
    BY <1>15, <2>1, <2>2, <2>3 DEF Dropped, Return, TypeOK, process, output, events
  <2>5. CallInv'
    BY <1>15, <2>1, <2>2 DEF Dropped
  <2> QED
    BY <2>4, <2>5
<1>16. CASE Shutdown
  <2>1. Stored \subseteq Commands
    BY StoredIs
  <2>2. killed' \subseteq Commands /\ token' \subseteq Commands
    BY <1>16, <2>1 DEF Shutdown, Terminate, TypeOK
  <2>3. used' = <<>> /\ used' \in Seq(1 .. calls') /\ down' \in BOOLEAN /\ pc = "idle"
    BY <1>16 DEF Shutdown
  <2>4. TypeOK'
    BY <1>16, <2>2, <2>3 DEF Shutdown, TypeOK, call, process, output, events, results
  <2>5. CallInv'
    BY <1>16, <2>3 DEF Shutdown, call
  <2> QED
    BY <2>4, <2>5
<1>17. ASSUME NEW c \in Commands, Write(c) PROVE BaseInv'
  <2>1. left'["command"] = left["command"] /\ left' \in [Bounded -> Nat]
    BY <1>17, Spent DEF Write, Bounded
  <2>2. TypeOK'
    BY <1>17, <2>1 DEF Write, TypeOK, call, output, events, results
  <2>3. CallInv'
    BY <1>17, <2>1 DEF Write, call
  <2> QED
    BY <2>2, <2>3
<1>18. ASSUME NEW c \in Commands, Exit(c) PROVE BaseInv'
  <2>1. left'["command"] = left["command"] /\ left' \in [Bounded -> Nat]
    BY <1>18, Spent DEF Exit, Bounded, TypeOK
  <2>2. proc' \in [Commands -> {"none", "running", "status", "exited"}]
    BY <1>18 DEF Exit, TypeOK
  <2>3. UNCHANGED <<orchestrator, calls, call, written, killed, token, output, events,
                    used, results, down>>
    BY <1>18 DEF Exit
  <2>4. /\ OrchestratorTypeOK' /\ calls' \in 0 .. MaxCommands /\ cur' \in 0 .. calls'
        /\ pc' = pc /\ hand' \subseteq Nat /\ code' \in BOOLEAN /\ down' \in BOOLEAN
        /\ used' \in Seq(1 .. calls')
    BY ONLY <2>3, TypeOK DEF TypeOK, OrchestratorTypeOK, orchestrator, call
  <2>5. UNCHANGED <<written, ended, pos, spos, buffer, transcript, told,
                    killed, token, streaming, drained, watched, lost>>
    BY ONLY <2>3 DEF output, events, results
  <2>6. TypeOK'
    BY ONLY <2>1, <2>2, <2>4, <2>5, TypeOK DEF TypeOK
  <2>7. CallInv'
    BY <1>18, <2>1 DEF Exit, call
  <2> QED
    BY <2>6, <2>7
<1>19. ASSUME NEW c \in Commands, Signal(c) PROVE BaseInv'
  <2>1. TypeOK'
    BY <1>19 DEF Signal, TypeOK, call, process, output, events, results
  <2>2. CallInv'
    BY <1>19 DEF Signal, call
  <2> QED
    BY <2>1, <2>2
<1>20. ASSUME NEW c \in Commands, Buffer(c) PROVE BaseInv'
  <2>1. Following(c, pos[c]) \in Nat
    BY <1>20, FollowingIs DEF Buffer, TypeOK
  <2>2. buffer' \in [Commands -> SUBSET Nat] /\ lost' \in [Commands -> SUBSET Losses]
    BY <1>20, <2>1, NewestIs DEF Buffer, Lose, Losses, TypeOK
  <2>3. pos' \in [Commands -> Nat]
    BY <1>20, <2>1 DEF Buffer, TypeOK
  <2>4. TypeOK'
    BY <1>20, <2>2, <2>3 DEF Buffer, TypeOK, call, process, events
  <2>5. CallInv'
    BY <1>20 DEF Buffer, call
  <2> QED
    BY <2>4, <2>5
<1>21. ASSUME NEW c \in Commands, Stream(c) PROVE BaseInv'
  <2>1. Following(c, spos[c]) \in Nat
    BY <1>21, FollowingIs DEF Stream, TypeOK
  <2>2. TypeOK'
    BY <1>21, <2>1, NewestIs DEF Stream, TypeOK, call, process, events, results
  <2>3. CallInv'
    BY <1>21 DEF Stream, call
  <2> QED
    BY <2>2, <2>3
<1>22. ASSUME NEW c \in Commands, StreamEnds(c) PROVE BaseInv'
  BY <1>0, <1>22 DEF StreamEnds, TypeOK, call, process, events, results
<1>23. ASSUME NEW c \in Commands, ReportEnd(c) PROVE BaseInv'
  <2>1. TypeOK'
    BY <1>23 DEF ReportEnd, Terminate, TypeOK, call, process, results
  <2>2. CallInv'
    BY <1>23 DEF ReportEnd, call
  <2> QED
    BY <2>1, <2>2
<1>24. CASE UNCHANGED vars
  BY <1>24 DEF vars, TypeOK, call, process, output, events, results
<1> QED
  BY <1>1, <1>2, <1>3, <1>4, <1>5, <1>6, <1>7, <1>8, <1>9, <1>10, <1>11, <1>12, <1>13, <1>14,
     <1>15, <1>16, <1>17, <1>18, <1>19, <1>20, <1>21, <1>22, <1>23, <1>24
     DEF Next, Call, Background

LEMMA BaseInvInit == Init => BaseInv
<1> SUFFICES ASSUME Init PROVE BaseInv
  OBVIOUS
<1>1. OrchestratorTypeOK /\ mode \in Modes
  BY AskInvInit DEF AskInv, OrchestratorTypeOK
<1>2. left \in [Bounded -> Nat] /\ left["command"] <= MaxCommands
  BY <1>1, UnifiedExecAssumption DEF Init
<1>3. MaxCommands \in Nat /\ left["command"] \in Nat /\ 0 \in 0 .. MaxCommands
  BY <1>2, UnifiedExecAssumption DEF Bounded
<1>4. TypeOK
  <2>1. calls \in 0 .. MaxCommands /\ cur \in 0 .. calls /\ used \in Seq(1 .. calls)
    BY <1>3 DEF Init
  <2>2. /\ pc = "idle" /\ hand = {} /\ code \in BOOLEAN /\ down \in BOOLEAN
        /\ killed = {} /\ token = {} /\ streaming = {} /\ drained = {} /\ watched = {}
        /\ lost = [c \in Commands |-> {}]
    BY DEF Init
  <2>3. /\ proc \in [Commands -> {"none", "running", "status", "exited"}]
        /\ written \in [Commands -> Nat] /\ ended \in [Commands -> Nat]
        /\ pos \in [Commands -> Nat] /\ spos \in [Commands -> Nat]
    BY DEF Init
  <2>4. /\ buffer \in [Commands -> SUBSET Nat] /\ transcript \in [Commands -> SUBSET Nat]
        /\ told \in [Commands -> SUBSET Nat]
    BY DEF Init
  <2> QED
    BY <1>1, <1>2, <2>1, <2>2, <2>3, <2>4 DEF TypeOK
<1>5. CallInv
  BY <1>2, <1>3 DEF Init, CallInv
<1> QED
  BY <1>4, <1>5 DEF BaseInv

LEMMA BaseInvHolds == Spec => []BaseInv
<1>1. AskInv => OrchestratorTypeOK
  BY DEF AskInv
<1>2. OrchestratorTypeOK' /\ BaseInv /\ [Next]_vars => BaseInv'
  BY BaseInvStep
<1> QED
  BY <1>1, <1>2, AskInvHolds, BaseInvInit, PTL DEF Spec

\* Every variable keeps its type.
THEOREM Typed == Spec => []TypeOK
<1>1. BaseInv => TypeOK
  BY DEF BaseInv
<1> QED
  BY <1>1, BaseInvHolds, PTL

-----------------------------------------------------------------------------
(* Processes and their ends                                                 *)

LEMMA SessionInvStep ==
  ASSUME BaseInv, SessionInv, [Next]_vars
  PROVE  SessionInv'
<1> USE DEF SessionInv, Fresh
<1>0. /\ TypeOK /\ calls \in Nat
      /\ (pc # "idle" => cur \in Commands /\ cur \in 1 .. calls)
      /\ (pc = "idle" => cur = 0 /\ hand = {})
      /\ Commands \subseteq Nat /\ Stored \subseteq Commands /\ Stored \subseteq 1 .. calls
  BY StoredIs DEF BaseInv, CallInv, TypeOK, Commands
<1>1. CASE ExecCommand
  <2>1. calls' = calls + 1 /\ cur' = calls + 1 /\ pc' = "open" /\ hand' = {}
    BY <1>0, <1>1 DEF ExecCommand, Goto
  <2>2. cur' \in Commands /\ cur' > calls
    <3>1. left["command"] \in Nat /\ left["command"] > 0 /\ calls + left["command"] <= MaxCommands
      BY <1>1 DEF ExecCommand, Spend, BaseInv, CallInv, TypeOK, Bounded
    <3> QED
      BY <1>0, <2>1, <3>1, UnifiedExecAssumption DEF Commands
  <2>3. UNCHANGED <<process, killed, token, output, events, used, results>>
    BY <1>1 DEF ExecCommand
  <2>4. ASSUME NEW c \in Commands, c > calls PROVE Fresh(c) /\ Fresh(c)'
    BY <2>3, <2>4 DEF process, output, events, results
  <2>5. token' \ killed' \subseteq {c \in Commands : proc'[c] = "exited"}
    BY <2>3 DEF process
  <2>6. \A c \in watched' : ended'[c] = 0
    BY <2>3 DEF events
  <2>7. \A c \in Commands : c > calls' => Fresh(c)'
    BY <1>0, <2>1, <2>4
  <2> HIDE DEF Fresh
  <2>8. ASSUME NEW d \in Commands, d = cur', Fresh(d)' PROVE SessionInv'
    BY <2>1, <2>5, <2>6, <2>7, <2>8 DEF Fresh
  <2> QED
    BY <2>2, <2>4, <2>8
<1>2. ASSUME NEW c \in Commands, WriteStdin(c) PROVE SessionInv'
  BY <1>0, <1>2 DEF WriteStdin, Goto, process, output, events, results
<1>3. CASE Answered
  BY <1>3 DEF Answered, call, process, output, events, results
<1>4. CASE Spawn
  <2>1. pc = "open" /\ calls' = calls /\ cur' = cur /\ hand' = hand /\ cur \in Commands
        /\ UNCHANGED <<written, killed, token, output, events, told>>
    BY <1>0, <1>4 DEF Spawn, results
  <2>2. CASE UNCHANGED <<pc, proc>>
    BY <2>1, <2>2 DEF output, events
  <2>3. CASE pc' = "probe" /\ proc' = [proc EXCEPT ![cur] = "running"]
    <3>1. proc'[cur] = "running" /\ \A c \in Commands \ {cur} : proc'[c] = proc[c]
      BY <1>0, <2>1, <2>3 DEF TypeOK
    <3>2. cur <= calls /\ cur \notin token
      BY <1>0, <2>1
    <3> QED
      BY <1>0, <2>1, <2>3, <3>1, <3>2 DEF output, events, TypeOK
  <2> QED
    BY <1>4, <2>2, <2>3 DEF Spawn, Goto
<1>5. CASE ProbeDenied
  BY <1>0, <1>5 DEF ProbeDenied, TypeOK, Goto, events
<1>6. CASE Probed
  BY <1>0, <1>6 DEF Probed, TypeOK, Goto, process, events, results
<1>7. CASE Refused
  BY <1>0, <1>7 DEF Refused, Return, Goto, process, output, events, results
<1>8. CASE Collect
  BY <1>0, <1>8 DEF Collect, TypeOK, Goto, process, events, results
<1>9. CASE Finished
  BY <1>0, <1>9 DEF Finished, TypeOK, Goto, process, output, results
<1>10. CASE Lives
  BY <1>0, <1>10 DEF Lives, TypeOK, Goto, process, output, events, results
<1>11. CASE Store
  <2>1. Pruned \subseteq Stored
    BY PrunedIs, <1>0
  <2>2. killed' = killed \union Pruned /\ token' = token \union Pruned
        /\ watched' \subseteq watched \union {cur} /\ calls' = calls /\ cur' = cur
        /\ pc' \in {"warn", "respond"} /\ (pc' = "warn" => watched' = watched)
        /\ pc = "store" /\ UNCHANGED <<process, output, ended, told>>
    BY <1>11 DEF Store, Terminate, Goto, results
  <2> HIDE DEF Pruned
  <2>3. cur \in 1 .. calls /\ cur \in Commands /\ ended[cur] = 0 /\ cur \notin watched
    BY <1>0, <2>2
  <2>4. \A c \in Commands : c > calls' => Fresh(c)'
    <3> SUFFICES ASSUME NEW c \in Commands, c > calls' PROVE Fresh(c)'
      OBVIOUS
    <3>1. c > calls /\ c \notin Pruned /\ c # cur
      BY <1>0, <2>1, <2>2, <2>3
    <3>2. Fresh(c)
      BY <3>1
    <3>3. c \notin killed' \union token' \union watched'
      BY <2>2, <3>1, <3>2
    <3> QED
      BY <2>2, <3>2, <3>3 DEF process, output
  <2>5. token' \ killed' \subseteq {c \in Commands : proc'[c] = "exited"}
    BY <2>2 DEF process
  <2>6. \A c \in watched' : ended'[c] = 0
    BY <2>2, <2>3
  <2>7. pc' \in {"warn", "respond"} /\ (pc' = "warn" => ended'[cur'] = 0 /\ cur' \notin watched')
    BY <2>2, <2>3
  <2> QED
    BY <2>4, <2>5, <2>6, <2>7
<1>12. CASE Warned
  BY <1>0, <1>12 DEF Warned, TypeOK, Goto, process, output, results
<1>13. CASE Refresh
  BY <1>0, <1>13 DEF Refresh, Terminate, Goto, process, output, events, results
<1>14. CASE Respond \/ Dropped
  <2>1. /\ pc # "idle" /\ pc' = "idle" /\ cur \in 1 .. calls
        /\ UNCHANGED <<calls, process, output, events>>
        /\ \A c \in Commands \ {cur} : told'[c] = told[c]
    BY <1>0, <1>14 DEF Respond, Dropped, Return, TypeOK, Goto
  <2>2. PICK C \in SUBSET {cur} : killed' = killed \union C /\ token' = token \union C
    BY <1>14 DEF Respond, Dropped, DropSession, Terminate
  <2>3. \A c \in Commands : c > calls' => Fresh(c)'
    <3> SUFFICES ASSUME NEW c \in Commands, c > calls' PROVE Fresh(c)'
      OBVIOUS
    <3>1. c # cur /\ Fresh(c)
      BY <1>0, <2>1
    <3> QED
      BY <2>1, <2>2, <3>1 DEF process, output, events
  <2>4. token' \ killed' \subseteq {c \in Commands : proc'[c] = "exited"}
    BY <2>1, <2>2 DEF process
  <2>5. \A c \in watched' : ended'[c] = 0
    BY <2>1 DEF events
  <2> QED
    BY <2>1, <2>3, <2>4, <2>5
<1>15. CASE Shutdown
  BY <1>0, <1>15 DEF Shutdown, Terminate, call, process, output, events, results
<1>16. ASSUME NEW c \in Commands, Write(c) PROVE SessionInv'
  BY <1>0, <1>16 DEF Write, TypeOK, call, output, events, results
<1>17. ASSUME NEW c \in Commands, Exit(c) PROVE SessionInv'
  BY <1>0, <1>17 DEF Exit, TypeOK, call, output, events, results
<1>18. ASSUME NEW c \in Commands, Signal(c) PROVE SessionInv'
  BY <1>0, <1>18 DEF Signal, TypeOK, call, process, output, events, results
<1>19. ASSUME NEW c \in Commands, Buffer(c) PROVE SessionInv'
  <2>1. written[c] # 0 /\ UNCHANGED <<calls, call, process, killed, token, events, told>>
    BY <1>0, <1>19 DEF Buffer, TypeOK
  <2>2. \A d \in Commands \ {c} : buffer'[d] = buffer[d] /\ pos'[d] = pos[d]
    BY <1>0, <1>19 DEF Buffer, TypeOK
  <2> QED
    BY <1>0, <2>1, <2>2 DEF call, process, events
<1>20. ASSUME NEW c \in Commands, Stream(c) PROVE SessionInv'
  BY <1>0, <1>20 DEF Stream, TypeOK, call, process, events, results
<1>21. ASSUME NEW c \in Commands, StreamEnds(c) PROVE SessionInv'
  BY <1>0, <1>21 DEF StreamEnds, TypeOK, call, process, events, results
<1>22. ASSUME NEW c \in Commands, ReportEnd(c) PROVE SessionInv'
  <2>1. /\ c \in watched /\ token' = token /\ killed' = killed \union ({c} \ Stored)
        /\ watched' = watched \ {c} /\ ended' = [ended EXCEPT ![c] = @ + 1]
        /\ UNCHANGED <<calls, call, process, told, buffer, pos>>
    BY <1>22 DEF ReportEnd, Terminate, results
  <2>2. \A d \in Commands : d > calls' => Fresh(d)'
    BY <1>0, <2>1 DEF TypeOK, process
  <2>3. token' \ killed' \subseteq {d \in Commands : proc'[d] = "exited"}
    BY <2>1 DEF process
  <2>4. \A d \in watched' : ended'[d] = 0
    BY <1>0, <2>1 DEF TypeOK
  <2>5. pc \in {"open", "probe", "collect", "judge", "store", "warn"} => cur # c
    BY <2>1
  <2> QED
    BY <1>0, <2>1, <2>2, <2>3, <2>4, <2>5 DEF TypeOK, call, process
<1>23. CASE UNCHANGED vars
  BY <1>23 DEF vars, call, process, output, events, results
<1> QED
  BY <1>1, <1>2, <1>3, <1>4, <1>5, <1>6, <1>7, <1>8, <1>9, <1>10, <1>11, <1>12, <1>13, <1>14,
     <1>15, <1>16, <1>17, <1>18, <1>19, <1>20, <1>21, <1>22, <1>23
     DEF Next, Call, Background

LEMMA SessionInvHolds == Spec => []SessionInv
<1>1. Init => SessionInv
  BY DEF Init, SessionInv, Fresh, Commands
<1>2. BaseInv /\ SessionInv /\ [Next]_vars => SessionInv'
  BY SessionInvStep
<1> QED
  BY <1>1, <1>2, BaseInvHolds, PTL DEF Spec

LEMMA EndedStep ==
  ASSUME BaseInv, SessionInv, [Next]_vars, NEW c \in Commands
  PROVE  ended'[c] = ended[c] \/ (ended[c] = 0 /\ ended'[c] = 1)
<1> USE DEF TypeOK, BaseInv, CallInv, SessionInv
<1>1. CASE Finished
  BY <1>1, UnifiedExecAssumption DEF Finished, Commands
<1>2. ASSUME NEW d \in Commands, ReportEnd(d) PROVE ended'[c] = ended[c] \/ (ended[c] = 0 /\ ended'[c] = 1)
  BY <1>2 DEF ReportEnd
<1>3. CASE UNCHANGED ended
  BY <1>3
<1> QED
  BY <1>1, <1>2, <1>3
     DEF Next, Call, Background, vars, events, ExecCommand, WriteStdin, Answered, Spawn,
         ProbeDenied, Probed, Refused, Collect, Lives, Store, Warned, Refresh, Respond, Dropped,
         Shutdown, Write, Exit, Signal, Buffer, Stream, StreamEnds

\* One ExecCommandEnd per command at most, none before its watcher is done with
\* it, and a watcher that wakes finds the exit code.
THEOREM OneEnd == Spec => []EndedOnce
<1> DEFINE Single == \A c \in Commands : ended[c] <= 1
<1>1. Init => Single
  BY DEF Init
<1>2. BaseInv /\ SessionInv /\ Single /\ [Next]_vars => Single'
  BY EndedStep
<1>3. Single /\ SessionInv => EndedOnce
  BY DEF EndedOnce, SessionInv
<1> HIDE DEF Single
<1> QED
  BY <1>1, <1>2, <1>3, BaseInvHolds, SessionInvHolds, PTL DEF Spec

\* What a watcher still has, when the call does no longer, is stored.
OrphanInv ==
  /\ NoOrphan
  /\ pc = "warn" => cur \in Stored
  /\ \A c \in watched : Running(c) => c \in Stored

LEMMA OrphanInvStep ==
  ASSUME BaseInv, SessionInv, OrphanInv, [Next]_vars
  PROVE  OrphanInv'
<1> USE DEF OrphanInv, NoOrphan, Running
<1>0. /\ TypeOK /\ calls \in Nat
      /\ (pc # "idle" => cur \in Commands /\ ~down)
      /\ (pc = "idle" => cur = 0) /\ 0 \notin Commands
      /\ used \in Seq(1 .. calls) /\ 1 .. calls \subseteq Commands
  BY StoredIs DEF BaseInv, CallInv, TypeOK, Commands
<1>1. CASE ExecCommand
  BY <1>0, <1>1 DEF ExecCommand, Goto, process, events, Stored
<1>2. ASSUME NEW c \in Commands, WriteStdin(c) PROVE OrphanInv'
  <2> DEFINE r == RemoveFirst(used, c)
  <2>1. Stored \ {c} \subseteq ToSet(r) /\ r \in Seq(1 .. calls)
    BY <1>0, FirstRemoved DEF Stored
  <2>2. used' = Append(r, c) /\ c \in 1 .. calls /\ UNCHANGED <<proc, killed, down, watched>>
        /\ cur = 0 /\ pc' = "poll"
    BY <1>0, <1>2, StoredIs DEF WriteStdin, Goto, process, events
  <2> HIDE DEF r
  <2>3. Stored \subseteq Stored'
    <3>1. ToSet(Append(r, c)) = ToSet(r) \union {c}
      <4> DEFINE S == 1 .. calls
      <4>1. r \in Seq(S) /\ c \in S
        BY <2>1, <2>2
      <4> HIDE DEF S
      <4> QED
        BY <4>1, Appended
    <3> QED
      BY <2>1, <2>2, <3>1 DEF Stored
  <2> QED
    BY <1>0, <2>2, <2>3
<1>3. CASE Spawn
  BY <1>0, <1>3 DEF Spawn, Goto, TypeOK, events, SessionInv, Stored
<1>4. CASE ProbeDenied
  BY <1>0, <1>4 DEF ProbeDenied, Goto, TypeOK, events, Stored
<1>5. CASE Refused
  BY <1>0, <1>5 DEF Refused, Return, Goto, process, events, SessionInv, Stored
<1>6. CASE Store
  <2>1. Stored \ Pruned \subseteq ToSet(Kept) /\ Kept \in Seq(1 .. calls)
    BY <1>0, PrunedIs
  <2>2. used' = Append(Kept, cur) /\ killed' = killed \union Pruned /\ cur \in 1 .. calls
        /\ watched' \subseteq watched \union {cur} /\ UNCHANGED <<proc, cur, down>>
    BY <1>0, <1>6 DEF Store, Terminate, process, TypeOK
  <2> HIDE DEF Kept, Pruned
  <2>3. Stored \ Pruned \subseteq Stored' /\ cur \in Stored'
    <3>1. ToSet(Append(Kept, cur)) = ToSet(Kept) \union {cur}
      <4> DEFINE S == 1 .. calls
      <4>1. Kept \in Seq(S) /\ cur \in S
        BY <2>1, <2>2
      <4> HIDE DEF S
      <4> QED
        BY <4>1, Appended
    <3> QED
      BY <2>1, <2>2, <3>1 DEF Stored
  <2> QED
    BY <1>0, <2>2, <2>3
<1>7. CASE Refresh
  <2> DEFINE r == RemoveFirst(used, cur)
  <2>1. Stored \ {cur} \subseteq ToSet(r)
    BY <1>0, FirstRemoved DEF Stored
  <2> HIDE DEF r
  <2>2. Stored \ {cur} \subseteq Stored'
    BY <1>7, <2>1 DEF Refresh, Stored, r
  <2>3. /\ pc' = "respond" /\ UNCHANGED <<proc, cur, down, watched>> /\ killed \subseteq killed'
        /\ Running(cur) => Stored' = Stored
    BY <1>7 DEF Refresh, Goto, Terminate, process, events, HasExited, Stored
  <2> QED
    BY <1>0, <2>2, <2>3
<1>8. CASE Respond \/ Dropped
  <2>1. /\ cur \in Commands /\ cur' = 0 /\ pc' = "idle" /\ ~down
        /\ UNCHANGED <<proc, watched, used, down>>
    BY <1>0, <1>8 DEF Respond, Dropped, Return, Goto, process, events
  <2>2. killed' = killed \union ({cur} \ (Stored \union watched \union {c \in Commands : proc[c] = "none"}))
    BY <1>8 DEF Respond, Dropped, DropSession, Terminate
  <2> QED
    BY <1>0, <2>1, <2>2 DEF Stored
<1>9. CASE Warned
  BY <1>0, <1>9 DEF Warned, Goto, process, Stored
<1>10. CASE Shutdown
  BY <1>0, <1>10 DEF Shutdown, Terminate, process, call, events
<1>11. ASSUME NEW c \in Commands, Exit(c) PROVE OrphanInv'
  BY <1>0, <1>11 DEF Exit, TypeOK, call, events, Stored
<1>12. ASSUME NEW c \in Commands, ReportEnd(c) PROVE OrphanInv'
  BY <1>0, <1>12 DEF ReportEnd, Terminate, process, call, Stored
<1>13. CASE /\ UNCHANGED <<proc, killed, used, cur, down, watched>>
            /\ pc' = "warn" => pc = "warn"
  BY <1>13 DEF Stored
<1>14. CASE Collect \/ Finished \/ Lives \/ Probed
  BY <1>13, <1>14 DEF Collect, Finished, Lives, Probed, Goto, process, events
<1> QED
  BY <1>1, <1>2, <1>3, <1>4, <1>5, <1>6, <1>7, <1>8, <1>9, <1>10, <1>11, <1>12, <1>13, <1>14
     DEF Next, Call, Background, vars, call, process, events, Answered, Write, Signal, Buffer,
         Stream, StreamEnds

\* No process is left behind: one that runs is that of the running call or in
\* the store, unless its session has been terminated.
THEOREM NoneLeftBehind == Spec => []NoOrphan
<1>1. Init => OrphanInv
  BY DEF Init, OrphanInv, NoOrphan, Running
<1>2. BaseInv /\ SessionInv /\ OrphanInv /\ [Next]_vars => OrphanInv'
  BY OrphanInvStep
<1>3. OrphanInv => NoOrphan
  BY DEF OrphanInv
<1> QED
  BY <1>1, <1>2, <1>3, BaseInvHolds, SessionInvHolds, PTL DEF Spec

-----------------------------------------------------------------------------
(* Output                                                                   *)

\* What comes after a chunk that is kept is kept.
LEMMA NewestUp ==
  ASSUME NEW n \in Nat, NEW chunks \in SUBSET (1 .. n), NEW i \in Newest(chunks),
         NEW j \in chunks, i <= j
  PROVE  j \in Newest(chunks)
<1> DEFINE After(k) == {m \in chunks : m > k}
<1>1. i \in chunks /\ Cardinality(After(i)) < MaxBuffer
  BY DEF Newest
<1>2. After(j) \subseteq After(i) /\ After(i) \subseteq 1 .. n
  <2>1. i \in Int /\ j \in Int /\ \A m \in chunks : m \in Int /\ m \in 1 .. n
    BY <1>1
  <2>2. ASSUME NEW m \in After(j) PROVE m \in After(i)
    <3>1. m \in chunks /\ m \in Int /\ m > j
      BY <2>1
    <3> QED
      BY <2>1, <3>1
  <2> QED
    BY <2>1, <2>2
<1>3. IsFiniteSet(After(i))
  <2>1. IsFiniteSet(1 .. n)
    BY FS_Interval
  <2> HIDE DEF After
  <2> QED
    BY <1>2, <2>1, FS_Subset
<1>4. /\ IsFiniteSet(After(j)) /\ Cardinality(After(j)) <= Cardinality(After(i))
      /\ Cardinality(After(j)) \in Nat /\ Cardinality(After(i)) \in Nat
  <2> HIDE DEF After
  <2> QED
    BY <1>2, <1>3, FS_Subset, FS_CardinalityType
<1>5. Cardinality(After(j)) < MaxBuffer
  <2> HIDE DEF After
  <2> QED
    BY <1>1, <1>4, UnifiedExecAssumption
<1> QED
  BY <1>5 DEF Newest

LEMMA OrderedStep ==
  ASSUME BaseInv, SessionInv, [Next]_vars, NEW c \in Commands, Ordered(c)
  PROVE  Ordered(c)'
<1> USE DEF Ordered, Held
<1>0. /\ TypeOK /\ pos[c] \in Nat /\ written[c] \in Nat
      /\ (pc # "idle" => cur \in Commands)
      /\ (pc = "idle" => hand = {} /\ cur = 0) /\ 0 \notin Commands
  <2>1. TypeOK /\ 1 .. calls \subseteq Commands
    BY StoredIs DEF BaseInv
  <2>2. pos[c] \in Nat /\ written[c] \in Nat /\ cur \in 0 .. calls /\ calls \in Nat
    BY <2>1 DEF TypeOK
  <2> QED
    BY <2>1, <2>2 DEF BaseInv, CallInv, Commands
<1>1. CASE ExecCommand
  BY <1>0, <1>1 DEF ExecCommand, process, output, results
<1>2. ASSUME NEW d \in Commands, WriteStdin(d) PROVE Ordered(c)'
  BY <1>0, <1>2 DEF WriteStdin, process, output, results
<1>3. CASE ProbeDenied
  BY <1>0, <1>3 DEF ProbeDenied, TypeOK, SessionInv
<1>4. CASE Refused
  BY <1>0, <1>4 DEF Refused, Return, process, output, results, SessionInv
<1>5. CASE Collect
  BY <1>0, <1>5 DEF Collect, TypeOK, process, results
<1>6. CASE Respond
  <2>1. PICK size \in AnswerSizes :
           /\ told' = [told EXCEPT ![cur] = @ \union Truncated(hand, size)]
           /\ Lose(cur, {"cut" : x \in hand \ Truncated(hand, size)})
    BY <1>6 DEF Respond
  <2> DEFINE answer == Truncated(hand, size)
  <2>2. answer \subseteq hand
    BY TruncatedIs
  <2>3. UNCHANGED <<pos, written, buffer>> /\ cur' = 0 /\ cur \in Commands
    BY <1>0, <1>6 DEF Respond, Return, process, output
  <2>4. CASE c # cur
    BY <1>0, <2>1, <2>3, <2>4 DEF Lose, TypeOK
  <2>5. CASE c = cur
    <3>1. told'[c] = told[c] \union answer /\ Held(c)' = {} /\ Held(c) = hand
      BY <1>0, <2>1, <2>3, <2>5 DEF TypeOK
    <3>2. lost'[c] = lost[c] \union {"cut" : x \in hand \ answer}
      BY <1>0, <2>1, <2>3, <2>5 DEF Lose, TypeOK
    <3> HIDE DEF answer, Held
    <3>3. lost'[c] = {} => lost[c] = {} /\ hand \subseteq answer
      BY <3>2
    <3>4. "lagged" \notin lost'[c] => "lagged" \notin lost[c]
      BY <3>2
    <3> QED
      BY <2>2, <2>3, <3>1, <3>3, <3>4
  <2> QED
    BY <2>4, <2>5
<1>7. CASE Dropped
  BY <1>0, <1>7 DEF Dropped, Return, Lose, TypeOK, process, output
<1>8. ASSUME NEW d \in Commands, Write(d) PROVE Ordered(c)'
  BY <1>0, <1>8 DEF Write, TypeOK, call, output, results
<1>9. ASSUME NEW d \in Commands, Buffer(d) PROVE Ordered(c)'
  <2>1. CASE d # c
    BY <1>0, <1>9, <2>1 DEF Buffer, Lose, TypeOK, call, process
  <2>2. CASE d = c
    <3> DEFINE n == Following(c, pos[c])
    <3>1. n \in Nat /\ pos[c] < n /\ n <= written[c]
      BY <1>0, <1>9, <2>2, FollowingIs DEF Buffer
    <3> DEFINE chunks == buffer[c] \union {n}
    <3>2. /\ pos'[c] = n /\ buffer'[c] = Newest(chunks) /\ told' = told /\ Held(c)' = Held(c)
          /\ written' = written
      BY <1>0, <1>9, <2>2 DEF Buffer, TypeOK, call, process
    <3>3. lost'[c] = lost[c] \union ({"lagged" : x \in {n} \ {pos[c] + 1}}
                                        \union {"full" : x \in chunks \ Newest(chunks)})
      BY <1>0, <1>9, <2>2 DEF Buffer, Lose, TypeOK
    <3>4. Newest(chunks) \subseteq chunks
      BY NewestIs
    <3> HIDE DEF n, Held
    <3>5. "lagged" \notin lost'[c] => "lagged" \notin lost[c] /\ n = pos[c] + 1
      BY <3>3
    <3>6. lost'[c] = {} => lost[c] = {} /\ n = pos[c] + 1 /\ chunks \subseteq Newest(chunks)
      BY <3>3
    <3>7. 1 .. pos[c] \subseteq 1 .. n /\ n \in 1 .. n
      BY <1>0, <3>1
    <3>8. \A i \in 1 .. pos[c] : i < n
      BY <1>0, <3>1
    <3>9. n = pos[c] + 1 => 1 .. n = 1 .. pos[c] \union {n}
      BY <1>0
    <3>10. ASSUME "lagged" \notin lost'[c], NEW i \in Newest(chunks), NEW k \in i .. n
           PROVE  k \in Newest(chunks)
      <4>1. chunks \in SUBSET (1 .. n)
        BY <3>7, <1>0
      <4>2. i \in chunks /\ i \in 1 .. n /\ i <= k /\ k \in Nat
        BY <3>1, <3>4, <4>1
      <4>3. k \in chunks
        <5>1. CASE k = n
          BY <5>1
        <5>2. CASE k # n
          <6>1. n = pos[c] + 1 /\ \A m \in buffer[c] : m .. pos[c] \subseteq buffer[c]
            BY <3>5, <3>10
          <6>2. i # n /\ k \in i .. pos[c]
            BY <1>0, <3>1, <4>2, <5>2, <6>1
          <6> QED
            BY <4>2, <6>1, <6>2
        <5> QED
          BY <5>1, <5>2
      <4> HIDE DEF chunks
      <4> QED
        BY <3>1, <4>1, <4>2, <4>3, NewestUp
    <3> HIDE DEF chunks
    <3>11. /\ pos'[c] <= written'[c]
           /\ told'[c] \union Held(c)' \union buffer'[c] \subseteq 1 .. pos'[c]
      BY <3>1, <3>2, <3>4, <3>7 DEF chunks
    <3>12. /\ \A i \in told'[c], j \in Held(c)' \union buffer'[c] : i < j
           /\ \A i \in Held(c)', j \in buffer'[c] : i < j
      BY <3>2, <3>4, <3>8 DEF chunks
    <3>13. lost'[c] = {} => 1 .. pos'[c] \subseteq told'[c] \union Held(c)' \union buffer'[c]
      BY <3>2, <3>6, <3>9 DEF chunks
    <3>14. "lagged" \notin lost'[c] => \A i \in buffer'[c] : i .. pos'[c] \subseteq buffer'[c]
      BY <3>2, <3>10
    <3> QED
      BY <3>11, <3>12, <3>13, <3>14
  <2> QED
    BY <2>1, <2>2
<1>10. ASSUME NEW d \in Commands, Stream(d) PROVE Ordered(c)'
  BY <1>0, <1>10 DEF Stream, call, process, results
<1>11. CASE UNCHANGED <<pos, written, told, buffer, hand, cur, lost>>
  BY <1>11
<1> QED
  BY <1>1, <1>2, <1>3, <1>4, <1>5, <1>6, <1>7, <1>8, <1>9, <1>10, <1>11
     DEF Next, Call, Background, vars, call, process, output, results, Answered, Spawn, Probed,
         Finished, Lives, Store, Warned, Refresh, Shutdown, Exit, Signal, StreamEnds, ReportEnd

\* The model is given what the process writes, in its order and nothing twice:
\* all that has been read, but for what the full buffer, an answer that was cut, a
\* dropped call or a reader that was overtaken have lost; and what waits for the
\* next poll is the newest of it, without a gap.
THEOREM InOrder == Spec => []OutputInOrder
<1>1. Init => OutputInv
  BY DEF Init, OutputInv, Ordered, Held
<1>2. BaseInv /\ SessionInv /\ OutputInv /\ [Next]_vars => OutputInv'
  BY OrderedStep DEF OutputInv
<1>3. OutputInv => OutputInOrder
  BY DEF OutputInv, OutputInOrder, Ordered, Held
<1> QED
  BY <1>1, <1>2, <1>3, BaseInvHolds, SessionInvHolds, PTL DEF Spec

-----------------------------------------------------------------------------
(* Pruning                                                                  *)

\* With each session in the list once, the one that is pruned is among the old
\* ones, it makes room, and it has exited if one of those has.
LEMMA PruningIs ==
  ASSUME TypeOK, StoreInv
  PROVE  /\ Len(used) < MaxSessions => Kept = used
         /\ Len(used) = MaxSessions => Len(Kept) = MaxSessions - 1
         /\ NoTwice(Kept) /\ Kept \in Seq(1 .. calls)
         /\ \A c \in Pruned : /\ Len(used) = MaxSessions /\ c \in Old
                              /\ ~HasExited(c) => \A d \in Old : ~HasExited(d)
         /\ Pruned \subseteq Stored /\ Stored \ Pruned \subseteq ToSet(Kept)
         /\ ToSet(Kept) \subseteq Stored
<1> DEFINE X == {c \in Commands : HasExited(c)}
<1>1. /\ used \in Seq(1 .. calls) /\ Len(used) \in Nat /\ Len(used) <= MaxSessions
      /\ MaxSessions \in Nat /\ Protected \in Nat /\ Protected < MaxSessions
  BY UnifiedExecAssumption DEF TypeOK, StoreInv
<1>2. Old \subseteq Stored /\ Stored \subseteq Commands
  <2>1. \A i \in 1 .. Len(used) - Protected : used[i] \in Stored
    BY <1>1 DEF Stored, ToSet
  <2> QED
    BY <2>1, StoredIs DEF Old
<1>3. Pruned = IF Len(used) < MaxSessions THEN {}
               ELSE IF FirstOf(X) # {} THEN FirstOf(X) ELSE FirstOf(Commands)
  BY DEF Pruned
<1>4. CASE Len(used) < MaxSessions
  <2>1. Pruned = {} /\ Kept = used
    BY <1>3, <1>4 DEF Kept
  <2> QED
    BY <1>1, <1>4, <2>1 DEF StoreInv, Stored
<1>5. CASE Len(used) = MaxSessions
  <2>1. used[1] \in Old
    BY <1>1, <1>5 DEF Old
  <2>2. \E e \in Old : Pruned = {e} /\ (e \in X \/ Old \intersect X = {})
    <3>1. CASE Old \intersect X # {}
      <4>1. PICK e \in Old \intersect X : FirstOf(X) = {e}
        BY <3>1, FirstOfIs
      <4> QED
        BY <1>1, <1>3, <1>5, <4>1
    <3>2. CASE Old \intersect X = {}
      <4>1. FirstOf(X) = {}
        BY <3>2, FirstOfIs
      <4>2. Old \intersect Commands = Old /\ Old # {}
        BY <1>2, <2>1
      <4>3. PICK e \in Old : FirstOf(Commands) = {e}
        BY <4>2, FirstOfIs
      <4> QED
        BY <1>1, <1>3, <1>5, <3>2, <4>1, <4>3
    <3> QED
      BY <3>1, <3>2
  <2>3. PICK e \in Old : Pruned = {e} /\ (e \in X \/ Old \intersect X = {})
    BY <2>2
  <2>4. Kept = RemoveFirst(used, e) /\ e \in ToSet(used)
    BY <1>2, <2>3 DEF Kept, Stored
  <2>5. NoTwice(Kept) /\ Len(Kept) = MaxSessions - 1
    BY <1>1, <1>5, <2>4, OnceRemoved DEF StoreInv
  <2>6. ~HasExited(e) => \A d \in Old : ~HasExited(d)
    BY <1>2, <2>3
  <2>7. Kept \in Seq(1 .. calls) /\ Pruned \subseteq Stored /\ Stored \ Pruned \subseteq ToSet(Kept)
        /\ ToSet(Kept) \subseteq Stored
    BY PrunedIs
  <2> HIDE DEF Pruned, Kept
  <2> QED
    BY <1>1, <1>5, <2>3, <2>5, <2>6, <2>7
<1> QED
  BY <1>1, <1>4, <1>5

LEMMA StoreInvStep ==
  ASSUME BaseInv, StoreInv, [Next]_vars
  PROVE  StoreInv'
<1> USE DEF StoreInv
<1>0. /\ TypeOK /\ calls \in Nat /\ used \in Seq(1 .. calls) /\ MaxSessions \in Nat
      /\ (pc # "idle" => cur \in 1 .. calls) /\ Stored \subseteq 1 .. calls
      /\ Stored = ToSet(used)
  <2>1. TypeOK /\ Stored \subseteq 1 .. calls
    BY StoredIs DEF BaseInv
  <2>2. calls \in Nat /\ used \in Seq(1 .. calls) /\ MaxSessions \in Nat
    BY <2>1, UnifiedExecAssumption DEF TypeOK
  <2>3. pc # "idle" => cur \in 1 .. calls
    BY <2>1, <2>2 DEF BaseInv, CallInv, TypeOK
  <2> QED
    BY <2>1, <2>2, <2>3 DEF Stored
<1>1. CASE ExecCommand
  <2>1. used' = used /\ Stored' = Stored /\ cur' = calls + 1
    BY <1>1 DEF ExecCommand, Stored
  <2> QED
    BY <1>0, <2>1
<1>2. ASSUME NEW c \in Commands, WriteStdin(c) PROVE StoreInv'
  <2> DEFINE r == RemoveFirst(used, c)
             S == 1 .. calls
  <2>1. used' = Append(r, c) /\ c \in ToSet(used) /\ pc' = "poll" /\ c \in S
    BY <1>0, <1>2 DEF WriteStdin, Goto
  <2>2. r \in Seq(S) /\ NoTwice(r) /\ Len(r) = Len(used) - 1 /\ c \notin ToSet(r)
    BY <1>0, <2>1, FirstRemoved, OnceRemoved
  <2> HIDE DEF r, S
  <2>3. NoTwice(Append(r, c)) /\ Len(Append(r, c)) = Len(r) + 1
    BY <2>1, <2>2, OnceAppended
  <2>4. Len(used) \in Nat
    BY <1>0
  <2> QED
    BY <2>1, <2>2, <2>3, <2>4
<1>3. CASE Store
  <2> DEFINE S == 1 .. calls
  <2>1. Kept \in Seq(S) /\ NoTwice(Kept) /\ cur \notin ToSet(Kept) /\ cur \in S
    BY <1>0, <1>3, PruningIs DEF Store
  <2>2. Len(Kept) < MaxSessions
    <3>1. Len(used) \in Nat
      BY <1>0
    <3>2. CASE Len(used) < MaxSessions
      BY <1>0, <3>2, PruningIs
    <3>3. CASE Len(used) = MaxSessions
      BY <1>0, <3>3, PruningIs
    <3> QED
      BY <1>0, <3>1, <3>2, <3>3
  <2>3. used' = Append(Kept, cur) /\ pc' \in {"warn", "respond"}
    BY <1>3 DEF Store, Goto
  <2> HIDE DEF S, Kept
  <2>4. NoTwice(Append(Kept, cur)) /\ Len(Append(Kept, cur)) = Len(Kept) + 1 /\ Len(Kept) \in Nat
    BY <2>1, OnceAppended
  <2> QED
    BY <1>0, <2>2, <2>3, <2>4
<1>4. CASE Refresh
  <2>1. pc' = "respond"
    BY <1>4 DEF Refresh, Goto
  <2>2. CASE used' = used
    BY <2>1, <2>2
  <2>3. CASE used' = RemoveFirst(used, cur)
    <3>1. CASE cur \in ToSet(used)
      <4>1. NoTwice(RemoveFirst(used, cur)) /\ Len(RemoveFirst(used, cur)) = Len(used) - 1
        BY <1>0, <3>1, OnceRemoved
      <4>2. Len(used) \in Nat
        BY <1>0
      <4> QED
        BY <1>0, <2>1, <2>3, <4>1, <4>2
    <3>2. CASE cur \notin ToSet(used)
      <4>1. ~ \E i \in 1 .. Len(used) : used[i] = cur
        BY <1>0, <3>2 DEF ToSet
      <4>2. RemoveFirst(used, cur) = used
        BY <4>1 DEF RemoveFirst
      <4> QED
        BY <2>1, <2>3, <4>2
    <3> QED
      BY <3>1, <3>2
  <2> QED
    BY <1>4, <2>2, <2>3 DEF Refresh
<1>5. CASE Shutdown
  <2>1. used' = <<>> /\ pc' = "idle"
    BY <1>5 DEF Shutdown, call
  <2> QED
    BY <1>0, <2>1 DEF NoTwice
<1>6. CASE Refused \/ Respond \/ Dropped
  BY <1>6 DEF Refused, Respond, Dropped, Return, Goto
<1>7. CASE UNCHANGED used /\ cur' = cur /\ pc # "idle"
           /\ (pc' \in {"open", "probe", "collect", "judge", "store"}
                 => pc \in {"open", "probe", "collect", "judge", "store"})
  BY <1>7 DEF Stored
<1>8. CASE UNCHANGED <<used, cur, pc>>
  BY <1>8 DEF Stored
<1>9. CASE Spawn \/ ProbeDenied \/ Probed
  BY <1>9, <1>7 DEF Spawn, ProbeDenied, Probed, Goto
<1>10. CASE Collect
  BY <1>10, <1>7 DEF Collect, Goto
<1>11. CASE Finished \/ Lives \/ Warned
  BY <1>11, <1>7 DEF Finished, Lives, Warned, Goto
<1> QED
  BY <1>1, <1>2, <1>3, <1>4, <1>5, <1>6, <1>8, <1>9, <1>10, <1>11
     DEF Next, Call, Background, vars, call, Answered, Write, Exit, Signal, Buffer, Stream,
         StreamEnds, ReportEnd

LEMMA StoreInvHolds == Spec => []StoreInv
<1>1. Init => StoreInv
  <2> SUFFICES ASSUME Init PROVE StoreInv
    OBVIOUS
  <2>1. used = <<>> /\ pc = "idle"
    BY DEF Init
  <2> QED
    BY <2>1, UnifiedExecAssumption DEF StoreInv, NoTwice
<1>2. BaseInv /\ StoreInv /\ [Next]_vars => StoreInv'
  BY StoreInvStep
<1> QED
  BY <1>1, <1>2, BaseInvHolds, PTL DEF Spec

\* A session makes room for a new one at the limit only; it is not among the last
\* used ones, nor still running while another one beyond those is not.
THEOREM PrunesLast == Spec => PrunedLast
<1> DEFINE Prunes ==
      \A c \in Stored \ Stored' :
         pc = "store" =>
           /\ Cardinality(Stored) = MaxSessions
           /\ c \notin LastUsed
           /\ ~HasExited(c) => \A d \in Stored \ LastUsed : ~HasExited(d)
<1>1. BaseInv /\ StoreInv /\ [Next]_vars => [Prunes]_vars
  <2> SUFFICES ASSUME BaseInv, StoreInv, Next, NEW c \in Stored \ Stored', pc = "store"
               PROVE  /\ Cardinality(Stored) = MaxSessions
                      /\ c \notin LastUsed
                      /\ ~HasExited(c) => \A d \in Stored \ LastUsed : ~HasExited(d)
    OBVIOUS
  <2>1. TypeOK /\ used \in Seq(1 .. calls) /\ NoTwice(used) /\ Stored = ToSet(used)
        /\ cur \in 1 .. calls
    BY DEF BaseInv, CallInv, TypeOK, StoreInv, Stored
  <2>2. Store
    <3>1. CASE Dropped
      BY <3>1 DEF Dropped, Stored
    <3>2. CASE UNCHANGED used
      BY <3>2 DEF Stored
    <3> QED
      BY <3>1, <3>2
         DEF Next, Call, Background, ExecCommand, WriteStdin, Answered, Spawn, ProbeDenied,
             Probed, Refused, Collect, Finished, Lives, Warned, Refresh, Respond, Shutdown,
             Write, Exit, Signal, Buffer, Stream, StreamEnds, ReportEnd, call, orchestrator
  <2>3. c \in Pruned
    <3> DEFINE S == 1 .. calls
    <3>1. Kept \in Seq(S) /\ cur \in S /\ Stored \ Pruned \subseteq ToSet(Kept)
      BY <2>1, PrunedIs
    <3>2. used' = Append(Kept, cur)
      BY <2>2 DEF Store
    <3> HIDE DEF S, Kept, Pruned
    <3>3. ToSet(Append(Kept, cur)) = ToSet(Kept) \union {cur}
      BY <3>1, Appended
    <3> QED
      BY <3>1, <3>2, <3>3 DEF Stored
  <2>4. Len(used) = MaxSessions /\ c \in Old /\ (~HasExited(c) => \A d \in Old : ~HasExited(d))
    BY <2>1, <2>3, PruningIs
  <2>5. Cardinality(Stored) = MaxSessions
    BY <2>1, <2>4, OnceCounted
  <2>6. Len(used) \in Nat /\ Protected \in Nat /\ DOMAIN used = 1 .. Len(used)
    BY <2>1, UnifiedExecAssumption
  <2>7. Stored \ LastUsed \subseteq Old
    <3>1. \A i \in 1 .. Len(used) : used[i] \in Old \/ used[i] \in LastUsed
      BY <2>6 DEF Old, LastUsed
    <3> QED
      BY <2>1, <2>6, <3>1 DEF ToSet
  <2>8. c \notin LastUsed
    BY <2>1, <2>4, <2>6 DEF NoTwice, Old, LastUsed
  <2> QED
    BY <2>4, <2>5, <2>7, <2>8
<1> QED
  BY <1>1, BaseInvHolds, StoreInvHolds, PTL DEF Spec, PrunedLast

=============================================================================
