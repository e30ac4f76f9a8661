-------------------------- MODULE ReadinessFlagProofs --------------------------
(***************************************************************************)
(* Safety of ReadinessFlag for any number of threads, and the proof that   *)
(* it implements TokenLatch.                                               *)
(***************************************************************************)
EXTENDS ReadinessFlag, TLAPS

\* The mutex is held by the thread inside the locked region, and by no other.
MutexInv == \A p \in Procs : pc[p] \in {"swap", "insert", "mark"} <=> holder = p

\* Who found the set empty under the lock still finds it empty.
SwapInv == \A w \in Waiters : pc[w] = "swap" => tokens = {}

\* A thread about to insert has drawn its token.
DrawnInv == \A m \in Markers : pc[m] \in {"sublock", "insert"} => token[m] # 0

\* The flag has been turned exactly when it has a winner.
WinnerInv == winners # {} <=> ready

\* Who is about to broadcast won, and nobody has broadcast yet.
BroadcastInv ==
    \A p \in Procs : pc[p] \in {"send", "announce"} =>
                        p \in winners /\ chan.version = 0

IInv == /\ TypeOK /\ MutexInv /\ SwapInv /\ DrawnInv /\ WinnerInv
        /\ BroadcastInv /\ NoTokenOnceReady /\ OneWinner /\ NoEarlyReturn
        /\ OneMessage

\* The initial states satisfy the invariant.
LEMMA InitInv == Init => IInv
  <1> SUFFICES ASSUME Init PROVE IInv
    OBVIOUS
  <1> USE ProcsAssumption DEF Init
  <1>1. TypeOK
    <2>1. ready \in BOOLEAN /\ holder \in Procs \union {Free}
      OBVIOUS
    <2>6. nextId \in Nat \ {0}
      OBVIOUS
    <2>5. tokens \subseteq 1 .. nextId - 1 /\ winners \subseteq Procs
      OBVIOUS
    <2>2. chan \in [value : BOOLEAN, version : Nat, receivers : SUBSET Waiters]
      OBVIOUS
    <2>3. seen \in [Waiters -> Nat] /\ token \in [Markers -> 0 .. nextId - 1]
      OBVIOUS
    <2>4. /\ pc \in [Procs -> WaiterPC \union MarkerPC]
          /\ \A p \in Procs :
                pc[p] \in IF p \in Waiters THEN WaiterPC ELSE MarkerPC
      BY DEF Procs, WaiterPC, MarkerPC
    <2> QED
      BY <2>1, <2>2, <2>3, <2>4, <2>5, <2>6 DEF TypeOK
  <1>2. MutexInv /\ SwapInv /\ DrawnInv /\ WinnerInv /\ BroadcastInv
    BY DEF MutexInv, SwapInv, DrawnInv, WinnerInv, BroadcastInv, Procs
  <1>3. NoTokenOnceReady /\ OneWinner /\ NoEarlyReturn /\ OneMessage
    BY DEF NoTokenOnceReady, OneWinner, NoEarlyReturn, OneMessage, Procs
  <1> QED
    BY <1>1, <1>2, <1>3 DEF IInv

\* A broadcast leaves a well-formed channel.
LEMMA BroadcastType ==
  ASSUME TypeOK, Broadcast
  PROVE  chan' \in [value : BOOLEAN, version : Nat, receivers : SUBSET Waiters]
  <1>1. chan.version + 1 \in Nat /\ chan.receivers \in SUBSET Waiters
    BY DEF TypeOK
  <1> QED
    BY <1>1 DEF TypeOK, Broadcast

\* Every step of a subscriber keeps the types.
LEMMA MarkerType ==
  ASSUME IInv, NEW m \in Markers, MarkerStep(m)
  PROVE  TypeOK'
  <1> USE ProcsAssumption
      DEF IInv, TypeOK, DrawnInv, Procs, WaiterPC, MarkerPC, Goto
  <1>1. CASE SubscribeCheck(m)
    BY <1>1 DEF SubscribeCheck
  <1>2. CASE DrawToken(m)
    BY <1>2 DEF DrawToken
  <1>3. CASE SubscribeLock(m)
    BY <1>3 DEF SubscribeLock, Lock, LockTimesOut
  <1>4. CASE InsertToken(m)
    <2>1. tokens' \subseteq 1 .. nextId' - 1
      <3>1. token[m] \in 1 .. nextId - 1
        BY <1>4 DEF InsertToken
      <3> QED
        BY <1>4, <3>1 DEF InsertToken
    <2> QED
      BY <1>4, <2>1 DEF InsertToken
  <1>5. CASE MarkCheck(m)
    BY <1>5 DEF MarkCheck
  <1>6. CASE MarkLock(m)
    BY <1>6 DEF MarkLock, Lock, LockTimesOut
  <1>7. CASE Mark(m)
    BY <1>7 DEF Mark
  <1>8. CASE Announce(m)
    <2>1. chan' \in [value : BOOLEAN, version : Nat, receivers : SUBSET Waiters]
      BY <1>8, BroadcastType DEF Announce
    <2> QED
      BY <1>8, <2>1 DEF Announce
  <1> QED
    BY <1>1, <1>2, <1>3, <1>4, <1>5, <1>6, <1>7, <1>8 DEF MarkerStep

\* Every step of a waiting thread keeps the types.
LEMMA WaiterType ==
  ASSUME IInv, NEW w \in Waiters, WaiterStep(w)
  PROVE  TypeOK'
  <1> USE ProcsAssumption
      DEF IInv, TypeOK, DrawnInv, Procs, WaiterPC, MarkerPC, Goto
  <1>1. CASE FirstLoad(w)
    BY <1>1 DEF FirstLoad
  <1>2. CASE TryLock(w)
    BY <1>2 DEF TryLock
  <1>3. CASE SwapReady(w)
    BY <1>3 DEF SwapReady
  <1>4. CASE SendReady(w)
    <2>1. chan' \in [value : BOOLEAN, version : Nat, receivers : SUBSET Waiters]
      BY <1>4, BroadcastType DEF SendReady
    <2> QED
      BY <1>4, <2>1 DEF SendReady
  <1>5. CASE LastLoad(w)
    BY <1>5 DEF LastLoad
  <1>6. CASE Attach(w)
    BY <1>6 DEF Attach
  <1>7. CASE Peek(w)
    BY <1>7 DEF Peek
  <1>8. CASE Changed(w)
    BY <1>8 DEF Changed
  <1> QED
    BY <1>1, <1>2, <1>3, <1>4, <1>5, <1>6, <1>7, <1>8 DEF WaiterStep

\* Every step of a subscriber keeps the invariant.
LEMMA MarkerInv ==
  ASSUME IInv, NEW m \in Markers, MarkerStep(m)
  PROVE  IInv'
  <1>0. TypeOK'
    BY MarkerType
  <1> USE ProcsAssumption, <1>0
      DEF IInv, MutexInv, SwapInv, DrawnInv, WinnerInv, BroadcastInv,
          NoTokenOnceReady, OneWinner, NoEarlyReturn, OneMessage, Procs, Goto
  <1>1. CASE SubscribeCheck(m)
    BY <1>1 DEF TypeOK, SubscribeCheck
  <1>2. CASE DrawToken(m)
    BY <1>2 DEF TypeOK, DrawToken
  <1>3. CASE SubscribeLock(m)
    <2>1. CASE Lock(m, "sublock", "insert")
      BY <2>1 DEF TypeOK, Lock
    <2>2. CASE LockTimesOut(m, "sublock", "refused")
      BY <2>2 DEF TypeOK, LockTimesOut
    <2> QED
      BY <1>3, <2>1, <2>2 DEF SubscribeLock
  <1>4. CASE InsertToken(m)
    BY <1>4 DEF TypeOK, InsertToken
  <1>5. CASE MarkCheck(m)
    BY <1>5 DEF TypeOK, MarkCheck
  <1>6. CASE MarkLock(m)
    <2>1. CASE Lock(m, "marklock", "mark")
      BY <2>1 DEF TypeOK, Lock
    <2>2. CASE LockTimesOut(m, "marklock", "returned")
      BY <2>2 DEF TypeOK, LockTimesOut
    <2> QED
      BY <1>6, <2>1, <2>2 DEF MarkLock
  <1>7. CASE Mark(m)
    BY <1>7 DEF TypeOK, Mark
  <1>8. CASE Announce(m)
    BY <1>8 DEF TypeOK, Announce, Broadcast
  <1> QED
    BY <1>1, <1>2, <1>3, <1>4, <1>5, <1>6, <1>7, <1>8 DEF MarkerStep

\* Every step of a waiting thread keeps the invariant.
LEMMA WaiterInv ==
  ASSUME IInv, NEW w \in Waiters, WaiterStep(w)
  PROVE  IInv'
  <1>0. TypeOK'
    BY WaiterType
  <1> USE ProcsAssumption, <1>0
      DEF IInv, MutexInv, SwapInv, DrawnInv, WinnerInv, BroadcastInv,
          NoTokenOnceReady, OneWinner, NoEarlyReturn, OneMessage, Procs, Goto
  <1>1. CASE FirstLoad(w)
    BY <1>1 DEF TypeOK, FirstLoad
  <1>2. CASE TryLock(w)
    BY <1>2 DEF TypeOK, TryLock
  <1>3. CASE SwapReady(w)
    BY <1>3 DEF TypeOK, SwapReady
  <1>4. CASE SendReady(w)
    BY <1>4 DEF TypeOK, SendReady, Broadcast
  <1>5. CASE LastLoad(w)
    BY <1>5 DEF TypeOK, LastLoad
  <1>6. CASE Attach(w)
    BY <1>6 DEF TypeOK, Attach
  <1>7. CASE Peek(w)
    BY <1>7 DEF TypeOK, Peek
  <1>8. CASE Changed(w)
    BY <1>8 DEF TypeOK, Changed
  <1> QED
    BY <1>1, <1>2, <1>3, <1>4, <1>5, <1>6, <1>7, <1>8 DEF WaiterStep

\* The invariant holds in every reachable state.
THEOREM Invariance == Spec => []IInv
  <1>1. IInv /\ [Next]_vars => IInv'
    <2> SUFFICES ASSUME IInv, [Next]_vars PROVE IInv'
      OBVIOUS
    <2>1. CASE Next
      BY <2>1, MarkerInv, WaiterInv DEF Next
    <2>2. CASE UNCHANGED vars
      BY <2>2, SMT
      DEF vars, IInv, TypeOK, MutexInv, SwapInv, DrawnInv, WinnerInv,
          BroadcastInv, NoTokenOnceReady, OneWinner, NoEarlyReturn, OneMessage
    <2> QED
      BY <2>1, <2>2
  <1> QED
    BY InitInv, <1>1, PTL DEF Spec

\* Every variable keeps its type; in particular only drawn tokens are subscribed.
THEOREM TypeCorrect == Spec => []TypeOK
  <1>1. IInv => TypeOK
    BY DEF IInv
  <1> QED
    BY <1>1, Invariance, PTL

\* Of the threads that race to turn the flag exactly one does, and a flag
\* that is ready holds no subscription.
THEOREM FlagTurnsOnce == Spec => [](OneWinner /\ NoTokenOnceReady)
  <1>1. IInv => OneWinner /\ NoTokenOnceReady
    BY DEF IInv
  <1> QED
    BY <1>1, Invariance, PTL

\* wait_ready never lets a tool call through before the flag is ready.
THEOREM WaitersWait == Spec => []NoEarlyReturn
  <1>1. IInv => NoEarlyReturn
    BY DEF IInv
  <1> QED
    BY <1>1, Invariance, PTL

\* A step of the flag is a step of the latch, or leaves the latch alone.
LEMMA StepSimulation ==
  ASSUME IInv, [Next]_vars
  PROVE  [Latch!Next]_<<ready, tokens, nextId - 1>>
  <1> USE ProcsAssumption
      DEF IInv, TypeOK, MutexInv, SwapInv, DrawnInv, NoTokenOnceReady, Procs,
          Goto
  <1>1. ASSUME NEW m \in Markers, MarkerStep(m)
        PROVE  [Latch!Next]_<<ready, tokens, nextId - 1>>
    <2>1. CASE DrawToken(m)
      <3>1. Latch!Reserve
        BY <2>1 DEF DrawToken, Latch!Reserve
      <3> QED
        BY <3>1 DEF Latch!Next
    <2>2. CASE InsertToken(m)
      <3>1. CASE ready
        BY <2>2, <3>1 DEF InsertToken
      <3>2. CASE ~ready
        <4>1. token[m] \in 1 .. nextId - 1
          BY <2>2, SMT DEF InsertToken
        <4>2. Latch!Subscribe
          BY <2>2, <3>2, <4>1 DEF InsertToken, Latch!Subscribe
        <4> QED
          BY <4>2 DEF Latch!Next
      <3> QED
        BY <3>1, <3>2
    <2>3. CASE Mark(m)
      <3>1. CASE token[m] \in tokens
        <4>1. Latch!OpenByKey
          BY <2>3, <3>1 DEF Mark, Latch!OpenByKey
        <4> QED
          BY <4>1 DEF Latch!Next
      <3>2. CASE token[m] \notin tokens
        BY <2>3, <3>2 DEF Mark
      <3> QED
        BY <3>1, <3>2
    <2>4. CASE SubscribeCheck(m) \/ SubscribeLock(m) \/ MarkCheck(m)
               \/ MarkLock(m) \/ Announce(m)
      BY <2>4
      DEF SubscribeCheck, SubscribeLock, MarkCheck, MarkLock, Announce, Lock,
          LockTimesOut
    <2> QED
      BY <1>1, <2>1, <2>2, <2>3, <2>4 DEF MarkerStep
  <1>2. ASSUME NEW w \in Waiters, WaiterStep(w)
        PROVE  [Latch!Next]_<<ready, tokens, nextId - 1>>
    <2>1. CASE SwapReady(w)
      <3>1. tokens = {}
        BY <2>1 DEF SwapReady
      <3>2. Latch!OpenUnclaimed
        BY <2>1, <3>1 DEF SwapReady, Latch!OpenUnclaimed
      <3> QED
        BY <3>2 DEF Latch!Next
    <2>2. CASE FirstLoad(w) \/ TryLock(w) \/ SendReady(w) \/ LastLoad(w)
               \/ Attach(w) \/ Peek(w) \/ Changed(w)
      BY <2>2
      DEF FirstLoad, TryLock, SendReady, LastLoad, Attach, Peek, Changed
    <2> QED
      BY <1>2, <2>1, <2>2 DEF WaiterStep
  <1>3. CASE UNCHANGED vars
    BY <1>3 DEF vars
  <1> QED
    BY <1>1, <1>2, <1>3 DEF Next

\* Whatever the interleaving, the flag is a one-shot latch.
THEOREM FlagIsLatch == Spec => ImplementsLatch
  <1>1. Init => Latch!Init
    BY DEF Init, Latch!Init
  <1>2. IInv /\ [Next]_vars => [Latch!Next]_<<ready, tokens, nextId - 1>>
    BY StepSimulation
  <1> QED
    BY <1>1, <1>2, Invariance, PTL DEF Spec, ImplementsLatch, Latch!Spec
=============================================================================
