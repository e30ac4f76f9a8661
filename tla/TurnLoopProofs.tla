--------------------------- MODULE TurnLoopProofs ---------------------------
(***************************************************************************)
(* The turns of a conversation, for any set of calls and any number of     *)
(* requests, retries and turns.  First the tool calls: a tool that is not  *)
(* parallel runs alone, and no tool outlives the attempt that has called   *)
(* it.  Then the history and the prompts made of it: every prompt is       *)
(* paired and extends the one before, and the outputs keep the order of    *)
(* the calls.                                                              *)
(***************************************************************************)
EXTENDS TurnLoop, FiniteSetTheorems, SequenceTheorems, TLAPS

Active == {"gate", "running"}
Live   == {"queued"} \union Spawned \union Finished

\* The invariant says nothing of the history: no tool step looks at it.
ToolTypes == /\ phase \in Phases
             /\ inFlight \in Seq(Calls)
             /\ tool \in [Calls -> ToolStates] /\ holders \subseteq Calls

\* The lock is held by the calls that are past it,
LockHeld == \A c \in Calls : c \in holders <=> tool[c] \in Active

\* by several only if all are parallel.
LockShared == \A c, d \in holders : c \notin Parallel => c = d

\* The futures are those of the live calls, one for each.
FuturesLive ==
    /\ \A c \in Calls : tool[c] \in Live <=> \E i \in DOMAIN inFlight : inFlight[i] = c
    /\ \A i, j \in DOMAIN inFlight : inFlight[i] = inFlight[j] => i = j

IInv == ToolTypes /\ LockHeld /\ LockShared /\ FuturesLive /\ ToolsSettled

\* The initial states satisfy the invariant.
LEMMA InitInv == Init => IInv
  <1> SUFFICES ASSUME Init PROVE IInv
    OBVIOUS
  <1> USE DEF Init
  <1>1. ToolTypes
    BY DEF ToolTypes, Phases, ToolStates
  <1>2. LockHeld /\ LockShared
    BY DEF LockHeld, LockShared, Active
  <1>3. FuturesLive
    BY DEF FuturesLive, Live, Spawned, Finished
  <1>4. ToolsSettled
    BY DEF ToolsSettled, Spawned, Finished
  <1> QED
    BY <1>1, <1>2, <1>3, <1>4 DEF IInv

-----------------------------------------------------------------------------
(* The turn's task                                                          *)

\* A step that leaves the calls and the queue alone and does not enter or leave
\* the two phases in which calls are live.
LEMMA TopSafe ==
  ASSUME IInv, phase \notin {"stream", "drain"}, phase' \in Phases,
         UNCHANGED <<inFlight, tool>>, holders' \in {holders, {}}
  PROVE  IInv'
  <1> USE DEF IInv
  <1>1. \A c \in Calls : tool[c] \notin Live /\ tool[c] \notin Active
    BY DEF ToolsSettled, Live, Active, Spawned, Finished
  <1>2. holders = {}
    BY <1>1 DEF LockHeld, ToolTypes
  <1>3. ToolTypes' /\ LockHeld' /\ LockShared'
    BY <1>1, <1>2 DEF ToolTypes, LockHeld, LockShared
  <1>4. FuturesLive'
    BY DEF FuturesLive
  <1>5. ToolsSettled'
    BY <1>1 DEF ToolsSettled, Live
  <1> QED
    BY <1>3, <1>4, <1>5

\* The model calls a tool.
LEMMA ToolCallSafe ==
  ASSUME IInv, NEW c \in Calls, ToolCall(c)
  PROVE  IInv'
  <1> USE DEF IInv, ToolCall
  <1>1. /\ inFlight \in Seq(Calls) /\ Len(inFlight) \in Nat
        /\ DOMAIN inFlight = 1 .. Len(inFlight)
        /\ DOMAIN inFlight' = 1 .. Len(inFlight) + 1
        /\ inFlight'[Len(inFlight) + 1] = c
        /\ \A i \in 1 .. Len(inFlight) : inFlight'[i] = inFlight[i]
    BY DEF ToolTypes
  <1>2. /\ tool'[c] = "queued" /\ tool[c] = "none"
        /\ \A d \in Calls : d # c => tool'[d] = tool[d]
    BY DEF ToolTypes
  <1>3. \A i \in 1 .. Len(inFlight) : inFlight[i] # c
    BY <1>1, <1>2 DEF FuturesLive, Live, Spawned, Finished
  <1>4. ToolTypes'
    BY <1>1 DEF ToolTypes, ToolStates
  <1>5. LockHeld' /\ LockShared'
    BY <1>2 DEF LockHeld, LockShared, Active
  <1>6. ASSUME NEW d \in Calls
        PROVE  tool'[d] \in Live
                 <=> \E i \in DOMAIN inFlight' : inFlight'[i] = d
    <2>1. CASE d = c
      BY <1>1, <1>2, <2>1 DEF Live
    <2>2. CASE d # c
      BY <1>1, <1>2, <2>2 DEF FuturesLive
    <2> QED
      BY <2>1, <2>2
  <1>7. FuturesLive'
    BY <1>1, <1>3, <1>6 DEF FuturesLive
  <1>8. ToolsSettled'
    BY <1>2 DEF ToolsSettled, Spawned, Finished
  <1> QED
    BY <1>4, <1>5, <1>7, <1>8

\* Draining spawns what is queued.
LEMMA StreamEndsSafe ==
  ASSUME IInv, NEW result \in Results, StreamEnds(result)
  PROVE  IInv'
  <1> USE DEF IInv, StreamEnds
  <1>1. \A c \in Calls : tool'[c] = IF tool[c] = "queued" THEN "lock" ELSE tool[c]
    BY DEF ToolTypes, Queued
  <1>2. ToolTypes'
    BY DEF ToolTypes, ToolStates, Spawned, Phases
  <1>3. LockHeld' /\ LockShared'
    BY <1>1 DEF LockHeld, LockShared, Active
  <1>4. FuturesLive'
    BY <1>1 DEF FuturesLive, Live, Spawned
  <1>5. ToolsSettled'
    BY <1>1 DEF ToolsSettled
  <1> QED
    BY <1>2, <1>3, <1>4, <1>5

\* An error drops what is queued.
LEMMA StreamFailsSafe ==
  ASSUME IInv, StreamFails
  PROVE  IInv'
  <1> USE DEF IInv, StreamFails
  <1>1. \A c \in Calls : tool'[c] = IF tool[c] = "queued" THEN "dropped" ELSE tool[c]
    BY DEF ToolTypes, Queued
  <1>2. \A c \in Calls : tool[c] \notin Spawned \union Finished
    BY DEF ToolsSettled
  <1>3. ToolTypes'
    BY DEF ToolTypes, ToolStates, Phases
  <1>4. LockHeld' /\ LockShared'
    BY <1>1 DEF LockHeld, LockShared, Active
  <1>5. FuturesLive'
    BY <1>1, <1>2 DEF FuturesLive, Live, Spawned, Finished
  <1>6. ToolsSettled'
    BY <1>1, <1>2 DEF ToolsSettled, Spawned, Finished
  <1> QED
    BY <1>3, <1>4, <1>5, <1>6

\* The output of the oldest call is recorded.
LEMMA RecordSafe ==
  ASSUME IInv, Record
  PROVE  IInv'
  <1> DEFINE c == Head(inFlight)
  <1> USE DEF IInv, Record
  <1>1. /\ inFlight \in Seq(Calls) /\ Len(inFlight) \in Nat /\ Len(inFlight) >= 1
        /\ DOMAIN inFlight = 1 .. Len(inFlight)
        /\ DOMAIN inFlight' = 1 .. Len(inFlight) - 1
        /\ c = inFlight[1] /\ c \in Calls
        /\ \A i \in 1 .. Len(inFlight) - 1 : inFlight'[i] = inFlight[i + 1]
        /\ inFlight' \in Seq(Calls)
    BY DEF ToolTypes
  <1>2. /\ tool[c] \in Finished /\ tool'[c] \in {"recorded", "dropped"}
        /\ \A d \in Calls : d # c => tool'[d] = tool[d]
        /\ tool' \in [Calls -> ToolStates]
    BY <1>1 DEF ToolTypes, ToolStates
  <1>3. phase = "drain" /\ phase' = "drain" /\ holders' = holders
    BY DEF turnVars
  <1> HIDE DEF c
  <1>4. ToolTypes'
    BY <1>1, <1>2, <1>3 DEF ToolTypes
  <1>5. LockHeld' /\ LockShared'
    BY <1>2, <1>3 DEF LockHeld, LockShared, Active, Finished
  <1>6. ASSUME NEW d \in Calls
        PROVE  tool'[d] \in Live
                 <=> \E i \in DOMAIN inFlight' : inFlight'[i] = d
    <2>1. CASE d = c
      <3>1. tool'[d] \notin Live
        BY <1>2, <2>1 DEF Live, Spawned, Finished
      <3>2. ASSUME NEW i \in DOMAIN inFlight' PROVE inFlight'[i] # d
        BY <1>1, <2>1, <3>2 DEF FuturesLive
      <3> QED
        BY <3>1, <3>2
    <2>2. CASE d # c
      <3>1. tool'[d] = tool[d]
        BY <1>2, <2>2
      <3>2. ASSUME NEW i \in DOMAIN inFlight, inFlight[i] = d
            PROVE  i - 1 \in DOMAIN inFlight' /\ inFlight'[i - 1] = d
        BY <1>1, <2>2, <3>2
      <3>3. ASSUME NEW i \in DOMAIN inFlight', inFlight'[i] = d
            PROVE  i + 1 \in DOMAIN inFlight /\ inFlight[i + 1] = d
        BY <1>1, <3>3
      <3> QED
        BY <3>1, <3>2, <3>3 DEF FuturesLive
    <2> QED
      BY <2>1, <2>2
  <1>7. FuturesLive'
    BY <1>1, <1>6 DEF FuturesLive
  <1>8. ToolsSettled'
    BY <1>2, <1>3 DEF ToolsSettled
  <1> QED
    BY <1>4, <1>5, <1>7, <1>8

\* Nothing is live when the queue is empty.
LEMMA DrainedSafe ==
  ASSUME IInv, Drained
  PROVE  IInv'
  <1> USE DEF IInv, Drained, Goto, toolVars
  <1>1. DOMAIN inFlight = {}
    OBVIOUS
  <1>2. \A c \in Calls : tool[c] \notin Live
    BY <1>1 DEF FuturesLive
  <1>3. phase' \in {"failed", "top", "done"}
    OBVIOUS
  <1>4. ToolTypes' /\ LockHeld' /\ LockShared'
    BY <1>3 DEF ToolTypes, Phases, LockHeld, LockShared
  <1>5. FuturesLive' /\ ToolsSettled'
    BY <1>2 DEF FuturesLive, ToolsSettled, Live
  <1> QED
    BY <1>4, <1>5

\* The turn's task is aborted.
LEMMA KillSafe ==
  ASSUME IInv, Kill
  PROVE  IInv'
  <1> USE DEF IInv, Kill
  <1>1. \A c \in Calls : tool'[c] \in {"zombie", "none", "recorded", "dropped"}
    BY DEF ToolTypes
  <1>2. ToolTypes'
    BY DEF ToolTypes, ToolStates, Phases
  <1>3. LockHeld' /\ LockShared'
    BY <1>1 DEF LockHeld, LockShared, Active
  <1>4. DOMAIN inFlight' = {}
    OBVIOUS
  <1>5. FuturesLive'
    BY <1>1, <1>4 DEF FuturesLive, Live, Spawned, Finished
  <1>6. ToolsSettled'
    BY <1>1 DEF ToolsSettled, Spawned, Finished
  <1> QED
    BY <1>2, <1>3, <1>5, <1>6

-----------------------------------------------------------------------------
(* The tasks of the tool calls                                              *)

\* A call that is live goes on, without a lock of its own before and after.
LEMMA MoveSafe ==
  ASSUME IInv, NEW c \in Calls, NEW state \in Spawned \union Finished,
         tool[c] \in Spawned, tool' = [tool EXCEPT ![c] = state],
         UNCHANGED <<phase, inFlight>>,
         holders' \subseteq Calls, LockHeld', LockShared'
  PROVE  IInv'
  <1> USE DEF IInv
  <1>1. /\ tool'[c] = state /\ tool[c] \in Live /\ state \in Live
        /\ \A d \in Calls : d # c => tool'[d] = tool[d]
    BY DEF ToolTypes, Live
  <1>2. ToolTypes'
    BY DEF ToolTypes, ToolStates
  <1>3. FuturesLive'
    BY <1>1 DEF FuturesLive
  <1>4. phase = "drain"
    BY DEF ToolsSettled
  <1>5. ToolsSettled'
    BY <1>1, <1>4 DEF ToolsSettled, Spawned, Finished
  <1> QED
    BY <1>2, <1>3, <1>5

\* The lock is taken.
LEMMA AcquireSafe ==
  ASSUME IInv, NEW c \in Calls, Acquire(c)
  PROVE  IInv'
  <1> USE CallsAssumption DEF IInv, Acquire, turnVars
  <1>1. PICK state \in Active : tool' = [tool EXCEPT ![c] = state]
    BY DEF Active
  <1>2. /\ tool'[c] = state /\ \A d \in Calls : d # c => tool'[d] = tool[d]
    BY <1>1 DEF ToolTypes
  <1>3. LockHeld'
    BY <1>2 DEF LockHeld, ToolTypes
  <1>4. c \notin holders
    BY DEF LockHeld, Active
  <1>5. LockShared'
    <2> SUFFICES ASSUME NEW d \in holders \union {c}, NEW e \in holders \union {c},
                        d \notin Parallel
                 PROVE  d = e
      BY DEF LockShared
    <2>1. CASE c \in Parallel
      BY <2>1
    <2>2. CASE c \notin Parallel
      BY <2>2
    <2> QED
      BY <2>1, <2>2
  <1>6. holders' \subseteq Calls /\ tool[c] \in Spawned /\ state \in Spawned
    BY DEF ToolTypes, Spawned, Active
  <1> QED
    BY <1>1, <1>3, <1>5, <1>6, MoveSafe

\* The gate opens.
LEMMA PassGateSafe ==
  ASSUME IInv, NEW c \in Calls, PassGate(c)
  PROVE  IInv'
  <1> USE DEF IInv, PassGate, turnVars
  <1>1. LockHeld' /\ LockShared'
    BY DEF LockHeld, LockShared, ToolTypes, Active
  <1>2. holders' \subseteq Calls /\ tool[c] \in Spawned /\ "running" \in Spawned
    BY DEF ToolTypes, Spawned
  <1> QED
    BY <1>1, <1>2, MoveSafe

\* The lock is released: the handler has returned, or the call is dropped.
LEMMA ReleaseSafe ==
  ASSUME IInv, NEW c \in Calls, NEW state \in Finished, Release(c, state),
         tool[c] \in Spawned, UNCHANGED <<phase, inFlight>>
  PROVE  IInv'
  <1> USE DEF IInv, Release
  <1>1. /\ tool'[c] \notin Active
        /\ \A d \in Calls : d # c => tool'[d] = tool[d]
    BY DEF ToolTypes, Active, Finished
  <1>2. LockHeld' /\ LockShared'
    BY <1>1 DEF LockHeld, LockShared, ToolTypes
  <1>3. holders' \subseteq Calls
    BY DEF ToolTypes
  <1> QED
    BY <1>2, <1>3, MoveSafe

\* The rest of a call that was running when its turn was killed.
LEMMA ZombieEndsSafe ==
  ASSUME IInv, NEW c \in Calls, ZombieEnds(c)
  PROVE  IInv'
  <1> USE DEF IInv, ZombieEnds, turnVars
  <1>1. /\ tool[c] = "zombie" /\ tool'[c] = "dropped"
        /\ \A d \in Calls : d # c => tool'[d] = tool[d]
    BY DEF ToolTypes
  <1>2. ToolTypes'
    BY DEF ToolTypes, ToolStates
  <1>3. LockHeld' /\ LockShared'
    BY <1>1 DEF LockHeld, LockShared, Active
  <1>4. FuturesLive'
    BY <1>1 DEF FuturesLive, Live, Spawned, Finished
  <1>5. ToolsSettled'
    BY <1>1 DEF ToolsSettled, Spawned, Finished
  <1> QED
    BY <1>2, <1>3, <1>4, <1>5

-----------------------------------------------------------------------------
\* The invariant is inductive.
LEMMA NextInv == IInv /\ [Next]_vars => IInv'
  <1> SUFFICES ASSUME IInv, [Next]_vars PROVE IInv'
    OBVIOUS
  <1>1. ASSUME UNCHANGED <<phase, toolVars>> PROVE IInv'
    BY <1>1 DEF toolVars, IInv, ToolTypes, LockHeld, LockShared, FuturesLive,
       ToolsSettled
  <1>2. CASE Begin \/ Request \/ Retry
    BY <1>2, TopSafe DEF Begin, Request, Retry, NewAttempt, toolVars, Phases
  <1>3. CASE Decline \/ Surrender \/ ReplaceImage
    BY <1>3, TopSafe DEF Decline, Surrender, ReplaceImage, Goto, toolVars, Phases
  <1>4. CASE NamelessCall \/ Cancel \/ \E t \in 1 .. MaxTurns : SnapshotDone(t)
    BY <1>1, <1>4 DEF NamelessCall, Cancel, SnapshotDone, turnVars
  <1>5. CASE StreamFails \/ Record \/ Drained \/ Kill
    BY <1>5, StreamFailsSafe, RecordSafe, DrainedSafe, KillSafe
  <1>6. CASE \E result \in Results : StreamEnds(result)
    BY <1>6, StreamEndsSafe
  <1>7. ASSUME NEW c \in Calls, ToolCall(c) \/ Acquire(c) \/ PassGate(c) \/ ZombieEnds(c)
        PROVE  IInv'
    BY <1>7, ToolCallSafe, AcquireSafe, PassGateSafe, ZombieEndsSafe
  <1>8. ASSUME NEW c \in Calls, HandlerReturns(c) \/ Interrupted(c)
        PROVE  IInv'
    BY <1>8, ReleaseSafe DEF HandlerReturns, Interrupted, Spawned, Finished, turnVars
  <1>9. CASE UNCHANGED vars
    BY <1>1, <1>9 DEF vars, turnVars
  <1> QED
    BY <1>2, <1>3, <1>4, <1>5, <1>6, <1>7, <1>8, <1>9 DEF Next

\* The invariant holds in every state of a conversation.
THEOREM Invariance == Spec => []IInv
  BY InitInv, NextInv, PTL DEF Spec

\* A call whose tool does not support parallel calls runs alone
\* (tools/parallel.rs).
THEOREM ExclusiveRunsAlone == Spec => []ExclusiveAlone
  <1>1. IInv => ExclusiveAlone
    BY DEF IInv, LockHeld, LockShared, ExclusiveAlone, Active
  <1> QED
    BY <1>1, Invariance, PTL

\* No attempt leaves a tool behind that is queued, spawned or unrecorded
\* (try_run_turn and drain_in_flight, codex.rs).
THEOREM AttemptsSettleTools == Spec => []ToolsSettled
  BY Invariance, PTL DEF IInv
-----------------------------------------------------------------------------
(* Induction over numbers and sequences, and what FlattenSeq computes       *)

\* A set of positions has a first one: below it there is the fewest.
LEMMA Least ==
  ASSUME NEW n \in Nat, NEW T \in SUBSET (1 .. n), T # {}
  PROVE  \E x \in T : \A y \in T : x <= y
<1> DEFINE Below(x) == {y \in T : y < x}
           All == {Below(x) : x \in T}
<1>1. IsWellFoundedOn(StrictSubsetOrdering(1 .. n), FiniteSubsetsOf(1 .. n))
  BY FS_StrictSubsetOrderingWellFounded
<1>2. All \subseteq FiniteSubsetsOf(1 .. n) /\ All # {}
  <2>1. FiniteSubsetsOf(1 .. n) = SUBSET (1 .. n)
    <3>1. IsFiniteSet(1 .. n)
      BY FS_Interval
    <3> QED
      BY <3>1, FS_FiniteSubsetsOfFinite
  <2>2. ASSUME NEW Y \in All PROVE Y \in SUBSET (1 .. n)
    <3>1. PICK x \in T : Y = Below(x)
      OBVIOUS
    <3> QED
      BY <3>1
  <2>3. All # {}
    OBVIOUS
  <2> HIDE DEF All
  <2> QED
    BY <2>1, <2>2, <2>3
<1>3. PICK X \in All : \A Y \in All : ~(<<Y, X>> \in StrictSubsetOrdering(1 .. n))
  <2> HIDE DEF All
  <2> QED
    BY <1>1, <1>2, WFMin
<1>4. PICK x \in T : X = Below(x)
  OBVIOUS
<1>5. ASSUME NEW y \in T, y < x PROVE FALSE
  <2>1. y \in Below(x) /\ y \notin Below(y) /\ \A z \in Below(y) : z \in Below(x)
    BY <1>5
  <2>2. <<Below(y), X>> \in StrictSubsetOrdering(1 .. n)
    BY <2>1, <1>4 DEF StrictSubsetOrdering
  <2> QED
    BY <2>2, <1>3
<1> QED
  BY <1>5

\* Induction, with the numbers a formula holds for as a set.
LEMMA Induction ==
  ASSUME NEW S \in SUBSET Nat, 0 \in S, \A n \in S : n + 1 \in S
  PROVE  \A n \in Nat : n \in S
<1> SUFFICES ASSUME NEW n \in Nat, n \notin S PROVE FALSE
  OBVIOUS
<1> DEFINE T == {m \in 1 .. n : m \notin S}
<1>1. n \in T
  OBVIOUS
<1>2. PICK x \in T : \A y \in T : x <= y
  BY <1>1, Least
<1>3. x - 1 \in Nat /\ x - 1 \notin T
  BY <1>2
<1>4. x - 1 \in S
  BY <1>2, <1>3
<1>5. (x - 1) + 1 \in S
  BY <1>4
<1> QED
  BY <1>2, <1>5

\* The function FlattenSeq is defined by, up to the n-th sequence.
Flattens(g, s, n) == g = [i \in 1 .. n |-> IF i = 1 THEN s[i] ELSE g[i-1] \o s[i]]

LEMMA FlattenIs ==
  ASSUME NEW s, Len(s) # 0
  PROVE  FlattenSeq(s) = (CHOOSE g : Flattens(g, s, Len(s)))[Len(s)]
BY Zenon DEF FlattenSeq, Flattens

LEMMA FlattenExists ==
  ASSUME NEW s
  PROVE  \A n \in Nat : \E g : Flattens(g, s, n)
<1> DEFINE S == {n \in Nat : \E g : Flattens(g, s, n)}
<1>1. 0 \in S
  <2>1. Flattens([i \in 1 .. 0 |-> s], s, 0)
    BY DEF Flattens
  <2> QED
    BY <2>1
<1>2. ASSUME NEW n \in S PROVE n + 1 \in S
  <2>1. PICK g : Flattens(g, s, n)
    OBVIOUS
  <2> DEFINE f == [i \in 1 .. n + 1 |-> IF i = n + 1
                                        THEN IF i = 1 THEN s[i] ELSE g[i-1] \o s[i]
                                        ELSE g[i]]
  <2>2. \A i \in 1 .. n : g[i] = IF i = 1 THEN s[i] ELSE g[i-1] \o s[i]
    BY <2>1 DEF Flattens
  <2>3. \A i \in 1 .. n : f[i] = g[i]
    OBVIOUS
  <2>4. \A i \in 1 .. n + 1 : f[i] = IF i = 1 THEN s[i] ELSE f[i-1] \o s[i]
    <3>1. ASSUME NEW i \in 1 .. n + 1 PROVE f[i] = IF i = 1 THEN s[i] ELSE f[i-1] \o s[i]
      <4>1. i # 1 => i - 1 \in 1 .. n
        OBVIOUS
      <4>2. i # 1 => f[i-1] = g[i-1]
        BY <4>1, <2>3
      <4>3. CASE i = n + 1
        <5>1. f[i] = IF i = 1 THEN s[i] ELSE g[i-1] \o s[i]
          BY <4>3
        <5> HIDE DEF f
        <5> QED
          BY <4>2, <5>1
      <4>4. CASE i # n + 1
        <5>1. i \in 1 .. n
          BY <4>4
        <5>2. f[i] = g[i]
          BY <5>1, <2>3
        <5> HIDE DEF f
        <5> QED
          BY <4>2, <5>1, <5>2, <2>2
      <4> QED
        BY <4>3, <4>4
    <3> QED
      BY <3>1
  <2>5. f = [i \in 1 .. n + 1 |-> f[i]]
    OBVIOUS
  <2>6. Flattens(f, s, n + 1)
    <3> HIDE DEF f
    <3> QED
      BY <2>4, <2>5 DEF Flattens
  <2> HIDE DEF f
  <2> QED
    BY <2>6
<1>3. S \in SUBSET Nat
  OBVIOUS
<1> HIDE DEF S
<1>4. \A n \in Nat : n \in S
  BY <1>1, <1>2, <1>3, Induction
<1> QED
  BY <1>4 DEF S

LEMMA FlattensAt ==
  ASSUME NEW s, NEW n \in Nat, NEW g, Flattens(g, s, n), NEW i \in 1 .. n
  PROVE  g[i] = IF i = 1 THEN s[i] ELSE g[i-1] \o s[i]
<1> DEFINE next(k) == IF k = 1 THEN s[k] ELSE g[k-1] \o s[k]
<1>1. g = [k \in 1 .. n |-> next(k)]
  BY DEF Flattens
<1> HIDE DEF next
<1>2. g[i] = next(i)
  BY <1>1
<1> QED
  BY <1>2 DEF next

LEMMA FlattensLast ==
  ASSUME NEW s, NEW n \in Nat, n # 0, NEW k \in Nat, k = n + 1, NEW g, Flattens(g, s, k)
  PROVE  g[k] = g[n] \o s[k]
<1>1. k \in 1 .. k /\ k # 1 /\ k - 1 = n
  OBVIOUS
<1> DEFINE next(i) == IF i = 1 THEN s[i] ELSE g[i-1] \o s[i]
<1>2. g = [i \in 1 .. k |-> next(i)]
  BY DEF Flattens
<1> HIDE DEF next
<1>3. g[k] = next(k)
  BY ONLY <1>1, <1>2
<1> QED
  BY ONLY <1>1, <1>3 DEF next

\* Sequences that begin alike are flattened alike.
LEMMA FlattenUnique ==
  ASSUME NEW s, NEW t, NEW n \in Nat, NEW m \in Nat, n <= m,
         \A i \in 1 .. n : s[i] = t[i],
         NEW f, NEW g, Flattens(f, s, n), Flattens(g, t, m)
  PROVE  \A i \in 1 .. n : f[i] = g[i]
<1> DEFINE S == {i \in Nat : i \in 1 .. n => f[i] = g[i]}
<1>1. 0 \in S
  OBVIOUS
<1>2. \A i \in 1 .. n : /\ f[i] = IF i = 1 THEN s[i] ELSE f[i-1] \o s[i]
                        /\ g[i] = IF i = 1 THEN t[i] ELSE g[i-1] \o t[i]
  <2>1. \A i \in 1 .. n : i \in 1 .. m
    OBVIOUS
  <2> QED
    BY <2>1, FlattensAt
<1>3. ASSUME NEW i \in S PROVE i + 1 \in S
  <2> SUFFICES ASSUME i + 1 \in 1 .. n PROVE f[i+1] = g[i+1]
    OBVIOUS
  <2>1. (i + 1) - 1 = i /\ (i + 1 # 1 => f[i] = g[i])
    OBVIOUS
  <2>2. /\ f[i+1] = IF i + 1 = 1 THEN s[i+1] ELSE f[i] \o s[i+1]
        /\ g[i+1] = IF i + 1 = 1 THEN t[i+1] ELSE g[i] \o t[i+1]
    BY <1>2, <2>1
  <2>3. s[i+1] = t[i+1]
    OBVIOUS
  <2> QED
    BY <2>1, <2>2, <2>3
<1>4. S \in SUBSET Nat
  OBVIOUS
<1> HIDE DEF S
<1>5. \A i \in Nat : i \in S
  BY <1>1, <1>3, <1>4, Induction
<1> QED
  BY <1>5 DEF S

LEMMA FlattenTo ==
  ASSUME NEW s, Len(s) \in Nat, Len(s) # 0, NEW t, NEW m \in Nat, Len(s) <= m,
         \A i \in 1 .. Len(s) : s[i] = t[i], NEW g, Flattens(g, t, m)
  PROVE  FlattenSeq(s) = g[Len(s)]
<1> DEFINE n == Len(s)
           f == CHOOSE f : Flattens(f, s, n)
<1>1. n \in Nat /\ Len(s) = n /\ n # 0 /\ n <= m /\ \A i \in 1 .. n : s[i] = t[i]
  OBVIOUS
<1> HIDE DEF n
<1>2. FlattenSeq(s) = f[n]
  BY <1>1, FlattenIs
<1>3. Flattens(f, s, n)
  BY <1>1, FlattenExists
<1> HIDE DEF f
<1>4. n \in 1 .. n
  BY <1>1
<1>5. \A i \in 1 .. n : f[i] = g[i]
  <2>1. /\ n \in Nat /\ m \in Nat /\ n <= m /\ \A i \in 1 .. n : s[i] = t[i]
        /\ Flattens(f, s, n) /\ Flattens(g, t, m)
    BY <1>1, <1>3
  <2> QED
    BY ONLY <2>1, FlattenUnique
<1>6. FlattenSeq(s) = g[n]
  BY ONLY <1>2, <1>4, <1>5
<1> QED
  BY ONLY Zenon, <1>6 DEF n

LEMMA FlattenSelf ==
  ASSUME NEW t, Len(t) \in Nat, Len(t) # 0, NEW g, Flattens(g, t, Len(t))
  PROVE  FlattenSeq(t) = g[Len(t)]
<1>1. Len(t) <= Len(t) /\ \A i \in 1 .. Len(t) : t[i] = t[i]
  OBVIOUS
<1>2. Len(t) \in Nat /\ Len(t) # 0 /\ Flattens(g, t, Len(t))
  OBVIOUS
<1> QED
  BY ONLY <1>1, <1>2, FlattenTo

\* A sequence of sequences that becomes longer by one.
LEMMA FlattenOneMore ==
  ASSUME NEW s, NEW t, Len(s) \in Nat, Len(s) # 0, Len(t) = Len(s) + 1,
         \A i \in 1 .. Len(s) : s[i] = t[i]
  PROVE  FlattenSeq(t) = FlattenSeq(s) \o t[Len(t)]
<1>1. Len(t) \in Nat /\ Len(t) # 0
  OBVIOUS
<1>2. PICK g : Flattens(g, t, Len(t))
  BY <1>1, FlattenExists
<1>3. FlattenSeq(t) = g[Len(t)]
  BY ONLY <1>1, <1>2, FlattenSelf
<1>4. Len(s) \in Nat /\ Len(s) # 0 /\ Len(t) = Len(s) + 1
  OBVIOUS
<1>5. g[Len(t)] = g[Len(s)] \o t[Len(t)]
  BY ONLY Zenon, <1>1, <1>2, <1>4, FlattensLast
<1>6. FlattenSeq(s) = g[Len(s)]
  <2>1. Len(s) \in Nat /\ Len(s) # 0 /\ Len(s) <= Len(t) /\ \A i \in 1 .. Len(s) : s[i] = t[i]
    OBVIOUS
  <2> QED
    BY ONLY <1>1, <1>2, <2>1, FlattenTo
<1> QED
  BY ONLY Zenon, <1>3, <1>5, <1>6

LEMMA FlattenOne ==
  ASSUME NEW t, Len(t) = 1
  PROVE  FlattenSeq(t) = t[1]
<1>1. Len(t) \in Nat /\ Len(t) # 0 /\ 1 \in 1 .. Len(t) /\ Len(t) = 1
  OBVIOUS
<1>2. PICK g : Flattens(g, t, Len(t))
  BY <1>1, FlattenExists
<1>3. FlattenSeq(t) = g[Len(t)]
  BY ONLY <1>1, <1>2, FlattenSelf
<1>4. g[1] = IF 1 = 1 THEN t[1] ELSE g[1 - 1] \o t[1]
  BY ONLY <1>1, <1>2, FlattensAt
<1> QED
  BY ONLY <1>1, <1>3, <1>4

\* A sequence of sequences that becomes longer by one.
LEMMA FlattenAppend ==
  ASSUME NEW S, NEW s \in Seq(Seq(S)), NEW x \in Seq(S)
  PROVE  FlattenSeq(Append(s, x)) = FlattenSeq(s) \o x
<1> DEFINE t == Append(s, x)
           n == Len(s)
           k == n + 1
<1>1. /\ n \in Nat /\ k = n + 1 /\ Len(s) = n /\ Len(t) = k
      /\ \A i \in 1 .. n : s[i] = t[i]
  OBVIOUS
<1>2. t[k] = x
  OBVIOUS
<1>3. n = 0 => s = <<>> /\ FlattenSeq(s) = s
  <2>1. n = 0 => s = <<>>
    OBVIOUS
  <2>2. n = 0 => FlattenSeq(s) = s
    BY Zenon DEF FlattenSeq, n
  <2> QED
    BY <2>1, <2>2
<1>4. <<>> \o x = x
  BY ConcatEmptySeq
<1> HIDE DEF t, n, k
<1>5. ASSUME n = 0 PROVE FlattenSeq(t) = FlattenSeq(s) \o x
  <2>1. k = 1 /\ Len(t) = 1
    BY <1>1, <1>5
  <2>2. FlattenSeq(t) = t[k]
    BY ONLY <2>1, FlattenOne
  <2>3. s = <<>> /\ FlattenSeq(s) = s
    BY Zenon, <1>3, <1>5
  <2>4. FlattenSeq(s) \o x = x
    BY ONLY Zenon, <2>3, <1>4
  <2> QED
    BY ONLY Zenon, <2>2, <2>4, <1>2
<1>6. ASSUME n # 0 PROVE FlattenSeq(t) = FlattenSeq(s) \o x
  <2>1. /\ Len(s) \in Nat /\ Len(s) # 0 /\ Len(t) = Len(s) + 1
        /\ \A i \in 1 .. Len(s) : s[i] = t[i]
    BY ONLY <1>1, <1>6
  <2>2. FlattenSeq(t) = FlattenSeq(s) \o t[Len(t)]
    BY ONLY <2>1, FlattenOneMore
  <2>3. t[Len(t)] = x
    BY ONLY <1>1, <1>2
  <2> QED
    BY ONLY Zenon, <2>2, <2>3
<1>7. FlattenSeq(t) = FlattenSeq(s) \o x
  BY ONLY Zenon, <1>5, <1>6
<1> QED
  BY ONLY Zenon, <1>7 DEF t

LEMMA FlattenType ==
  ASSUME NEW S
  PROVE  \A s \in Seq(Seq(S)) : FlattenSeq(s) \in Seq(S)
<1> DEFINE N == {n \in Nat : \A s \in Seq(Seq(S)) : Len(s) = n => FlattenSeq(s) \in Seq(S)}
<1>1. 0 \in N
  <2>1. ASSUME NEW s \in Seq(Seq(S)), Len(s) = 0 PROVE FlattenSeq(s) \in Seq(S)
    <3>1. FlattenSeq(s) = s
      BY <2>1, Zenon DEF FlattenSeq
    <3>2. s = <<>>
      BY <2>1
    <3> QED
      BY <3>1, <3>2
  <2> QED
    BY <2>1
<1>2. ASSUME NEW n \in N PROVE n + 1 \in N
  <2>1. ASSUME NEW s \in Seq(Seq(S)), Len(s) = n + 1 PROVE FlattenSeq(s) \in Seq(S)
    <3>1. PICK t \in Seq(Seq(S)), x \in Seq(S) : s = Append(t, x) /\ Len(t) = n
      <4>1. /\ s = Append(SubSeq(s, 1, n), s[n+1])
            /\ SubSeq(s, 1, n) \in Seq(Seq(S)) /\ Len(SubSeq(s, 1, n)) = n
        BY <2>1
      <4>2. s[n+1] \in Seq(S)
        BY <2>1
      <4> QED
        BY <4>1, <4>2
    <3>2. FlattenSeq(t) \in Seq(S)
      BY <3>1
    <3>3. FlattenSeq(t) \o x \in Seq(S)
      BY <3>2, ConcatProperties
    <3> QED
      BY <3>1, <3>3, FlattenAppend
  <2> QED
    BY <2>1
<1>3. N \in SUBSET Nat
  OBVIOUS
<1> HIDE DEF N
<1>4. \A n \in Nat : n \in N
  BY <1>1, <1>2, <1>3, Induction
<1> QED
  BY <1>4 DEF N

\* Induction over sequences, with those a formula holds for as a set.
LEMMA SequenceInduction ==
  ASSUME NEW T, NEW P \in SUBSET Seq(T), <<>> \in P, \A s \in P, x \in T : Append(s, x) \in P
  PROVE  \A s \in Seq(T) : s \in P
<1> DEFINE N == {n \in Nat : \A s \in Seq(T) : Len(s) = n => s \in P}
<1>1. 0 \in N
  <2>1. \A s \in Seq(T) : Len(s) = 0 => s = <<>>
    OBVIOUS
  <2> QED
    BY <2>1
<1>2. ASSUME NEW n \in N PROVE n + 1 \in N
  <2>1. ASSUME NEW s \in Seq(T), Len(s) = n + 1 PROVE s \in P
    <3>1. s # <<>>
      BY <2>1
    <3>2. PICK t \in Seq(T), x \in T : s = Append(t, x)
      BY <3>1, SequenceEmptyOrAppend
    <3>3. Len(t) = n
      BY <2>1, <3>2
    <3> QED
      BY <3>2, <3>3
  <2> QED
    BY <2>1
<1>3. N \in SUBSET Nat
  OBVIOUS
<1> HIDE DEF N
<1>4. \A n \in Nat : n \in N
  BY <1>1, <1>2, <1>3, Induction
<1> QED
  BY <1>4 DEF N

-----------------------------------------------------------------------------
(* What the model is told of a history                                      *)

\* What becomes of an item: a call of open gets its stub, another item stays if it
\* is of kept.
Piece(x, open, kept) == IF x \in open THEN <<x, Stub(x.call)>>
                        ELSE IF x \in kept THEN <<x>> ELSE <<>>
Pieces(h, open, kept) == [i \in DOMAIN h |-> Piece(h[i], open, kept)]
Told(h, open, kept) == FlattenSeq(Pieces(h, open, kept))

LEMMA PieceType ==
  ASSUME NEW x \in Item, NEW open, NEW kept
  PROVE  Piece(x, open, kept) \in Seq(Item)
<1>1. Stub(x.call) \in Item
  BY DEF Item, Stub
<1> QED
  BY <1>1 DEF Piece

LEMMA PiecesType ==
  ASSUME NEW h \in Seq(Item), NEW open, NEW kept
  PROVE  /\ Pieces(h, open, kept) \in Seq(Seq(Item))
         /\ Len(Pieces(h, open, kept)) = Len(h)
<1>1. \A i \in 1 .. Len(h) : Piece(h[i], open, kept) \in Seq(Item)
  BY PieceType
<1>2. Pieces(h, open, kept) = [i \in 1 .. Len(h) |-> Piece(h[i], open, kept)]
  BY DEF Pieces
<1> QED
  BY <1>1, <1>2

LEMMA PiecesAppend ==
  ASSUME NEW h \in Seq(Item), NEW x \in Item, NEW open, NEW kept
  PROVE  Pieces(Append(h, x), open, kept) = Append(Pieces(h, open, kept), Piece(x, open, kept))
<1> DEFINE l == Pieces(Append(h, x), open, kept)
           r == Append(Pieces(h, open, kept), Piece(x, open, kept))
           n == Len(h) + 1
<1>1. l \in Seq(Seq(Item)) /\ Len(l) = n
  <2>1. Append(h, x) \in Seq(Item) /\ Len(Append(h, x)) = n
    OBVIOUS
  <2> QED
    BY <2>1, PiecesType
<1>2. r \in Seq(Seq(Item)) /\ Len(r) = n
  BY PiecesType, PieceType
<1>3. ASSUME NEW i \in 1 .. n PROVE l[i] = r[i]
  <2>1. l[i] = Piece(Append(h, x)[i], open, kept)
    BY DEF Pieces
  <2>2. CASE i = n
    BY <2>1, <2>2, PiecesType, PieceType
  <2>3. CASE i # n
    <3>1. i \in DOMAIN h /\ Append(h, x)[i] = h[i] /\ i \in 1 .. Len(h)
      BY <2>3
    <3>2. r[i] = Pieces(h, open, kept)[i]
      BY <3>1, PiecesType, PieceType
    <3> QED
      BY <2>1, <3>1, <3>2 DEF Pieces
  <2> QED
    BY <2>2, <2>3
<1> HIDE DEF l, r, n
<1> QED
  BY <1>1, <1>2, <1>3, SeqEqual DEF l, r

LEMMA ToldEmpty ==
  ASSUME NEW open, NEW kept
  PROVE  Told(<<>>, open, kept) = <<>>
<1>1. Pieces(<<>>, open, kept) \in Seq(Seq(Item)) /\ Len(Pieces(<<>>, open, kept)) = 0
  <2>1. <<>> \in Seq(Item) /\ Len(<<>>) = 0
    OBVIOUS
  <2> QED
    BY <2>1, PiecesType
<1>2. Pieces(<<>>, open, kept) = <<>>
  BY <1>1
<1>3. Len(<<>>) = 0
  OBVIOUS
<1>4. FlattenSeq(<<>>) = <<>>
  BY <1>3, Zenon DEF FlattenSeq
<1> QED
  BY <1>2, <1>4 DEF Told

LEMMA ToldType ==
  ASSUME NEW h \in Seq(Item), NEW open, NEW kept
  PROVE  Told(h, open, kept) \in Seq(Item)
BY PiecesType, FlattenType DEF Told

LEMMA ToldAppend ==
  ASSUME NEW h \in Seq(Item), NEW x \in Item, NEW open, NEW kept
  PROVE  Told(Append(h, x), open, kept) = Told(h, open, kept) \o Piece(x, open, kept)
<1>1. FlattenSeq(Append(Pieces(h, open, kept), Piece(x, open, kept)))
        = FlattenSeq(Pieces(h, open, kept)) \o Piece(x, open, kept)
  BY PiecesType, PieceType, FlattenAppend
<1> QED
  BY <1>1, PiecesAppend DEF Told

LEMMA Associates ==
  ASSUME NEW r, NEW s, NEW t, r \in Seq(Item), s \in Seq(Item), t \in Seq(Item)
  PROVE  (r \o s) \o t = r \o (s \o t)
BY ConcatAssociative

LEMMA ToldConcat ==
  ASSUME NEW h \in Seq(Item), NEW g \in Seq(Item), NEW open, NEW kept
  PROVE  Told(h \o g, open, kept) = Told(h, open, kept) \o Told(g, open, kept)
<1> DEFINE T(s) == Told(s, open, kept)
           p(x) == Piece(x, open, kept)
<1>1. \A s \in Seq(Item) : T(s) \in Seq(Item)
  BY ToldType
<1>2. \A x \in Item : p(x) \in Seq(Item)
  BY PieceType
<1>3. \A s \in Seq(Item), x \in Item : T(Append(s, x)) = T(s) \o p(x)
  BY ToldAppend
<1>4. T(<<>>) = <<>>
  BY ToldEmpty
<1> HIDE DEF T, p
<1>9. ASSUME NEW s \in Seq(Item), NEW x \in Item
      PROVE  (T(h) \o T(s)) \o p(x) = T(h) \o (T(s) \o p(x))
  <2>1. T(h) \in Seq(Item) /\ T(s) \in Seq(Item) /\ p(x) \in Seq(Item)
    BY <1>1, <1>2
  <2> QED
    BY <2>1, Associates
<1> DEFINE P == {s \in Seq(Item) : T(h \o s) = T(h) \o T(s)}
<1>5. <<>> \in P
  <2>1. h \o <<>> = h
    BY ConcatEmptySeq
  <2>2. T(h) \o <<>> = T(h)
    BY <1>1, ConcatEmptySeq
  <2>3. <<>> \in Seq(Item)
    OBVIOUS
  <2> QED
    BY <1>4, <2>1, <2>2, <2>3
<1>6. ASSUME NEW s \in P, NEW x \in Item PROVE Append(s, x) \in P
  <2>1. h \o Append(s, x) = Append(h \o s, x) /\ h \o s \in Seq(Item) /\ Append(s, x) \in Seq(Item)
    OBVIOUS
  <2>2. T(h \o Append(s, x)) = (T(h) \o T(s)) \o p(x)
    BY <1>3, <2>1
  <2> QED
    BY <1>3, <1>9, <2>1, <2>2
<1>7. P \in SUBSET Seq(Item)
  OBVIOUS
<1> HIDE DEF P
<1>8. g \in P
  BY <1>5, <1>6, <1>7, SequenceInduction
<1> QED
  BY <1>8 DEF P, T

LEMMA ToldAgree ==
  ASSUME NEW h \in Seq(Item), NEW open, NEW kept, NEW open2, NEW kept2,
         \A i \in DOMAIN h : Piece(h[i], open, kept) = Piece(h[i], open2, kept2)
  PROVE  Told(h, open, kept) = Told(h, open2, kept2)
BY DEF Told, Pieces

LEMMA ToldNone ==
  ASSUME NEW h \in Seq(Item), NEW open, NEW kept,
         \A i \in DOMAIN h : h[i] \notin open /\ h[i] \notin kept
  PROVE  Told(h, open, kept) = <<>>
<1> DEFINE P == {s \in Seq(Item) : Told(s, {}, {}) = <<>>}
<1>1. <<>> \in P
  BY ToldEmpty
<1>2. ASSUME NEW s \in P, NEW x \in Item PROVE Append(s, x) \in P
  <2>1. Piece(x, {}, {}) = <<>>
    BY DEF Piece
  <2>2. Told(Append(s, x), {}, {}) = <<>> \o <<>>
    BY <2>1, ToldAppend
  <2>3. <<>> \o <<>> = <<>>
    OBVIOUS
  <2> QED
    BY <2>2, <2>3
<1>3. P \in SUBSET Seq(Item)
  OBVIOUS
<1> HIDE DEF P
<1>4. h \in P
  BY <1>1, <1>2, <1>3, SequenceInduction
<1>5. \A i \in DOMAIN h : Piece(h[i], open, kept) = Piece(h[i], {}, {})
  BY DEF Piece
<1>6. Told(h, open, kept) = Told(h, {}, {})
  BY <1>5, ToldAgree
<1> QED
  BY <1>4, <1>6 DEF P

LEMMA OnlyIs ==
  ASSUME NEW h, NEW items
  PROVE  Only(h, items) = Told(h, {}, items)
BY DEF Only, Told, Pieces, Piece

LEMMA OnlyOne ==
  ASSUME NEW x \in Item, NEW items
  PROVE  Only(<<x>>, items) = IF x \in items THEN <<x>> ELSE <<>>
<1> DEFINE e == <<>>
<1>1. <<x>> = Append(e, x) /\ e \in Seq(Item)
  OBVIOUS
<1>2. Told(e, {}, items) = <<>>
  BY ToldEmpty
<1> HIDE DEF e
<1>3. Told(Append(e, x), {}, items) = Told(e, {}, items) \o Piece(x, {}, items)
  BY <1>1, ToldAppend
<1>4. <<>> \o Piece(x, {}, items) = Piece(x, {}, items)
  BY PieceType, ConcatEmptySeq
<1> QED
  BY <1>1, <1>2, <1>3, <1>4, OnlyIs DEF Piece

LEMMA OnlyTwo ==
  ASSUME NEW x \in Item, NEW y \in Item, NEW items, x \in items, y \in items
  PROVE  Only(<<x, y>>, items) = <<x, y>>
<1> DEFINE s == <<x>>
<1>1. <<x, y>> = Append(s, y) /\ s \in Seq(Item)
  OBVIOUS
<1>2. Only(s, items) = s
  BY OnlyOne
<1>3. Piece(y, {}, items) = <<y>>
  BY DEF Piece
<1> HIDE DEF s
<1>4. Told(Append(s, y), {}, items) = Told(s, {}, items) \o Piece(y, {}, items)
  BY <1>1, ToldAppend
<1>5. s \o <<y>> = Append(s, y)
  BY <1>1, AppendIsConcat
<1> QED
  BY <1>1, <1>2, <1>3, <1>4, <1>5, OnlyIs

\* The prefixes of a history, and what they are told as.
LEMMA Prefix ==
  ASSUME NEW h \in Seq(Item), NEW n \in 0 .. Len(h)
  PROVE  /\ SubSeq(h, 1, n) \in Seq(Item) /\ Len(SubSeq(h, 1, n)) = n
         /\ \A i \in 1 .. n : SubSeq(h, 1, n)[i] = h[i]
<1>1. \A i \in 1 .. n : h[i] \in Item
  OBVIOUS
<1> QED
  BY <1>1, SubSeqProperties

LEMMA PrefixOfPrefix ==
  ASSUME NEW h \in Seq(Item), NEW n \in 0 .. Len(h), NEW m \in 0 .. n
  PROVE  SubSeq(SubSeq(h, 1, n), 1, m) = SubSeq(h, 1, m)
<1> DEFINE l == SubSeq(SubSeq(h, 1, n), 1, m)
           r == SubSeq(h, 1, m)
<1>1. SubSeq(h, 1, n) \in Seq(Item) /\ m \in 0 .. Len(SubSeq(h, 1, n)) /\ m \in 0 .. Len(h)
  BY Prefix
<1>2. l \in Seq(Item) /\ Len(l) = m /\ \A i \in 1 .. m : l[i] = SubSeq(h, 1, n)[i]
  BY <1>1, Prefix
<1>3. r \in Seq(Item) /\ Len(r) = m /\ \A i \in 1 .. m : r[i] = h[i]
  BY <1>1, Prefix
<1>4. \A i \in 1 .. m : SubSeq(h, 1, n)[i] = h[i]
  BY Prefix
<1> HIDE DEF l, r
<1>5. \A i \in 1 .. m : l[i] = r[i]
  BY <1>2, <1>3, <1>4
<1> QED
  BY <1>2, <1>3, <1>5, SeqEqual DEF l, r

LEMMA PrefixGrows ==
  ASSUME NEW h \in Seq(Item), NEW i \in 1 .. Len(h)
  PROVE  SubSeq(h, 1, i) = Append(SubSeq(h, 1, i-1), h[i])
<1> DEFINE l == SubSeq(h, 1, i)
           p == SubSeq(h, 1, i-1)
<1>1. i - 1 \in 0 .. Len(h) /\ i \in 0 .. Len(h)
  OBVIOUS
<1>2. l \in Seq(Item) /\ Len(l) = i /\ \A k \in 1 .. i : l[k] = h[k]
  BY <1>1, Prefix
<1>3. p \in Seq(Item) /\ Len(p) = i - 1 /\ \A k \in 1 .. i - 1 : p[k] = h[k]
  BY <1>1, Prefix
<1> HIDE DEF l, p
<1>4. /\ Append(p, h[i]) \in Seq(Item) /\ Len(Append(p, h[i])) = i
      /\ \A k \in 1 .. i : Append(p, h[i])[k] = h[k]
  BY <1>3
<1>5. \A k \in 1 .. i : l[k] = Append(p, h[i])[k]
  BY <1>2, <1>4
<1> DEFINE r == Append(p, h[i])
<1>6. r \in Seq(Item) /\ Len(r) = i /\ \A k \in 1 .. i : l[k] = r[k]
  BY <1>4, <1>5
<1> HIDE DEF r
<1>7. l = r
  BY <1>2, <1>6, SeqEqual
<1> QED
  BY <1>7 DEF l, p, r

LEMMA PrefixAndRest ==
  ASSUME NEW h \in Seq(Item), NEW n \in 0 .. Len(h)
  PROVE  /\ SubSeq(h, n + 1, Len(h)) \in Seq(Item)
         /\ \A i \in 1 .. Len(SubSeq(h, n + 1, Len(h))) :
              n + i \in 1 .. Len(h) /\ SubSeq(h, n + 1, Len(h))[i] = h[n + i]
         /\ h = SubSeq(h, 1, n) \o SubSeq(h, n + 1, Len(h))
<1> DEFINE g == SubSeq(h, n + 1, Len(h))
<1>1. \A i \in n + 1 .. Len(h) : h[i] \in Item
  OBVIOUS
<1>2. /\ g \in Seq(Item) /\ Len(g) = IF n + 1 <= Len(h) THEN Len(h) - (n + 1) + 1 ELSE 0
      /\ \A i \in 1 .. Len(h) - (n + 1) + 1 : g[i] = h[(n + 1) + i - 1]
  BY <1>1, SubSeqProperties
<1> HIDE DEF g
<1>3. \A i \in 1 .. Len(g) : n + i \in 1 .. Len(h) /\ g[i] = h[n + i]
  <2>1. Len(g) = Len(h) - n /\ Len(h) - (n + 1) + 1 = Len(h) - n
    BY <1>2
  <2>2. \A i \in 1 .. Len(h) - n : (n + 1) + i - 1 = n + i
    OBVIOUS
  <2> QED
    BY <1>2, <2>1, <2>2
<1>4. h = SubSeq(h, 1, n) \o g
  <2>1. 1 \in 1 .. Len(h) + 1 /\ n \in 1 - 1 .. Len(h) /\ Len(h) \in n .. Len(h)
    OBVIOUS
  <2>2. SubSeq(h, 1, n) \o SubSeq(h, n + 1, Len(h)) = SubSeq(h, 1, Len(h))
    BY <2>1, ConcatAdjacentSubSeq
  <2> QED
    BY <2>2, SubSeqFull DEF g
<1> QED
  BY <1>2, <1>3, <1>4 DEF g

\* A history is told as any prefix of it is, and then its rest.
LEMMA ToldPrefix ==
  ASSUME NEW h \in Seq(Item), NEW n \in 0 .. Len(h), NEW open, NEW kept
  PROVE  /\ Told(SubSeq(h, 1, n), open, kept) \in Seq(Item)
         /\ Told(SubSeq(h, n + 1, Len(h)), open, kept) \in Seq(Item)
         /\ Told(h, open, kept) = Told(SubSeq(h, 1, n), open, kept)
                                    \o Told(SubSeq(h, n + 1, Len(h)), open, kept)
<1> DEFINE p == SubSeq(h, 1, n)
           g == SubSeq(h, n + 1, Len(h))
<1>1. p \in Seq(Item) /\ g \in Seq(Item) /\ h = p \o g
  BY Prefix, PrefixAndRest
<1> HIDE DEF p, g
<1>2. Told(p \o g, open, kept) = Told(p, open, kept) \o Told(g, open, kept)
  BY <1>1, ToldConcat
<1>3. Told(p, open, kept) \in Seq(Item) /\ Told(g, open, kept) \in Seq(Item)
  BY <1>1, ToldType
<1> QED
  BY <1>1, <1>2, <1>3 DEF p, g

LEMMA ToldLonger ==
  ASSUME NEW h \in Seq(Item), NEW n \in 0 .. Len(h), NEW open, NEW kept
  PROVE  Len(Told(SubSeq(h, 1, n), open, kept)) <= Len(Told(h, open, kept))
<1> DEFINE l == Told(SubSeq(h, 1, n), open, kept)
           r == Told(SubSeq(h, n + 1, Len(h)), open, kept)
<1>1. Told(h, open, kept) = l \o r /\ l \in Seq(Item) /\ r \in Seq(Item)
  BY ToldPrefix
<1> HIDE DEF l, r
<1>2. Len(l \o r) = Len(l) + Len(r) /\ Len(l) \in Nat /\ Len(r) \in Nat
  BY <1>1, ConcatProperties
<1>3. Len(Told(h, open, kept)) >= Len(l)
  BY <1>1, <1>2
<1> QED
  BY <1>3 DEF l

\* The position in what is told behind which the i-th item's piece comes.
Start(h, open, kept, i) == Len(Told(SubSeq(h, 1, i-1), open, kept))

LEMMA StartType ==
  ASSUME NEW h \in Seq(Item), NEW i \in 1 .. Len(h), NEW open, NEW kept
  PROVE  Start(h, open, kept, i) \in Nat
<1>1. i - 1 \in 0 .. Len(h)
  OBVIOUS
<1>2. SubSeq(h, 1, i-1) \in Seq(Item)
  BY <1>1, Prefix
<1>3. Told(SubSeq(h, 1, i-1), open, kept) \in Seq(Item)
  BY <1>2, ToldType
<1> QED
  BY <1>3 DEF Start

\* Its length with that piece.
LEMMA StartAndPiece ==
  ASSUME NEW h \in Seq(Item), NEW i \in 1 .. Len(h), NEW open, NEW kept
  PROVE  /\ Told(SubSeq(h, 1, i), open, kept) \in Seq(Item)
         /\ Len(Told(SubSeq(h, 1, i), open, kept))
              = Start(h, open, kept, i) + Len(Piece(h[i], open, kept))
         /\ \A k \in 1 .. Len(Piece(h[i], open, kept)) :
              Told(SubSeq(h, 1, i), open, kept)[Start(h, open, kept, i) + k]
                = Piece(h[i], open, kept)[k]
<1> DEFINE p == SubSeq(h, 1, i-1)
           t == Told(p, open, kept)
           x == Piece(h[i], open, kept)
<1>1. i - 1 \in 0 .. Len(h) /\ h[i] \in Item
  OBVIOUS
<1>2. p \in Seq(Item) /\ SubSeq(h, 1, i) = Append(p, h[i])
  BY <1>1, Prefix, PrefixGrows
<1> HIDE DEF p
<1>3. Told(Append(p, h[i]), open, kept) = t \o x
  BY <1>1, <1>2, ToldAppend
<1>4. t \in Seq(Item) /\ x \in Seq(Item)
  BY <1>1, <1>2, ToldType, PieceType
<1>5. Start(h, open, kept, i) = Len(t)
  BY DEF Start, p
<1> HIDE DEF t, x
<1>6. /\ t \o x \in Seq(Item) /\ Len(t \o x) = Len(t) + Len(x)
      /\ \A k \in 1 .. Len(t) + Len(x) : (t \o x)[k] = IF k <= Len(t) THEN t[k] ELSE x[k - Len(t)]
  BY <1>4, ConcatProperties
<1>7. \A k \in 1 .. Len(x) : (t \o x)[Len(t) + k] = x[k]
  <2>1. ASSUME NEW k \in 1 .. Len(x) PROVE (t \o x)[Len(t) + k] = x[k]
    <3>1. /\ Len(t) + k \in 1 .. Len(t) + Len(x) /\ ~(Len(t) + k <= Len(t))
          /\ (Len(t) + k) - Len(t) = k
      BY <1>4
    <3> QED
      BY <1>6, <3>1
  <2> QED
    BY <2>1
<1>8. Told(SubSeq(h, 1, i), open, kept) = t \o x
  BY <1>2, <1>3
<1> QED
  BY <1>5, <1>6, <1>7, <1>8 DEF x

\* The pieces come in the order of their items.
LEMMA StartGrows ==
  ASSUME NEW h \in Seq(Item), NEW i \in 1 .. Len(h), NEW j \in 1 .. Len(h), i < j,
         NEW open, NEW kept
  PROVE  Start(h, open, kept, i) + Len(Piece(h[i], open, kept)) <= Start(h, open, kept, j)
<1> DEFINE p == SubSeq(h, 1, j-1)
           T(s) == Told(s, open, kept)
<1>1. j - 1 \in 0 .. Len(h) /\ i \in 0 .. j - 1
  OBVIOUS
<1>2. p \in Seq(Item) /\ Len(p) = j - 1 /\ SubSeq(p, 1, i) = SubSeq(h, 1, i)
  BY <1>1, Prefix, PrefixOfPrefix
<1> HIDE DEF p
<1>3. i \in 0 .. Len(p)
  BY <1>1, <1>2
<1>4. Len(T(SubSeq(p, 1, i))) <= Len(T(p))
  BY <1>2, <1>3, ToldLonger
<1>5. Len(T(SubSeq(h, 1, i))) = Start(h, open, kept, i) + Len(Piece(h[i], open, kept))
  BY StartAndPiece
<1> QED
  BY <1>2, <1>4, <1>5 DEF Start, p

\* Every piece is in what is told.
LEMMA ToldAt ==
  ASSUME NEW h \in Seq(Item), NEW open, NEW kept, NEW i \in 1 .. Len(h),
         NEW k \in 1 .. Len(Piece(h[i], open, kept))
  PROVE  /\ Start(h, open, kept, i) + k \in 1 .. Len(Told(h, open, kept))
         /\ Told(h, open, kept)[Start(h, open, kept, i) + k] = Piece(h[i], open, kept)[k]
<1> DEFINE T(s) == Told(s, open, kept)
           l == T(SubSeq(h, 1, i))
           r == T(SubSeq(h, i + 1, Len(h)))
           m == Start(h, open, kept, i) + k
<1>1. i \in 0 .. Len(h)
  OBVIOUS
<1>2. T(h) = l \o r /\ l \in Seq(Item) /\ r \in Seq(Item)
  BY <1>1, ToldPrefix
<1>3. /\ Len(l) = Start(h, open, kept, i) + Len(Piece(h[i], open, kept))
      /\ l[m] = Piece(h[i], open, kept)[k]
  BY StartAndPiece
<1>4. Piece(h[i], open, kept) \in Seq(Item)
  BY PieceType
<1>5. m \in 1 .. Len(l)
  BY <1>3, <1>4, StartType
<1> HIDE DEF T, l, r, m
<1>6. /\ Len(l \o r) = Len(l) + Len(r) /\ Len(l) \in Nat /\ Len(r) \in Nat
      /\ \A q \in 1 .. Len(l) + Len(r) : (l \o r)[q] = IF q <= Len(l) THEN l[q] ELSE r[q - Len(l)]
  BY <1>2, ConcatProperties
<1>7. m \in 1 .. Len(l) + Len(r) /\ m <= Len(l)
  BY <1>5, <1>6
<1>8. m \in 1 .. Len(T(h)) /\ T(h)[m] = l[m]
  BY <1>2, <1>6, <1>7
<1> QED
  BY <1>3, <1>8 DEF T, m

\* All that is told is of some piece.
LEMMA ToldFrom ==
  ASSUME NEW h \in Seq(Item), NEW open, NEW kept, NEW m \in 1 .. Len(Told(h, open, kept))
  PROVE  \E i \in 1 .. Len(h) : \E k \in 1 .. Len(Piece(h[i], open, kept)) :
           /\ m = Start(h, open, kept, i) + k
           /\ Told(h, open, kept)[m] = Piece(h[i], open, kept)[k]
<1> DEFINE L(i) == Len(Told(SubSeq(h, 1, i), open, kept))
           T == {i \in 1 .. Len(h) : m <= L(i)}
<1>1. Len(h) \in Nat /\ m \in Nat /\ m >= 1
  OBVIOUS
<1>2. L(Len(h)) = Len(Told(h, open, kept))
  BY SubSeqFull
<1>3. L(0) = 0
  <2>1. 0 \in 0 .. Len(h)
    BY <1>1
  <2>2. SubSeq(h, 1, 0) \in Seq(Item) /\ Len(SubSeq(h, 1, 0)) = 0
    BY <2>1, Prefix
  <2>3. SubSeq(h, 1, 0) = <<>>
    BY <2>2
  <2>4. Told(SubSeq(h, 1, 0), open, kept) = <<>>
    BY <2>3, ToldEmpty
  <2>5. Len(<<>>) = 0
    OBVIOUS
  <2> QED
    BY <2>4, <2>5
<1> HIDE DEF L
<1>4. Len(h) # 0
  BY <1>1, <1>2, <1>3
<1>5. Len(h) \in T
  BY <1>1, <1>2, <1>4
<1>6. PICK i \in T : \A j \in T : i <= j
  <2>1. T \in SUBSET (1 .. Len(h)) /\ T # {}
    BY <1>5
  <2> HIDE DEF T
  <2> QED
    BY <1>1, <2>1, Least
<1>7. i \in 1 .. Len(h) /\ m <= L(i)
  OBVIOUS
<1>8. Start(h, open, kept, i) = L(i-1) /\ Start(h, open, kept, i) \in Nat
  BY <1>7, StartType DEF Start, L
<1>9. L(i-1) < m
  <2>1. CASE i = 1
    BY <1>1, <1>3, <2>1
  <2>2. CASE i # 1
    <3>1. i - 1 \in 1 .. Len(h) /\ i - 1 \notin T
      BY <1>6, <1>7, <2>2
    <3> QED
      BY <1>1, <1>8, <3>1
  <2> QED
    BY <2>1, <2>2
<1>10. L(i) = Start(h, open, kept, i) + Len(Piece(h[i], open, kept))
  BY <1>7, StartAndPiece DEF L
<1>11. Len(Piece(h[i], open, kept)) \in Nat
  <2>1. Piece(h[i], open, kept) \in Seq(Item)
    BY <1>7, PieceType
  <2> QED
    BY <2>1
<1> DEFINE k == m - Start(h, open, kept, i)
<1>12. k \in 1 .. Len(Piece(h[i], open, kept)) /\ m = Start(h, open, kept, i) + k
  BY <1>1, <1>7, <1>8, <1>9, <1>10, <1>11
<1> HIDE DEF k, T
<1> QED
  BY <1>7, <1>12, ToldAt

LEMMA OnlyPiece ==
  ASSUME NEW x \in Item, NEW open, NEW kept, NEW items,
         x \in open => x \in items /\ Stub(x.call) \in items
  PROVE  Only(Piece(x, open, kept), items) = Piece(x, open, kept \cap items)
<1>1. CASE x \in open
  <2>1. Stub(x.call) \in Item
    BY DEF Item, Stub
  <2>2. Only(<<x, Stub(x.call)>>, items) = <<x, Stub(x.call)>>
    BY <1>1, <2>1, OnlyTwo
  <2> QED
    BY <1>1, <2>2 DEF Piece
<1>2. CASE x \notin open /\ x \in kept
  BY <1>2, OnlyOne DEF Piece
<1>3. CASE x \notin open /\ x \notin kept
  <2>1. Only(<<>>, items) = <<>>
    BY ToldEmpty, OnlyIs
  <2> QED
    BY <1>3, <2>1 DEF Piece
<1> QED
  BY <1>1, <1>2, <1>3

\* To take out items of what is told is to keep fewer of the history.
LEMMA OnlyTold ==
  ASSUME NEW h \in Seq(Item), NEW open, NEW kept, NEW items,
         \A x \in open : x \in items /\ Stub(x.call) \in items
  PROVE  Only(Told(h, open, kept), items) = Told(h, open, kept \cap items)
<1> DEFINE T(s) == Told(s, open, kept)
           R(s) == Told(s, open, kept \cap items)
           O(s) == Told(s, {}, items)
           p(x) == Piece(x, open, kept)
           q(x) == Piece(x, open, kept \cap items)
<1>5. \A s \in Seq(Item) : T(s) \in Seq(Item)
  BY ToldType
<1>6. \A x \in Item : p(x) \in Seq(Item)
  BY PieceType
<1>7. \A s \in Seq(Item), x \in Item : T(Append(s, x)) = T(s) \o p(x)
  BY ToldAppend
<1>8. \A s \in Seq(Item), x \in Item : R(Append(s, x)) = R(s) \o q(x)
  BY ToldAppend
<1>9. \A x \in Item : O(p(x)) = q(x)
  BY OnlyPiece, OnlyIs
<1>10. \A r, s \in Seq(Item) : O(r \o s) = O(r) \o O(s)
  BY ToldConcat
<1>11. T(<<>>) = <<>> /\ R(<<>>) = <<>> /\ O(<<>>) = <<>>
  BY ToldEmpty
<1> HIDE DEF T, R, O, p, q
<1> DEFINE P == {s \in Seq(Item) : O(T(s)) = R(s)}
<1>1. <<>> \in P
  <2>1. <<>> \in Seq(Item)
    OBVIOUS
  <2> QED
    BY <1>11, <2>1
<1>2. ASSUME NEW s \in P, NEW x \in Item PROVE Append(s, x) \in P
  <2>1. s \in Seq(Item) /\ O(T(s)) = R(s)
    OBVIOUS
  <2>2. T(s) \in Seq(Item) /\ p(x) \in Seq(Item)
    BY <1>5, <1>6, <2>1
  <2>3. O(T(s) \o p(x)) = R(s) \o q(x)
    BY <1>9, <1>10, <2>1, <2>2
  <2>4. Append(s, x) \in Seq(Item)
    BY <2>1
  <2>5. O(T(Append(s, x))) = R(Append(s, x))
    BY <1>7, <1>8, <2>1, <2>3
  <2> QED
    BY <2>4, <2>5
<1>3. P \in SUBSET Seq(Item)
  OBVIOUS
<1> HIDE DEF P
<1>4. h \in P
  BY <1>1, <1>2, <1>3, SequenceInduction
<1>12. O(T(h)) = R(h)
  BY <1>4 DEF P
<1> QED
  BY <1>12, OnlyIs DEF O, T, R

\* The calls that get a stub, and the items that stay.
OpenOf(h) == {x \in Item : IsCall(x) /\ ~HasOutput(h, x.call)}
KeptOf(h) == {x \in Sent : x.kind = "output" => x.call # NoId /\ HasCall(h, x.call)}

LEMMA FillInIs ==
  ASSUME NEW h \in Seq(Item)
  PROVE  FillIn(h) = Told(h, OpenOf(h), Item)
<1>1. \A i \in DOMAIN h : h[i] \in Item
  OBVIOUS
<1>2. \A i \in DOMAIN h : Piece(h[i], OpenOf(h), Item)
                            = IF IsCall(h[i]) /\ ~HasOutput(h, h[i].call)
                              THEN <<h[i], Stub(h[i].call)>> ELSE <<h[i]>>
  BY <1>1 DEF Piece, OpenOf
<1>3. Pieces(h, OpenOf(h), Item) = [i \in DOMAIN h |-> IF IsCall(h[i]) /\ ~HasOutput(h, h[i].call)
                                                       THEN <<h[i], Stub(h[i].call)>> ELSE <<h[i]>>]
  BY <1>2 DEF Pieces
<1> QED
  BY <1>3 DEF FillIn, Told

LEMMA PieceHas ==
  ASSUME NEW x \in Item, NEW c, NEW open, NEW k \in 1 .. Len(Piece(x, open, Item)),
         Piece(x, open, Item)[k] = Call(c)
  PROVE  x = Call(c)
<1>1. CASE x \in open
  <2>1. Piece(x, open, Item) = <<x, Stub(x.call)>>
    BY <1>1 DEF Piece
  <2>2. k \in {1, 2}
    BY <2>1
  <2>3. Stub(x.call) # Call(c)
    BY DEF Stub, Call
  <2> QED
    BY <2>1, <2>2, <2>3
<1>2. CASE x \notin open
  <2>1. Piece(x, open, Item) = <<x>>
    BY <1>2 DEF Piece
  <2> QED
    BY <2>1
<1> QED
  BY <1>1, <1>2

LEMMA PieceFirst ==
  ASSUME NEW x \in Item, NEW open, NEW kept, x \in open \/ x \in kept
  PROVE  /\ 1 \in 1 .. Len(Piece(x, open, kept)) /\ Piece(x, open, kept)[1] = x
         /\ x \in open => /\ 2 \in 1 .. Len(Piece(x, open, kept))
                          /\ Piece(x, open, kept)[2] = Stub(x.call)
BY DEF Piece

\* Stubs are no calls.
LEMMA FilledCalls ==
  ASSUME NEW h \in Seq(Item), NEW open, NEW c, HasCall(Told(h, open, Item), c)
  PROVE  HasCall(h, c)
<1>1. Told(h, open, Item) \in Seq(Item)
  BY ToldType
<1>2. PICK m \in 1 .. Len(Told(h, open, Item)) : Told(h, open, Item)[m] = Call(c)
  BY <1>1 DEF HasCall
<1>3. PICK i \in 1 .. Len(h) : \E k \in 1 .. Len(Piece(h[i], open, Item)) :
         /\ m = Start(h, open, Item, i) + k
         /\ Told(h, open, Item)[m] = Piece(h[i], open, Item)[k]
  BY ToldFrom
<1>4. PICK k \in 1 .. Len(Piece(h[i], open, Item)) : Piece(h[i], open, Item)[k] = Call(c)
  BY <1>2, <1>3
<1>5. h[i] \in Item
  OBVIOUS
<1>6. h[i] = Call(c)
  BY <1>4, <1>5, PieceHas
<1> QED
  BY <1>6 DEF HasCall

\* The prompt in one step.
LEMMA PromptIs ==
  ASSUME NEW h \in Seq(Item)
  PROVE  ForPrompt(h) = Told(h, OpenOf(h), KeptOf(h))
<1> DEFINE f == FillIn(h)
           open == OpenOf(h)
           called == {x \in Item : x.kind = "output" => x.call # NoId /\ HasCall(f, x.call)}
<1>1. f = Told(h, open, Item) /\ f \in Seq(Item)
  BY FillInIs, ToldType
<1>2. ASSUME NEW c PROVE HasCall(f, c) <=> HasCall(h, c)
  <2>1. HasCall(f, c) => HasCall(h, c)
    BY <1>1, FilledCalls
  <2>2. ASSUME NEW i \in DOMAIN h, h[i] = Call(c) PROVE HasCall(f, c)
    <3> HIDE DEF open, f
    <3>1. i \in 1 .. Len(h) /\ h[i] \in Item
      OBVIOUS
    <3>2. 1 \in 1 .. Len(Piece(h[i], open, Item)) /\ Piece(h[i], open, Item)[1] = h[i]
      BY <3>1, PieceFirst
    <3>4. /\ Start(h, open, Item, i) + 1 \in 1 .. Len(Told(h, open, Item))
          /\ Told(h, open, Item)[Start(h, open, Item, i) + 1] = Piece(h[i], open, Item)[1]
      BY <3>1, <3>2, ToldAt
    <3>3. PICK m \in 1 .. Len(Told(h, open, Item)) : Told(h, open, Item)[m] = h[i]
      BY <3>2, <3>4
    <3> QED
      BY <1>1, <2>2, <3>3 DEF HasCall
  <2> QED
    BY <2>1, <2>2 DEF HasCall
<1>3. \A x \in open : /\ x \in called /\ Stub(x.call) \in called
                      /\ x \in Sent /\ Stub(x.call) \in Sent
  BY DEF OpenOf, IsCall, Stub, Item, Sent
<1>4. Item \cap called = called /\ called \cap Sent = KeptOf(h)
  BY <1>2 DEF KeptOf, Sent
<1> HIDE DEF f, open, called
<1>5. Only(f, called) = Told(h, open, called)
  BY <1>1, <1>3, <1>4, OnlyTold
<1>6. Only(Told(h, open, called), Sent) = Told(h, open, KeptOf(h))
  BY <1>3, <1>4, OnlyTold
<1> QED
  BY <1>5, <1>6 DEF ForPrompt, DropOrphans, f, called, open

-----------------------------------------------------------------------------
(* The prompt of a tidy history is paired                                   *)

IsAnswer(x) == x.kind = "output" /\ x.call # NoId

\* Calls and answers that come once, each answer behind its call, and no stubs.
CallsOnce(h)     == \A i, j \in DOMAIN h : IsCall(h[i]) /\ h[i] = h[j] => i = j
AnswersOnce(h)   == \A i, j \in DOMAIN h : IsAnswer(h[i]) /\ h[i] = h[j] => i = j
AnswersFollow(h) == \A j \in DOMAIN h : IsAnswer(h[j]) =>
                       \E i \in 1 .. j - 1 : h[i] = Call(h[j].call)
NoStubs(h)       == \A i \in DOMAIN h : h[i].kind # "aborted"

Tidy(h) == CallsOnce(h) /\ AnswersOnce(h) /\ AnswersFollow(h) /\ NoStubs(h)

\* PromptPaired, of any prompt.
CallsAnswered(p) ==
    \A i \in DOMAIN p : IsCall(p[i]) =>
       \E j \in i + 1 .. Len(p) : IsOutput(p[j]) /\ p[j].call = p[i].call
OutputsCalled(p) ==
    \A i \in DOMAIN p : IsOutput(p[i]) =>
       /\ \E j \in 1 .. i - 1 : IsCall(p[j]) /\ p[j].call = p[i].call
       /\ \A j \in DOMAIN p \ {i} : ~(IsOutput(p[j]) /\ p[j].call = p[i].call)

\* An item is what it is by its kind and its call.
LEMMA ItemIs ==
  ASSUME NEW x \in Item
  PROVE  /\ IsCall(x) => x = Call(x.call)
         /\ IsAnswer(x) => x = Output(x.call)
         /\ Stub(x.call) \in Item
BY DEF Item, Call, Output, Stub, IsCall, IsAnswer

\* The m-th item of the prompt is the k-th of what the i-th of the history becomes.
Place(h, m, i, k) ==
    /\ i \in 1 .. Len(h)
    /\ m = Start(h, OpenOf(h), KeptOf(h), i) + k
    /\ \/ k = 1 /\ h[i] \in OpenOf(h) \union KeptOf(h) /\ ForPrompt(h)[m] = h[i]
       \/ k = 2 /\ h[i] \in OpenOf(h) /\ ForPrompt(h)[m] = Stub(h[i].call)

LEMMA PlaceOf ==
  ASSUME NEW h \in Seq(Item)
  PROVE  \A m \in 1 .. Len(ForPrompt(h)) : \E i, k : Place(h, m, i, k)
<1> DEFINE o == OpenOf(h)
           e == KeptOf(h)
<1>1. ForPrompt(h) = Told(h, o, e)
  BY PromptIs
<1> HIDE DEF o, e
<1> SUFFICES ASSUME NEW m \in 1 .. Len(Told(h, o, e)) PROVE \E i, k : Place(h, m, i, k)
  BY <1>1
<1>2. PICK i \in 1 .. Len(h) : \E k \in 1 .. Len(Piece(h[i], o, e)) :
         /\ m = Start(h, o, e, i) + k
         /\ Told(h, o, e)[m] = Piece(h[i], o, e)[k]
  BY ToldFrom
<1>3. PICK k \in 1 .. Len(Piece(h[i], o, e)) :
         /\ m = Start(h, o, e, i) + k
         /\ Told(h, o, e)[m] = Piece(h[i], o, e)[k]
  BY <1>2
<1>4. \/ k = 1 /\ h[i] \in o \union e /\ Piece(h[i], o, e)[k] = h[i]
      \/ k = 2 /\ h[i] \in o /\ Piece(h[i], o, e)[k] = Stub(h[i].call)
  BY DEF Piece
<1> QED
  BY <1>1, <1>3, <1>4 DEF Place, o, e

LEMMA HasPlace ==
  ASSUME NEW h \in Seq(Item), NEW i \in 1 .. Len(h),
         NEW k \in {1, 2}, h[i] \in OpenOf(h) \union KeptOf(h),
         k = 2 => h[i] \in OpenOf(h)
  PROVE  \E m \in DOMAIN ForPrompt(h) : Place(h, m, i, k)
<1> DEFINE o == OpenOf(h)
           e == KeptOf(h)
           m == Start(h, o, e, i) + k
<1>1. ForPrompt(h) = Told(h, o, e) /\ Told(h, o, e) \in Seq(Item)
  BY PromptIs, ToldType
<1>2. h[i] \in o \/ h[i] \in e
  OBVIOUS
<1>3. \/ k = 1 /\ h[i] \in o \union e
      \/ k = 2 /\ h[i] \in o
  OBVIOUS
<1> HIDE DEF o, e
<1>4. h[i] \in Item
  OBVIOUS
<1>5. k \in 1 .. Len(Piece(h[i], o, e))
  BY <1>2, <1>3, <1>4, PieceFirst
<1>6. m \in 1 .. Len(Told(h, o, e)) /\ Told(h, o, e)[m] = Piece(h[i], o, e)[k]
  BY <1>5, ToldAt
<1>7. \/ k = 1 /\ Piece(h[i], o, e)[k] = h[i]
      \/ k = 2 /\ Piece(h[i], o, e)[k] = Stub(h[i].call)
  BY <1>2, <1>3, <1>4, PieceFirst
<1>8. Place(h, m, i, k)
  BY <1>1, <1>3, <1>6, <1>7 DEF Place, o, e
<1> QED
  BY <1>1, <1>6, <1>8

\* The prompt keeps the order of the history.
LEMMA PlacesInOrder ==
  ASSUME NEW h \in Seq(Item), NEW m, NEW n, NEW i, NEW j, NEW k, NEW l,
         Place(h, m, i, k), Place(h, n, j, l)
  PROVE  /\ m \in Nat /\ n \in Nat
         /\ i < j => m < n
         /\ i = j /\ k < l => m < n
         /\ i = j /\ k = l => m = n
<1> DEFINE o == OpenOf(h)
           e == KeptOf(h)
<1>1. Start(h, o, e, i) \in Nat /\ Start(h, o, e, j) \in Nat
  BY StartType DEF Place
<1>2. m = Start(h, o, e, i) + k /\ n = Start(h, o, e, j) + l /\ k \in {1, 2} /\ l \in {1, 2}
  BY DEF Place
<1>3. h[i] \in Item /\ Piece(h[i], o, e) \in Seq(Item)
  BY PieceType DEF Place
<1>4. k <= Len(Piece(h[i], o, e))
  <2>1. h[i] \in o \/ h[i] \in e
    BY DEF Place
  <2>2. k = 2 => h[i] \in o
    BY DEF Place
  <2> HIDE DEF o, e
  <2> QED
    BY <1>2, <1>3, <2>1, <2>2, PieceFirst
<1>5. i < j => Start(h, o, e, i) + Len(Piece(h[i], o, e)) <= Start(h, o, e, j)
  BY StartGrows DEF Place
<1>6. Len(Piece(h[i], o, e)) \in Nat
  BY <1>3
<1> HIDE DEF o, e
<1> QED
  BY <1>1, <1>2, <1>4, <1>5, <1>6

LEMMA PromptType ==
  ASSUME NEW h \in Seq(Item)
  PROVE  /\ ForPrompt(h) \in Seq(Item)
         /\ DOMAIN ForPrompt(h) = 1 .. Len(ForPrompt(h)) /\ Len(ForPrompt(h)) \in Nat
<1>1. ForPrompt(h) \in Seq(Item)
  BY PromptIs, ToldType
<1> HIDE DEF ForPrompt
<1> QED
  BY <1>1

\* Where an output of the prompt comes from.
Origin(h, i, k) == \/ k = 1 /\ IsAnswer(h[i])
                   \/ k = 2 /\ h[i] \in OpenOf(h)

\* What stands at a place: an item that stays, or the stub of an open call.
LEMMA PlaceHolds ==
  ASSUME NEW h \in Seq(Item), Tidy(h), NEW m, NEW i, NEW k, Place(h, m, i, k)
  PROVE  LET x == ForPrompt(h)[m]
         IN  /\ h[i] \in Item /\ i \in DOMAIN h
             /\ IsCall(x) => x = h[i] /\ k = 1
             /\ IsOutput(x) => x.call = h[i].call /\ Origin(h, i, k)
<1> DEFINE x == ForPrompt(h)[m]
<1>1. h[i] \in Item /\ i \in DOMAIN h
  BY DEF Place
<1>2. CASE k = 2
  <2>1. x = Stub(h[i].call) /\ h[i] \in OpenOf(h)
    BY <1>2 DEF Place
  <2>2. x.kind = "aborted" /\ x.call = h[i].call
    BY <2>1 DEF Stub
  <2> HIDE DEF x
  <2>3. ~IsCall(x)
    BY <2>2 DEF IsCall
  <2> QED
    BY <1>1, <1>2, <2>1, <2>2, <2>3 DEF x, Origin
<1>3. CASE k = 1
  <2>1. x = h[i] /\ h[i] \in OpenOf(h) \union KeptOf(h)
    BY <1>3 DEF Place
  <2>2. h[i].kind # "aborted"
    BY <1>1 DEF Tidy, NoStubs
  <2>3. IsOutput(h[i]) => IsAnswer(h[i])
    BY <2>1, <2>2 DEF IsOutput, IsAnswer, OpenOf, KeptOf, IsCall
  <2> HIDE DEF x
  <2> QED
    BY <1>1, <1>3, <2>1, <2>3 DEF x, Origin
<1>4. k = 1 \/ k = 2
  BY DEF Place
<1> QED
  BY <1>2, <1>3, <1>4

LEMMA PromptCallsAnswered ==
  ASSUME NEW h \in Seq(Item), Tidy(h)
  PROVE  CallsAnswered(ForPrompt(h))
<1> DEFINE p == ForPrompt(h)
<1>1. p \in Seq(Item) /\ DOMAIN p = 1 .. Len(p) /\ Len(p) \in Nat
  BY PromptType
<1> SUFFICES ASSUME NEW m \in 1 .. Len(p), IsCall(p[m])
             PROVE  \E n \in m + 1 .. Len(p) : IsOutput(p[n]) /\ p[n].call = p[m].call
  BY <1>1 DEF CallsAnswered
<1>2. PICK i, k : Place(h, m, i, k)
  BY PlaceOf
<1>3. h[i] \in Item /\ i \in DOMAIN h /\ p[m] = h[i] /\ k = 1
  BY <1>2, PlaceHolds
<1>4. IsCall(h[i]) /\ h[i] = Call(h[i].call) /\ h[i].call # NoId
  BY <1>3, ItemIs DEF IsCall
<1> DEFINE c == h[i].call
<1> HIDE DEF p
<1>5. CASE HasOutput(h, c)
  <2>1. PICK j \in DOMAIN h : h[j] = Output(c)
    BY <1>5 DEF HasOutput
  <2>2. IsAnswer(h[j]) /\ h[j].call = c /\ ~IsCall(h[j]) /\ IsOutput(h[j])
    BY <1>4, <2>1 DEF IsAnswer, Output, IsCall, IsOutput
  <2>3. PICK f \in 1 .. j - 1 : h[f] = Call(c)
    BY <2>2 DEF Tidy, AnswersFollow
  <2>4. f \in DOMAIN h /\ f < j
    OBVIOUS
  <2>5. f = i
    BY <1>3, <1>4, <2>3, <2>4 DEF Tidy, CallsOnce
  <2>6. HasCall(h, c) /\ h[j] \in Item
    BY <2>3, <2>4 DEF HasCall
  <2>7. h[j] \in KeptOf(h)
    BY <1>4, <2>1, <2>2, <2>6 DEF KeptOf, Sent, Output
  <2>8. PICK n \in DOMAIN ForPrompt(h) : Place(h, n, j, 1)
    BY <2>7, HasPlace
  <2>9. n \in 1 .. Len(p) /\ p[n] = h[j]
    BY <1>1, <2>8 DEF Place, p
  <2>10. m < n
    BY <1>2, <2>4, <2>5, <2>8, PlacesInOrder
  <2> QED
    BY <1>3, <2>2, <2>9, <2>10
<1>6. CASE ~HasOutput(h, c)
  <2>1. h[i] \in OpenOf(h)
    BY <1>3, <1>4, <1>6 DEF OpenOf
  <2>2. PICK n \in DOMAIN ForPrompt(h) : Place(h, n, i, 2)
    BY <1>3, <2>1, HasPlace
  <2>3. n \in 1 .. Len(p) /\ p[n] = Stub(c)
    BY <1>1, <2>2 DEF Place, p
  <2>4. m < n
    BY <1>2, <1>3, <2>2, PlacesInOrder
  <2>5. IsOutput(p[n]) /\ p[n].call = p[m].call
    BY <1>3, <2>3 DEF IsOutput, Stub
  <2> QED
    BY <2>3, <2>4, <2>5
<1> QED
  BY <1>5, <1>6

LEMMA PromptOutputsCalled ==
  ASSUME NEW h \in Seq(Item), Tidy(h)
  PROVE  OutputsCalled(ForPrompt(h))
<1> DEFINE p == ForPrompt(h)
<1>1. p \in Seq(Item) /\ DOMAIN p = 1 .. Len(p) /\ Len(p) \in Nat
  BY PromptType
<1>2. ASSUME NEW m \in 1 .. Len(p), IsOutput(p[m])
      PROVE  \E n \in 1 .. m - 1 : IsCall(p[n]) /\ p[n].call = p[m].call
  <2>1. PICK i, k : Place(h, m, i, k)
    BY PlaceOf
  <2>2. /\ h[i] \in Item /\ i \in DOMAIN h /\ p[m].call = h[i].call
        /\ Origin(h, i, k)
    BY <1>2, <2>1, PlaceHolds
  <2> HIDE DEF p
  <2>3. CASE k = 1 /\ IsAnswer(h[i])
    <3>1. PICK j \in 1 .. i - 1 : h[j] = Call(h[i].call)
      BY <2>2, <2>3 DEF Tidy, AnswersFollow
    <3>2. j \in 1 .. Len(h) /\ j < i
      BY <2>2
    <3>3. IsCall(h[j]) /\ h[j].call = h[i].call /\ h[j] \in Item /\ h[j].kind = "call"
      BY <2>3, <3>1, <3>2 DEF IsCall, IsAnswer, Call
    <3>4. h[j] \in KeptOf(h)
      BY <3>3 DEF KeptOf, Sent
    <3>5. PICK n \in DOMAIN ForPrompt(h) : Place(h, n, j, 1)
      BY <3>2, <3>4, HasPlace
    <3>6. n \in 1 .. Len(p) /\ p[n] = h[j]
      BY <1>1, <3>5 DEF Place, p
    <3>7. n < m
      BY <2>1, <3>2, <3>5, PlacesInOrder
    <3> QED
      BY <2>2, <3>3, <3>6, <3>7
  <2>4. CASE k = 2 /\ h[i] \in OpenOf(h)
    <3>1. IsCall(h[i]) /\ i \in 1 .. Len(h)
      BY <2>2, <2>4 DEF OpenOf
    <3>2. PICK n \in DOMAIN ForPrompt(h) : Place(h, n, i, 1)
      BY <2>4, <3>1, HasPlace
    <3>3. n \in 1 .. Len(p) /\ p[n] = h[i]
      BY <1>1, <3>2 DEF Place, p
    <3>4. n < m
      BY <2>1, <2>4, <3>2, PlacesInOrder
    <3> QED
      BY <2>2, <3>1, <3>3, <3>4
  <2> QED
    BY <2>2, <2>3, <2>4 DEF Origin
<1>3. ASSUME NEW m \in 1 .. Len(p), NEW n \in 1 .. Len(p), IsOutput(p[m]), IsOutput(p[n]),
             p[n].call = p[m].call
      PROVE  n = m
  <2>1. PICK i, k : Place(h, m, i, k)
    BY PlaceOf
  <2>2. PICK j, l : Place(h, n, j, l)
    BY PlaceOf
  <2>3. /\ h[i] \in Item /\ i \in DOMAIN h /\ p[m].call = h[i].call
        /\ Origin(h, i, k)
    BY <1>3, <2>1, PlaceHolds
  <2>4. /\ h[j] \in Item /\ j \in DOMAIN h /\ p[n].call = h[j].call
        /\ Origin(h, j, l)
    BY <1>3, <2>2, PlaceHolds
  <2> HIDE DEF p
  <2>5. h[i].call = h[j].call
    BY <1>3, <2>3, <2>4
  <2>6. ASSUME NEW a \in DOMAIN h, NEW b \in DOMAIN h, h[a] \in Item, h[b] \in Item,
               h[a].call = h[b].call, IsAnswer(h[a]), h[b] \in OpenOf(h)
        PROVE  FALSE
    <3>1. h[a] = Output(h[b].call)
      BY <2>6, ItemIs
    <3>2. HasOutput(h, h[b].call)
      BY <3>1 DEF HasOutput
    <3> QED
      BY <2>6, <3>2 DEF OpenOf
  <2>7. i = j /\ k = l
    <3>1. CASE IsAnswer(h[i]) /\ IsAnswer(h[j]) /\ k = 1 /\ l = 1
      <4>1. h[i] = h[j]
        BY <2>3, <2>4, <2>5, <3>1, ItemIs
      <4> QED
        BY <2>3, <2>4, <3>1, <4>1 DEF Tidy, AnswersOnce
    <3>2. CASE h[i] \in OpenOf(h) /\ h[j] \in OpenOf(h) /\ k = 2 /\ l = 2
      <4>1. IsCall(h[i]) /\ IsCall(h[j])
        BY <3>2 DEF OpenOf
      <4>2. h[i] = h[j]
        BY <2>3, <2>4, <2>5, <4>1, ItemIs
      <4> QED
        BY <2>3, <2>4, <3>2, <4>1, <4>2 DEF Tidy, CallsOnce
    <3> QED
      BY <2>3, <2>4, <2>5, <2>6, <3>1, <3>2 DEF Origin
  <2> QED
    BY <2>1, <2>2, <2>7, PlacesInOrder
<1> HIDE DEF p
<1>4. OutputsCalled(p)
  BY <1>1, <1>2, <1>3 DEF OutputsCalled
<1> QED
  BY <1>4 DEF p

-----------------------------------------------------------------------------
(* A history that grows                                                     *)

\* No call of the first n items is answered behind them.
Settled(h, n) == \A i \in 1 .. n, k \in n + 1 .. Len(h) :
                    IsCall(h[i]) => h[k] # Output(h[i].call)

LEMMA TidyPrefix ==
  ASSUME NEW h \in Seq(Item), NEW n \in 0 .. Len(h), Tidy(h)
  PROVE  Tidy(SubSeq(h, 1, n))
<1> DEFINE g == SubSeq(h, 1, n)
<1>1. g \in Seq(Item) /\ Len(g) = n /\ \A i \in 1 .. n : g[i] = h[i]
  BY Prefix
<1>2. DOMAIN g = 1 .. n /\ \A i \in 1 .. n : i \in DOMAIN h
  BY <1>1
<1> HIDE DEF g
<1>3. CallsOnce(g) /\ AnswersOnce(g) /\ NoStubs(g)
  BY <1>1, <1>2 DEF Tidy, CallsOnce, AnswersOnce, NoStubs
<1>4. ASSUME NEW j \in DOMAIN g, IsAnswer(g[j])
      PROVE  \E i \in 1 .. j - 1 : g[i] = Call(g[j].call)
  <2>1. g[j] = h[j] /\ j \in DOMAIN h
    BY <1>1, <1>2
  <2>2. PICK i \in 1 .. j - 1 : h[i] = Call(h[j].call)
    BY <1>4, <2>1 DEF Tidy, AnswersFollow
  <2>3. i \in 1 .. n
    BY <1>2
  <2> QED
    BY <1>1, <2>1, <2>2, <2>3
<1>5. AnswersFollow(g)
  BY <1>4 DEF AnswersFollow
<1> QED
  BY <1>3, <1>5 DEF Tidy, g

LEMMA ConcatExtends ==
  ASSUME NEW s, NEW t, s \in Seq(Item), t \in Seq(Item)
  PROVE  IsPrefix(s, s \o t)
<1> DEFINE u == s \o t
<1>1. /\ u \in Seq(Item) /\ Len(u) = Len(s) + Len(t) /\ Len(s) \in Nat /\ Len(t) \in Nat
      /\ \A i \in 1 .. Len(s) : u[i] = s[i]
  OBVIOUS
<1> HIDE DEF u
<1>2. Len(s) \in 0 .. Len(u)
  BY <1>1
<1>3. SubSeq(u, 1, Len(s)) = s
  <2> DEFINE v == SubSeq(u, 1, Len(s))
  <2>1. v \in Seq(Item) /\ Len(v) = Len(s) /\ \A i \in 1 .. Len(s) : v[i] = u[i]
    BY <1>1, <1>2, Prefix
  <2> HIDE DEF v
  <2>2. v = s
    BY <1>1, <2>1, SeqEqual
  <2> QED
    BY <2>2 DEF v
<1>4. SubSeq(s, 1, Len(s)) = s
  BY SubSeqFull
<1> QED
  BY <1>1, <1>2, <1>3, <1>4 DEF IsPrefix, u

\* What is settled is told as before.
LEMMA PromptExtends ==
  ASSUME NEW h \in Seq(Item), NEW n \in 0 .. Len(h), Tidy(h), Settled(h, n)
  PROVE  IsPrefix(ForPrompt(SubSeq(h, 1, n)), ForPrompt(h))
<1> DEFINE g == SubSeq(h, 1, n)
<1>1. g \in Seq(Item) /\ Len(g) = n /\ \A i \in 1 .. n : g[i] = h[i]
  BY Prefix
<1>2. DOMAIN g = 1 .. n /\ \A i \in 1 .. n : i \in DOMAIN h
  BY <1>1
<1>3. DOMAIN h = 1 .. Len(h) /\ Len(h) \in Nat
  OBVIOUS
<1> HIDE DEF g
<1>4. ASSUME NEW i \in 1 .. n
      PROVE  Piece(g[i], OpenOf(g), KeptOf(g)) = Piece(g[i], OpenOf(h), KeptOf(h))
  <2> DEFINE x == h[i]
  <2>1. x \in Item /\ g[i] = x
    BY <1>1, <1>2
  <2>2. x \in OpenOf(g) <=> x \in OpenOf(h)
    <3>1. ASSUME IsCall(x) PROVE HasOutput(g, x.call) <=> HasOutput(h, x.call)
      <4>1. ASSUME NEW k \in DOMAIN h, h[k] = Output(x.call) PROVE k \in 1 .. n
        BY <1>3, <3>1, <4>1 DEF Settled
      <4> HIDE DEF x
      <4> QED
        BY <1>1, <1>2, <4>1 DEF HasOutput
    <3> HIDE DEF x
    <3> QED
      BY <3>1 DEF OpenOf
  <2>3. x \in KeptOf(g) <=> x \in KeptOf(h)
    <3>1. ASSUME IsAnswer(x) PROVE HasCall(g, x.call) /\ HasCall(h, x.call)
      <4>1. PICK f \in 1 .. i - 1 : h[f] = Call(x.call)
        BY <1>2, <3>1 DEF Tidy, AnswersFollow
      <4>2. f \in 1 .. n
        OBVIOUS
      <4> HIDE DEF x
      <4> QED
        BY <1>1, <1>2, <4>1, <4>2 DEF HasCall
    <3> HIDE DEF x
    <3> QED
      BY <3>1 DEF KeptOf, IsAnswer
  <2> HIDE DEF x
  <2> QED
    BY <2>1, <2>2, <2>3 DEF Piece
<1>5. Told(g, OpenOf(g), KeptOf(g)) = Told(g, OpenOf(h), KeptOf(h))
  BY <1>1, <1>2, <1>4, ToldAgree
<1>6. ForPrompt(g) = Told(g, OpenOf(h), KeptOf(h)) /\ ForPrompt(h) = Told(h, OpenOf(h), KeptOf(h))
  BY <1>1, <1>5, PromptIs
<1> DEFINE o == OpenOf(h)
           e == KeptOf(h)
           r == Told(SubSeq(h, n + 1, Len(h)), o, e)
           t == Told(g, o, e)
<1>7. t \in Seq(Item) /\ r \in Seq(Item) /\ Told(h, o, e) = t \o r
  <2> HIDE DEF o, e
  <2> QED
    BY ToldPrefix DEF g
<1> HIDE DEF o, e, r, t
<1>8. IsPrefix(t, t \o r)
  BY <1>7, ConcatExtends
<1>9. ForPrompt(g) = t /\ ForPrompt(h) = t \o r
  BY <1>6, <1>7 DEF t, o, e
<1> QED
  BY <1>8, <1>9 DEF g

-----------------------------------------------------------------------------
(* The order of the outputs                                                 *)

Answers        == {x \in Item : x.kind = "output" /\ x.call # NoId}
Answered(h)    == {x \in Item : IsCall(x) /\ HasOutput(h, x.call)}
Ids(s)         == [i \in DOMAIN s |-> s[i].call]
KeepsOrder(h)  == Ids(Only(h, Answers)) = Ids(Only(h, Answered(h)))

LEMMA IdsAppend ==
  ASSUME NEW s, s \in Seq(Item), NEW t, t \in Seq(Item), Ids(s) = Ids(t),
         NEW x \in Item, NEW y \in Item, x.call = y.call
  PROVE  Ids(Append(s, x)) = Ids(Append(t, y))
<1>1. /\ DOMAIN s = 1 .. Len(s) /\ DOMAIN t = 1 .. Len(t) /\ Len(s) \in Nat /\ Len(t) \in Nat
      /\ DOMAIN Append(s, x) = 1 .. Len(s) + 1 /\ DOMAIN Append(t, y) = 1 .. Len(t) + 1
      /\ \A i \in 1 .. Len(s) : Append(s, x)[i] = s[i]
      /\ \A i \in 1 .. Len(t) : Append(t, y)[i] = t[i]
      /\ Append(s, x)[Len(s) + 1] = x /\ Append(t, y)[Len(t) + 1] = y
  OBVIOUS
<1>2. DOMAIN s = DOMAIN t /\ \A i \in DOMAIN s : s[i].call = t[i].call
  BY DEF Ids
<1>3. Len(s) = Len(t)
  <2> DEFINE n == Len(s)
             m == Len(t)
  <2>1. n \in Nat /\ m \in Nat /\ 1 .. n = 1 .. m
    BY <1>1, <1>2
  <2> HIDE DEF n, m
  <2>2. (n >= 1 => n \in 1 .. m) /\ (m >= 1 => m \in 1 .. n)
    BY <2>1
  <2>3. n = m
    BY <2>1, <2>2
  <2> QED
    BY <2>3 DEF n, m
<1>4. \A i \in 1 .. Len(s) + 1 : Append(s, x)[i].call = Append(t, y)[i].call
  <2>1. ASSUME NEW i \in 1 .. Len(s) PROVE Append(s, x)[i].call = Append(t, y)[i].call
    BY <1>1, <1>2, <1>3
  <2>2. Append(s, x)[Len(s) + 1].call = Append(t, y)[Len(s) + 1].call
    BY <1>1, <1>3
  <2>3. \A i \in 1 .. Len(s) + 1 : i \in 1 .. Len(s) \/ i = Len(s) + 1
    BY <1>1
  <2> QED
    BY <2>1, <2>2, <2>3
<1> QED
  BY <1>1, <1>3, <1>4 DEF Ids

LEMMA OnlyType ==
  ASSUME NEW h \in Seq(Item), NEW items
  PROVE  Only(h, items) \in Seq(Item)
BY OnlyIs, ToldType

LEMMA OnlyMore ==
  ASSUME NEW h \in Seq(Item), NEW x \in Item, NEW items
  PROVE  /\ x \in items => Only(Append(h, x), items) = Append(Only(h, items), x)
         /\ x \notin items => Only(Append(h, x), items) = Only(h, items)
<1> DEFINE o == Only(h, items)
<1>1. o \in Seq(Item)
  BY OnlyType
<1>2. Only(Append(h, x), items) = o \o Piece(x, {}, items)
  BY ToldAppend, OnlyIs
<1>3. Piece(x, {}, items) = IF x \in items THEN <<x>> ELSE <<>>
  BY DEF Piece
<1> HIDE DEF o
<1>4. o \o <<x>> = Append(o, x) /\ o \o <<>> = o
  BY <1>1, AppendIsConcat, ConcatEmptySeq
<1> QED
  BY <1>2, <1>3, <1>4 DEF o

\* An item that is no answer, nor a call that has one.
LEMMA OrderOther ==
  ASSUME NEW h \in Seq(Item), KeepsOrder(h), NEW x \in Item, ~IsAnswer(x),
         IsCall(x) => ~HasOutput(h, x.call)
  PROVE  KeepsOrder(Append(h, x))
<1> DEFINE g == Append(h, x)
<1>1. /\ DOMAIN h = 1 .. Len(h) /\ DOMAIN g = 1 .. Len(h) + 1 /\ Len(h) \in Nat
      /\ g[Len(h) + 1] = x /\ \A i \in 1 .. Len(h) : g[i] = h[i]
  OBVIOUS
<1> HIDE DEF g
<1>2. ASSUME NEW c, c # NoId PROVE HasOutput(g, c) <=> HasOutput(h, c)
  <2>1. x # Output(c)
    BY <1>2 DEF IsAnswer, Output
  <2> QED
    BY <1>1, <2>1 DEF HasOutput
<1>3. Answered(g) = Answered(h)
  BY <1>2 DEF Answered, IsCall
<1>4. x \notin Answers /\ x \notin Answered(h)
  BY DEF Answers, IsAnswer, Answered
<1>5. Only(g, Answers) = Only(h, Answers) /\ Only(g, Answered(h)) = Only(h, Answered(h))
  BY <1>4, OnlyMore DEF g
<1> QED
  BY <1>3, <1>5 DEF KeepsOrder, g

\* The answer to the call that is the next to the answered ones.
LEMMA OrderAnswer ==
  ASSUME NEW h \in Seq(Item), KeepsOrder(h), NEW c \in Calls, ~HasOutput(h, c), CallsOnce(h),
         NEW n \in 1 .. Len(h), h[n] = Call(c),
         \A i \in n + 1 .. Len(h) : h[i] \notin Answered(h)
  PROVE  KeepsOrder(Append(h, Output(c)))
<1> DEFINE g == Append(h, Output(c))
           A == Answered(h)
           B == Answered(g)
<1>1. /\ DOMAIN h = 1 .. Len(h) /\ DOMAIN g = 1 .. Len(h) + 1 /\ Len(h) \in Nat
      /\ g[Len(h) + 1] = Output(c) /\ \A i \in 1 .. Len(h) : g[i] = h[i]
  OBVIOUS
<1>2. /\ c # NoId /\ Call(c) \in Item /\ Output(c) \in Item /\ IsCall(Call(c)) /\ ~IsCall(Output(c))
      /\ Output(c) \in Answers /\ Call(c).call = c /\ Output(c).call = c
  BY CallsAssumption DEF Item, Call, Output, IsCall, Answers
<1>3. B = A \union {Call(c)}
  <2>1. \A d : HasOutput(g, d) <=> HasOutput(h, d) \/ d = c
    <3> HIDE DEF g
    <3>1. \A d : Output(d) = Output(c) <=> d = c
      BY DEF Output
    <3> QED
      BY <1>1, <3>1 DEF HasOutput
  <2>2. \A x \in Item : IsCall(x) /\ x.call = c <=> x = Call(c)
    BY <1>2, ItemIs
  <2> HIDE DEF g
  <2> QED
    BY <1>2, <2>1, <2>2 DEF Answered
<1>4. Call(c) \notin A
  BY <1>2 DEF Answered
<1> HIDE DEF g, A, B
<1> DEFINE q == SubSeq(h, 1, n-1)
           p == SubSeq(h, 1, n)
           r == SubSeq(h, n + 1, Len(h))
<1>5. n \in 0 .. Len(h) /\ n - 1 \in 0 .. Len(h)
  OBVIOUS
<1>6. /\ q \in Seq(Item) /\ Len(q) = n - 1 /\ \A i \in 1 .. n - 1 : q[i] = h[i]
      /\ p = Append(q, Call(c))
  BY <1>5, Prefix, PrefixGrows
<1>7. /\ r \in Seq(Item) /\ h = p \o r /\ p \in Seq(Item)
      /\ \A i \in 1 .. Len(r) : n + i \in 1 .. Len(h) /\ r[i] = h[n + i]
  BY <1>5, Prefix, PrefixAndRest
<1> HIDE DEF p, q, r
<1>8. \A i \in 1 .. Len(h) : h[i] = Call(c) => i = n
  BY <1>1, <1>2 DEF CallsOnce
<1>9. Told(r, {}, A) = <<>> /\ Told(r, {}, B) = <<>>
  <2>1. DOMAIN r = 1 .. Len(r) /\ Len(r) \in Nat
    BY <1>7
  <2>2. \A i \in DOMAIN r : r[i] \notin A
    BY <1>7, <2>1 DEF A
  <2>3. \A i \in DOMAIN r : r[i] # Call(c)
    BY <1>7, <1>8, <2>1
  <2> QED
    BY <1>3, <1>7, <2>2, <2>3, ToldNone
<1>10. Told(q, {}, B) = Told(q, {}, A)
  <2>1. \A i \in DOMAIN q : q[i] # Call(c)
    BY <1>6, <1>8
  <2>2. \A i \in DOMAIN q : Piece(q[i], {}, B) = Piece(q[i], {}, A)
    BY <1>3, <2>1 DEF Piece
  <2> QED
    BY <1>6, <2>2, ToldAgree
<1>11. Only(h, A) = Only(q, A) /\ Only(h, B) = Append(Only(q, A), Call(c))
  <2> DEFINE u == Only(q, A)
  <2>1. u \in Seq(Item) /\ Append(u, Call(c)) \in Seq(Item)
    BY <1>2, <1>6, OnlyType
  <2>2. Only(q, B) = u
    BY <1>10, OnlyIs
  <2> HIDE DEF u
  <2>3. Only(p, A) = u
    BY <1>2, <1>4, <1>6, OnlyMore DEF u
  <2>4. Call(c) \in B
    BY <1>3
  <2>5. Only(p, B) = Append(u, Call(c))
    BY <1>2, <1>6, <2>2, <2>4, OnlyMore
  <2>8. \A items : Told(p \o r, {}, items) = Told(p, {}, items) \o Told(r, {}, items)
    BY <1>7, ToldConcat
  <2>6. Only(h, A) = u \o <<>>
    BY <1>7, <1>9, <2>3, <2>8, OnlyIs
  <2>7. Only(h, B) = Append(u, Call(c)) \o <<>>
    BY <1>7, <1>9, <2>5, <2>8, OnlyIs
  <2> QED
    BY <2>1, <2>6, <2>7, ConcatEmptySeq DEF u
<1>12. Only(g, B) = Only(h, B) /\ Only(g, Answers) = Append(Only(h, Answers), Output(c))
  <2>1. Output(c) \notin B
    BY <1>2 DEF B, Answered
  <2> QED
    BY <1>2, <2>1, OnlyMore DEF g
<1>13. Ids(Append(Only(h, Answers), Output(c))) = Ids(Append(Only(h, A), Call(c)))
  <2>1. Ids(Only(h, Answers)) = Ids(Only(h, A))
    BY DEF KeepsOrder, A
  <2>2. Only(h, Answers) \in Seq(Item) /\ Only(h, A) \in Seq(Item)
    BY OnlyType
  <2> QED
    BY <1>2, <2>1, <2>2, IdsAppend
<1>14. Ids(Only(g, Answers)) = Ids(Only(g, B))
  BY <1>11, <1>12, <1>13
<1> QED
  BY <1>14 DEF KeepsOrder, B, g

-----------------------------------------------------------------------------
(* The history h of a conversation, its queue q, its calls t, its prompt p  *)

\* The calls of the history have begun, the answered ones are done,
CallsBegun(h, t)  == \A c \in Calls : HasCall(h, c) => t[c] # "none"
AnswersDone(h, t) == \A c \in Calls : HasOutput(h, c) => t[c] = "recorded"

\* those of the queue are in it, and behind each there is neither an answered one
\* nor one that is before it in the queue.
QueueCalled(h, q)  == \A b \in DOMAIN q : HasCall(h, q[b])
QueueInOrder(h, q) ==
    \A b \in DOMAIN q, i \in DOMAIN h : h[i] = Call(q[b]) =>
       \A k \in i + 1 .. Len(h) : /\ h[k] \notin Answered(h)
                                  /\ \A a \in 1 .. b - 1 : h[k] # Call(q[a])

\* The prompt was made of a part of the history whose calls are settled, and none
\* of them is in the queue.
MadeOf(h, q, p, n) == /\ p = ForPrompt(SubSeq(h, 1, n))
                      /\ Settled(h, n)
                      /\ \A i \in 1 .. n, b \in DOMAIN q : h[i] # Call(q[b])
PromptMade(h, q, p) == \E n \in 0 .. Len(h) : MadeOf(h, q, p, n)

HistoryOK(h, q, t, p) ==
    /\ h \in Seq(Item) /\ q \in Seq(Calls)
    /\ Tidy(h) /\ CallsBegun(h, t) /\ AnswersDone(h, t)
    /\ QueueCalled(h, q) /\ QueueInOrder(h, q)
    /\ KeepsOrder(h) /\ PromptMade(h, q, p)

\* What an item more changes.
Grows(g, h, x) ==
    /\ g \in Seq(Item) /\ Len(g) = Len(h) + 1 /\ Len(h) \in Nat
    /\ DOMAIN h = 1 .. Len(h) /\ DOMAIN g = 1 .. Len(h) + 1
    /\ g[Len(h) + 1] = x /\ \A i \in 1 .. Len(h) : g[i] = h[i]
    /\ \A c : HasCall(g, c) <=> HasCall(h, c) \/ x = Call(c)
    /\ \A c : HasOutput(g, c) <=> HasOutput(h, c) \/ x = Output(c)
    /\ \A n \in 0 .. Len(h) : SubSeq(g, 1, n) = SubSeq(h, 1, n)

LEMMA Grown ==
  ASSUME NEW h, h \in Seq(Item), NEW x \in Item
  PROVE  Grows(Append(h, x), h, x)
<1> DEFINE g == Append(h, x)
<1>1. /\ g \in Seq(Item) /\ Len(g) = Len(h) + 1 /\ Len(h) \in Nat
      /\ DOMAIN h = 1 .. Len(h) /\ DOMAIN g = 1 .. Len(h) + 1
      /\ g[Len(h) + 1] = x /\ \A i \in 1 .. Len(h) : g[i] = h[i]
  OBVIOUS
<1> HIDE DEF g
<1>2. \A c : HasCall(g, c) <=> HasCall(h, c) \/ x = Call(c)
  BY <1>1 DEF HasCall
<1>3. \A c : HasOutput(g, c) <=> HasOutput(h, c) \/ x = Output(c)
  BY <1>1 DEF HasOutput
<1>4. ASSUME NEW n \in 0 .. Len(h) PROVE SubSeq(g, 1, n) = SubSeq(h, 1, n)
  <2> DEFINE l == SubSeq(g, 1, n)
             r == SubSeq(h, 1, n)
  <2>1. n \in 0 .. Len(g)
    BY <1>1
  <2>2. l \in Seq(Item) /\ Len(l) = n /\ \A i \in 1 .. n : l[i] = g[i]
    BY <1>1, <2>1, Prefix
  <2>3. r \in Seq(Item) /\ Len(r) = n /\ \A i \in 1 .. n : r[i] = h[i]
    BY Prefix
  <2> HIDE DEF l, r
  <2>4. \A i \in 1 .. n : l[i] = r[i]
    BY <1>1, <2>2, <2>3
  <2>5. l = r
    BY <2>2, <2>3, <2>4, SeqEqual
  <2> QED
    BY <2>5 DEF l, r
<1> QED
  BY <1>1, <1>2, <1>3, <1>4 DEF Grows, g

LEMMA TidyAppend ==
  ASSUME NEW h \in Seq(Item), Tidy(h), NEW x \in Item, x.kind # "aborted",
         IsCall(x) => ~HasCall(h, x.call),
         IsAnswer(x) => HasCall(h, x.call) /\ ~HasOutput(h, x.call)
  PROVE  Tidy(Append(h, x))
<1> DEFINE g == Append(h, x)
<1>1. /\ g \in Seq(Item) /\ Len(g) = Len(h) + 1 /\ Len(h) \in Nat
      /\ DOMAIN h = 1 .. Len(h) /\ DOMAIN g = 1 .. Len(h) + 1
      /\ g[Len(h) + 1] = x /\ \A i \in 1 .. Len(h) : g[i] = h[i]
  OBVIOUS
<1> HIDE DEF g
<1>2. \A i \in 1 .. Len(h) + 1 : i \in 1 .. Len(h) \/ i = Len(h) + 1
  BY <1>1
<1>3. \A i \in DOMAIN h : h[i] \in Item
  OBVIOUS
<1>4. CallsOnce(g)
  <2>1. ASSUME NEW i \in 1 .. Len(h), IsCall(x) PROVE h[i] # x
    BY <1>1, <1>3, <2>1, ItemIs DEF HasCall
  <2> QED
    BY <1>1, <1>2, <2>1 DEF Tidy, CallsOnce
<1>5. AnswersOnce(g)
  <2>1. ASSUME NEW i \in 1 .. Len(h), IsAnswer(x) PROVE h[i] # x
    BY <1>1, <1>3, <2>1, ItemIs DEF HasOutput
  <2> QED
    BY <1>1, <1>2, <2>1 DEF Tidy, AnswersOnce
<1>6. AnswersFollow(g)
  <2>1. ASSUME NEW j \in 1 .. Len(h), IsAnswer(g[j])
        PROVE  \E i \in 1 .. j - 1 : g[i] = Call(g[j].call)
    <3>1. PICK i \in 1 .. j - 1 : h[i] = Call(h[j].call)
      BY <1>1, <2>1 DEF Tidy, AnswersFollow
    <3>2. i \in 1 .. Len(h)
      BY <1>1
    <3> QED
      BY <1>1, <3>1, <3>2
  <2>2. ASSUME IsAnswer(x) PROVE \E i \in 1 .. (Len(h) + 1) - 1 : g[i] = Call(x.call)
    <3>1. PICK i \in DOMAIN h : h[i] = Call(x.call)
      BY <2>2 DEF HasCall
    <3>2. i \in 1 .. (Len(h) + 1) - 1 /\ i \in 1 .. Len(h)
      BY <1>1
    <3> QED
      BY <1>1, <3>1, <3>2
  <2> QED
    BY <1>1, <1>2, <2>1, <2>2 DEF AnswersFollow
<1>7. NoStubs(g)
  BY <1>1, <1>2 DEF Tidy, NoStubs
<1> QED
  BY <1>4, <1>5, <1>6, <1>7 DEF Tidy, g

\* The part the prompt was made of stays settled unless one of its calls is answered.
LEMMA PromptStays ==
  ASSUME NEW h, h \in Seq(Item), NEW q, NEW p, PromptMade(h, q, p), NEW x \in Item,
         NEW q2, \A b \in DOMAIN q2 : \A i \in DOMAIN h : h[i] = Call(q2[b]) =>
                    \E a \in DOMAIN q : q[a] = q2[b],
         \A c : x = Output(c) /\ c # NoId => \E b \in DOMAIN q : q[b] = c
  PROVE  PromptMade(Append(h, x), q2, p)
<1> DEFINE g == Append(h, x)
<1>1. /\ Len(g) = Len(h) + 1 /\ Len(h) \in Nat /\ DOMAIN h = 1 .. Len(h)
      /\ g[Len(h) + 1] = x /\ \A i \in 1 .. Len(h) : g[i] = h[i]
      /\ \A n \in 0 .. Len(h) : SubSeq(g, 1, n) = SubSeq(h, 1, n)
  <2> HIDE DEF g
  <2> QED
    BY Grown DEF g, Grows
<1> HIDE DEF g
<1>2. PICK n \in 0 .. Len(h) : MadeOf(h, q, p, n)
  BY DEF PromptMade
<1>3. n \in 0 .. Len(g) /\ \A i \in 1 .. n : i \in 1 .. Len(h)
  BY <1>1
<1>4. p = ForPrompt(SubSeq(g, 1, n))
  BY <1>1, <1>2 DEF MadeOf
<1>5. Settled(g, n)
  <2> SUFFICES ASSUME NEW i \in 1 .. n, NEW k \in n + 1 .. Len(g), IsCall(g[i]),
                      g[k] = Output(g[i].call)
               PROVE  FALSE
    BY DEF Settled
  <2>1. g[i] = h[i] /\ h[i] \in Item /\ i \in DOMAIN h /\ IsCall(h[i])
    BY <1>1, <1>3
  <2>2. k \in n + 1 .. Len(h) => h[k] # Output(h[i].call)
    BY <1>2, <2>1 DEF MadeOf, Settled
  <2>3. k \in n + 1 .. Len(h) => g[k] = h[k]
    BY <1>1, <1>3
  <2>4. k = Len(h) + 1
    BY <1>1, <2>1, <2>2, <2>3
  <2>5. x = Output(h[i].call)
    BY <1>1, <2>1, <2>4
  <2>6. h[i].call # NoId /\ h[i] = Call(h[i].call)
    BY <2>1, ItemIs DEF IsCall
  <2>7. PICK b \in DOMAIN q : q[b] = h[i].call
    BY <2>5, <2>6
  <2> QED
    BY <1>2, <2>6, <2>7 DEF MadeOf
<1>6. ASSUME NEW i \in 1 .. n, NEW b \in DOMAIN q2 PROVE g[i] # Call(q2[b])
  <2>1. g[i] = h[i] /\ i \in DOMAIN h
    BY <1>1, <1>3
  <2>2. \A a \in DOMAIN q : h[i] # Call(q[a])
    BY <1>2 DEF MadeOf
  <2> QED
    BY <2>1, <2>2
<1> QED
  BY <1>3, <1>4, <1>5, <1>6 DEF PromptMade, MadeOf, g

LEMMA QueueIsOfCalls ==
  ASSUME NEW q, q \in Seq(Calls)
  PROVE  /\ DOMAIN q = 1 .. Len(q) /\ Len(q) \in Nat
         /\ \A b \in DOMAIN q : q[b] \in Calls /\ q[b] # NoId /\ IsCall(Call(q[b]))
BY CallsAssumption DEF IsCall, Call

\* An item that no call is told by, nor an output answers.
LEMMA PlainSafe ==
  ASSUME NEW h, NEW q, NEW t, NEW p, HistoryOK(h, q, t, p),
         NEW x \in Item, x.kind # "aborted", ~IsCall(x), ~IsAnswer(x)
  PROVE  HistoryOK(Append(h, x), q, t, p)
<1> DEFINE g == Append(h, x)
<1>0. h \in Seq(Item) /\ q \in Seq(Calls)
  BY DEF HistoryOK
<1>1. /\ g \in Seq(Item) /\ Len(g) = Len(h) + 1 /\ Len(h) \in Nat
      /\ DOMAIN h = 1 .. Len(h) /\ DOMAIN g = 1 .. Len(h) + 1
      /\ g[Len(h) + 1] = x /\ \A i \in 1 .. Len(h) : g[i] = h[i]
      /\ \A c : HasCall(g, c) <=> HasCall(h, c) \/ x = Call(c)
      /\ \A c : HasOutput(g, c) <=> HasOutput(h, c) \/ x = Output(c)
  <2>1. Grows(g, h, x)
    BY <1>0, Grown
  <2> HIDE DEF g
  <2> QED
    BY <2>1 DEF Grows
<1>2. /\ DOMAIN q = 1 .. Len(q) /\ Len(q) \in Nat
      /\ \A b \in DOMAIN q : q[b] \in Calls /\ q[b] # NoId /\ IsCall(Call(q[b]))
  BY <1>0, QueueIsOfCalls
<1>3. \A c : c # NoId => x # Call(c) /\ x # Output(c)
  BY DEF IsCall, IsAnswer, Call, Output
<1>4. Answered(g) = Answered(h) /\ x \notin Answered(h)
  <2> HIDE DEF g
  <2> QED
    BY <1>1, <1>3 DEF Answered, IsCall
<1>5. Tidy(g) /\ KeepsOrder(g)
  BY <1>0, TidyAppend, OrderOther DEF HistoryOK
<1>6. PromptMade(g, q, p)
  <2>1. PromptMade(h, q, p)
    BY DEF HistoryOK
  <2>2. \A c : x = Output(c) /\ c # NoId => \E b \in DOMAIN q : q[b] = c
    BY <1>3
  <2> QED
    BY <1>0, <2>1, <2>2, PromptStays
<1> HIDE DEF g
<1>7. CallsBegun(g, t) /\ AnswersDone(g, t)
  BY <1>1, <1>3, CallsAssumption DEF HistoryOK, CallsBegun, AnswersDone
<1>8. QueueCalled(g, q)
  BY <1>1 DEF HistoryOK, QueueCalled
<1>9. QueueInOrder(g, q)
  <2> SUFFICES ASSUME NEW b \in DOMAIN q, NEW i \in DOMAIN g, g[i] = Call(q[b]),
                      NEW k \in i + 1 .. Len(g)
               PROVE  /\ g[k] \notin Answered(g)
                      /\ \A a \in 1 .. b - 1 : g[k] # Call(q[a])
    BY DEF QueueInOrder
  <2>1. i \in DOMAIN h /\ h[i] = Call(q[b])
    BY <1>1, <1>2, <1>3
  <2>2. CASE k = Len(h) + 1
    <3>1. \A a \in 1 .. b - 1 : a \in DOMAIN q
      BY <1>2
    <3> QED
      BY <1>1, <1>2, <1>3, <1>4, <2>2, <3>1
  <2>3. CASE k # Len(h) + 1
    <3>1. k \in i + 1 .. Len(h) /\ k \in 1 .. Len(h)
      BY <1>1, <2>1, <2>3
    <3> QED
      BY <1>1, <1>4, <2>1, <3>1 DEF HistoryOK, QueueInOrder
  <2> QED
    BY <2>2, <2>3
<1>10. HistoryOK(g, q, t, p)
  BY <1>0, <1>1, <1>5, <1>6, <1>7, <1>8, <1>9 DEF HistoryOK
<1> QED
  BY <1>10 DEF g

\* A call the model has not made yet.
LEMMA CallSafe ==
  ASSUME NEW h, NEW q, NEW t, NEW p, HistoryOK(h, q, t, p),
         NEW c \in Calls, t[c] = "none", NEW t2, t2[c] = "queued",
         \A d \in Calls : d # c => t2[d] = t[d]
  PROVE  HistoryOK(Append(h, Call(c)), Append(q, c), t2, p)
<1> DEFINE x == Call(c)
           g == Append(h, x)
           r == Append(q, c)
<1>0. h \in Seq(Item) /\ q \in Seq(Calls) /\ x \in Item /\ r \in Seq(Calls)
  BY DEF HistoryOK, Item, Call
<1>1. /\ g \in Seq(Item) /\ Len(g) = Len(h) + 1 /\ Len(h) \in Nat
      /\ DOMAIN h = 1 .. Len(h) /\ DOMAIN g = 1 .. Len(h) + 1
      /\ g[Len(h) + 1] = x /\ \A i \in 1 .. Len(h) : g[i] = h[i]
      /\ \A d : HasCall(g, d) <=> HasCall(h, d) \/ x = Call(d)
      /\ \A d : HasOutput(g, d) <=> HasOutput(h, d) \/ x = Output(d)
  <2> HIDE DEF x
  <2>1. Grows(g, h, x)
    BY <1>0, Grown
  <2> HIDE DEF g
  <2> QED
    BY <2>1 DEF Grows
<1>2. /\ DOMAIN q = 1 .. Len(q) /\ Len(q) \in Nat
      /\ DOMAIN r = 1 .. Len(q) + 1
      /\ r[Len(q) + 1] = c /\ \A i \in 1 .. Len(q) : r[i] = q[i]
      /\ \A b \in DOMAIN q : q[b] \in Calls /\ q[b] # NoId
  BY <1>0, QueueIsOfCalls
<1>3. /\ \A d : x # Output(d) /\ (x = Call(d) <=> d = c)
      /\ x.kind # "aborted" /\ IsCall(x) /\ ~IsAnswer(x) /\ x.call = c
  BY CallsAssumption DEF IsCall, IsAnswer, Call, Output
<1>4. ~HasCall(h, c) /\ ~HasOutput(h, c)
  BY DEF HistoryOK, CallsBegun, AnswersDone
<1>5. \A b \in DOMAIN q : q[b] # c
  BY <1>4 DEF HistoryOK, QueueCalled
<1> HIDE DEF x
<1>6. Answered(g) = Answered(h) /\ x \notin Answered(h)
  <2> HIDE DEF g
  <2> QED
    BY <1>1, <1>3, <1>4 DEF Answered
<1>7. Tidy(g) /\ KeepsOrder(g)
  BY <1>0, <1>3, <1>4, TidyAppend, OrderOther DEF HistoryOK
<1>8. PromptMade(g, r, p)
  <2>1. PromptMade(h, q, p)
    BY DEF HistoryOK
  <2>2. ASSUME NEW b \in DOMAIN r, NEW i \in DOMAIN h, h[i] = Call(r[b])
        PROVE  \E a \in DOMAIN q : q[a] = r[b]
    <3>1. HasCall(h, r[b])
      BY <2>2 DEF HasCall
    <3>2. b # Len(q) + 1
      BY <1>2, <1>4, <3>1
    <3> QED
      BY <1>2, <3>2
  <2> HIDE DEF r
  <2> QED
    BY <1>0, <1>3, <2>1, <2>2, PromptStays
<1> HIDE DEF g, r
<1>9. CallsBegun(g, t2) /\ AnswersDone(g, t2)
  BY <1>1, <1>3, <1>4 DEF HistoryOK, CallsBegun, AnswersDone
<1>10. QueueCalled(g, r)
  <2>1. \A b \in DOMAIN r : b \in DOMAIN q \/ r[b] = c
    BY <1>2
  <2> QED
    BY <1>1, <1>2, <1>3, <2>1 DEF HistoryOK, QueueCalled
<1>11. QueueInOrder(g, r)
  <2> SUFFICES ASSUME NEW b \in DOMAIN r, NEW i \in DOMAIN g, g[i] = Call(r[b]),
                      NEW k \in i + 1 .. Len(g)
               PROVE  /\ g[k] \notin Answered(g)
                      /\ \A a \in 1 .. b - 1 : g[k] # Call(r[a])
    BY DEF QueueInOrder
  <2>1. i \in 1 .. Len(h) /\ h[i] = Call(r[b])
    BY <1>1
  <2>2. b \in DOMAIN q /\ r[b] = q[b]
    <3>1. HasCall(h, r[b])
      BY <1>1, <2>1 DEF HasCall
    <3> QED
      BY <1>2, <1>4, <3>1
  <2>3. \A a \in 1 .. b - 1 : a \in DOMAIN q /\ r[a] = q[a]
    BY <1>2, <2>2
  <2>4. CASE k = Len(h) + 1
    BY <1>1, <1>3, <1>5, <1>6, <2>3, <2>4
  <2>5. CASE k # Len(h) + 1
    <3>1. k \in i + 1 .. Len(h) /\ k \in 1 .. Len(h)
      BY <1>1, <2>1, <2>5
    <3>2. h[i] = Call(q[b]) /\ i \in DOMAIN h
      BY <1>1, <2>1, <2>2
    <3> QED
      BY <1>1, <1>6, <2>2, <2>3, <3>1, <3>2 DEF HistoryOK, QueueInOrder
  <2> QED
    BY <2>4, <2>5
<1>12. HistoryOK(g, r, t2, p)
  BY <1>0, <1>1, <1>7, <1>8, <1>9, <1>10, <1>11 DEF HistoryOK
<1> QED
  BY <1>12 DEF g, r, x

\* The answer to the first call of the queue.
LEMMA AnswerSafe ==
  ASSUME NEW h, NEW q, NEW t, NEW p, HistoryOK(h, q, t, p), 1 \in DOMAIN q,
         NEW c \in Calls, c = q[1], t[c] # "recorded", NEW t2, t2[c] = "recorded",
         \A d \in Calls : d # c => t2[d] = t[d]
  PROVE  HistoryOK(Append(h, Output(c)), q, t2, p)
<1> DEFINE x == Output(c)
           g == Append(h, x)
<1>0. h \in Seq(Item) /\ q \in Seq(Calls) /\ x \in Item
  BY DEF HistoryOK, Item, Output
<1>1. /\ g \in Seq(Item) /\ Len(g) = Len(h) + 1 /\ Len(h) \in Nat
      /\ DOMAIN h = 1 .. Len(h) /\ DOMAIN g = 1 .. Len(h) + 1
      /\ g[Len(h) + 1] = x /\ \A i \in 1 .. Len(h) : g[i] = h[i]
      /\ \A d : HasCall(g, d) <=> HasCall(h, d) \/ x = Call(d)
      /\ \A d : HasOutput(g, d) <=> HasOutput(h, d) \/ x = Output(d)
  <2> HIDE DEF x
  <2>1. Grows(g, h, x)
    BY <1>0, Grown
  <2> HIDE DEF g
  <2> QED
    BY <2>1 DEF Grows
<1>2. /\ DOMAIN q = 1 .. Len(q) /\ Len(q) \in Nat
      /\ \A b \in DOMAIN q : q[b] \in Calls /\ q[b] # NoId
  BY <1>0, QueueIsOfCalls
<1>3. /\ \A d : x # Call(d) /\ (x = Output(d) <=> d = c)
      /\ x.kind # "aborted" /\ ~IsCall(x) /\ IsAnswer(x) /\ x.call = c
  BY CallsAssumption DEF IsCall, IsAnswer, Call, Output
<1>4. HasCall(h, c) /\ ~HasOutput(h, c)
  BY DEF HistoryOK, QueueCalled, AnswersDone
<1> HIDE DEF x
<1>5. \A y \in Answered(g) : y \in Answered(h) \/ y = Call(c)
  <2> HIDE DEF g
  <2> QED
    BY <1>1, <1>3, ItemIs DEF Answered
<1>6. PICK n \in DOMAIN h : h[n] = Call(c)
  BY <1>4 DEF HasCall
<1>7. CallsOnce(h) /\ IsCall(Call(c)) /\ Tidy(h) /\ KeepsOrder(h)
  BY CallsAssumption DEF HistoryOK, Tidy, IsCall, Call
<1>8. \A i \in n + 1 .. Len(h) : h[i] \notin Answered(h) /\ h[i] # Call(c)
  <2>1. \A i \in n + 1 .. Len(h) : i \in DOMAIN h /\ i # n
    BY <1>1
  <2>2. \A i \in n + 1 .. Len(h) : h[i] # Call(c)
    BY <1>6, <1>7, <2>1 DEF CallsOnce
  <2>3. \A i \in n + 1 .. Len(h) : h[i] \notin Answered(h)
    BY <1>6 DEF HistoryOK, QueueInOrder
  <2> QED
    BY <2>2, <2>3
<1>9. KeepsOrder(g)
  <2>1. n \in 1 .. Len(h)
    BY <1>1
  <2>2. \A i \in n + 1 .. Len(h) : h[i] \notin Answered(h)
    BY <1>8
  <2> HIDE DEF g
  <2> QED
    BY <1>0, <1>4, <1>6, <1>7, <2>1, <2>2, OrderAnswer DEF g, x
<1>10. Tidy(g)
  BY <1>0, <1>3, <1>4, <1>7, TidyAppend
<1>11. PromptMade(g, q, p)
  <2>1. PromptMade(h, q, p)
    BY DEF HistoryOK
  <2>2. \A d : x = Output(d) /\ d # NoId => \E b \in DOMAIN q : q[b] = d
    BY <1>3
  <2> QED
    BY <1>0, <2>1, <2>2, PromptStays
<1> HIDE DEF g
<1>12. CallsBegun(g, t2) /\ AnswersDone(g, t2)
  BY <1>1, <1>3 DEF HistoryOK, CallsBegun, AnswersDone
<1>13. QueueCalled(g, q)
  BY <1>1 DEF HistoryOK, QueueCalled
<1>14. QueueInOrder(g, q)
  <2> SUFFICES ASSUME NEW b \in DOMAIN q, NEW i \in DOMAIN g, g[i] = Call(q[b]),
                      NEW k \in i + 1 .. Len(g)
               PROVE  /\ g[k] \notin Answered(g)
                      /\ \A a \in 1 .. b - 1 : g[k] # Call(q[a])
    BY DEF QueueInOrder
  <2>1. i \in 1 .. Len(h) /\ h[i] = Call(q[b]) /\ i \in DOMAIN h
    BY <1>1, <1>3
  <2>2. CASE k = Len(h) + 1
    <3>1. g[k] = x
      BY <1>1, <2>2
    <3>2. x \notin Answered(g)
      BY <1>3 DEF Answered
    <3> QED
      BY <1>3, <3>1, <3>2
  <2>3. CASE k # Len(h) + 1
    <3>1. k \in i + 1 .. Len(h) /\ g[k] = h[k]
      BY <1>1, <2>1, <2>3
    <3>2. h[k] \notin Answered(h) /\ \A a \in 1 .. b - 1 : h[k] # Call(q[a])
      BY <2>1, <3>1 DEF HistoryOK, QueueInOrder
    <3>3. h[k] # Call(c)
      <4>1. CASE b = 1
        <5>1. i = n
          BY <1>6, <1>7, <2>1, <4>1 DEF CallsOnce
        <5> QED
          BY <1>8, <3>1, <5>1
      <4>2. CASE b # 1
        <5>1. 1 \in 1 .. b - 1
          BY <1>2, <4>2
        <5> QED
          BY <3>2, <5>1
      <4> QED
        BY <4>1, <4>2
    <3> QED
      BY <1>5, <3>1, <3>2, <3>3
  <2> QED
    BY <2>2, <2>3
<1>15. HistoryOK(g, q, t2, p)
  BY <1>0, <1>1, <1>9, <1>10, <1>11, <1>12, <1>13, <1>14 DEF HistoryOK
<1> QED
  BY <1>15 DEF g, x

\* The queue loses its first calls, or all, and the calls go on.
LEMMA QueueShrinks ==
  ASSUME NEW h, NEW q, NEW t, NEW p, HistoryOK(h, q, t, p),
         NEW d \in Nat, NEW r, r \in Seq(Calls),
         \A b \in DOMAIN r : b + d \in DOMAIN q /\ r[b] = q[b + d],
         NEW t2, \A c \in Calls : /\ t[c] # "none" => t2[c] # "none"
                                  /\ t[c] = "recorded" => t2[c] = "recorded"
  PROVE  HistoryOK(h, r, t2, p)
<1>1. CallsBegun(h, t2) /\ AnswersDone(h, t2) /\ QueueCalled(h, r)
  BY DEF HistoryOK, CallsBegun, AnswersDone, QueueCalled
<1>2. QueueInOrder(h, r)
  <2> SUFFICES ASSUME NEW b \in DOMAIN r, NEW i \in DOMAIN h, h[i] = Call(r[b]),
                      NEW k \in i + 1 .. Len(h)
               PROVE  /\ h[k] \notin Answered(h)
                      /\ \A a \in 1 .. b - 1 : h[k] # Call(r[a])
    BY DEF QueueInOrder
  <2>1. b + d \in DOMAIN q /\ h[i] = Call(q[b + d])
    OBVIOUS
  <2>2. /\ h[k] \notin Answered(h)
        /\ \A a \in 1 .. (b + d) - 1 : h[k] # Call(q[a])
    BY <2>1 DEF HistoryOK, QueueInOrder
  <2>3. DOMAIN r = 1 .. Len(r) /\ Len(r) \in Nat
    OBVIOUS
  <2>4. \A a \in 1 .. b - 1 : a \in DOMAIN r /\ a + d \in 1 .. (b + d) - 1
    BY <2>3
  <2> QED
    BY <2>2, <2>4
<1>3. PromptMade(h, r, p)
  <2>1. PICK n \in 0 .. Len(h) : MadeOf(h, q, p, n)
    BY DEF HistoryOK, PromptMade
  <2>2. MadeOf(h, r, p, n)
    BY <2>1 DEF MadeOf
  <2> QED
    BY <2>2 DEF PromptMade
<1> QED
  BY <1>1, <1>2, <1>3 DEF HistoryOK

\* The prompt of a request, when no call is in the queue.
LEMMA PromptSafe ==
  ASSUME NEW h, NEW q, NEW t, NEW p, HistoryOK(h, q, t, p), DOMAIN q = {}
  PROVE  HistoryOK(h, q, t, ForPrompt(h)) /\ IsPrefix(p, ForPrompt(h))
<1>1. h \in Seq(Item) /\ Len(h) \in Nat
  BY DEF HistoryOK
<1>2. SubSeq(h, 1, Len(h)) = h /\ Len(h) \in 0 .. Len(h)
  BY <1>1, SubSeqFull
<1>3. MadeOf(h, q, ForPrompt(h), Len(h))
  <2>1. Settled(h, Len(h))
    BY <1>1 DEF Settled
  <2> QED
    BY <1>2, <2>1 DEF MadeOf
<1>4. PromptMade(h, q, ForPrompt(h))
  BY <1>2, <1>3 DEF PromptMade
<1>5. PICK n \in 0 .. Len(h) : MadeOf(h, q, p, n)
  BY DEF HistoryOK, PromptMade
<1>6. IsPrefix(p, ForPrompt(h))
  BY <1>1, <1>5, PromptExtends DEF MadeOf, HistoryOK
<1> QED
  BY <1>4, <1>6 DEF HistoryOK

LEMMA EmptySafe ==
  ASSUME NEW t
  PROVE  HistoryOK(<<>>, <<>>, t, <<>>)
<1> DEFINE e == <<>>
<1>1. /\ e \in Seq(Item) /\ e \in Seq(Calls) /\ DOMAIN e = {} /\ Len(e) = 0
      /\ SubSeq(e, 1, 0) = e
  OBVIOUS
<1>2. \A items : Only(e, items) = e
  BY ToldEmpty, OnlyIs
<1>3. ForPrompt(e) = e
  BY <1>1, PromptIs, ToldEmpty
<1> HIDE DEF e
<1>4. Tidy(e)
  BY <1>1 DEF Tidy, CallsOnce, AnswersOnce, AnswersFollow, NoStubs
<1>5. KeepsOrder(e)
  BY <1>2 DEF KeepsOrder
<1>6. CallsBegun(e, t) /\ AnswersDone(e, t) /\ QueueCalled(e, e) /\ QueueInOrder(e, e)
  BY <1>1 DEF CallsBegun, AnswersDone, QueueCalled, QueueInOrder, HasCall, HasOutput
<1>7. MadeOf(e, e, e, 0)
  <2>1. \A i \in 1 .. 0 : FALSE
    OBVIOUS
  <2>2. Settled(e, 0)
    BY <2>1 DEF Settled
  <2>3. e = ForPrompt(SubSeq(e, 1, 0))
    BY <1>1, <1>3
  <2> QED
    BY <2>1, <2>2, <2>3 DEF MadeOf
<1>8. PromptMade(e, e, e)
  BY <1>1, <1>7 DEF PromptMade
<1>9. HistoryOK(e, e, t, e)
  BY <1>1, <1>4, <1>5, <1>6, <1>8 DEF HistoryOK
<1> QED
  BY <1>9 DEF e

-----------------------------------------------------------------------------
(* The history, the queue and the prompt under the steps of a conversation  *)

HistoryInv == HistoryOK(history, inFlight, tool, prompt)

\* Calls go on, none is begun or forgotten.
GoesOn(t, t2) == \A c \in Calls : /\ t[c] # "none" => t2[c] # "none"
                                  /\ t[c] = "recorded" => t2[c] = "recorded"

\* The history and the queue stay.
LEMMA ToolsSafe ==
  ASSUME HistoryInv, UNCHANGED <<history, inFlight, prompt>>, GoesOn(tool, tool')
  PROVE  HistoryInv'
<1>1. HistoryOK(history, inFlight, tool, prompt)
  BY DEF HistoryInv
<1>2. HistoryOK(history, inFlight, tool', prompt)
  BY <1>1 DEF HistoryOK, CallsBegun, AnswersDone, GoesOn
<1> QED
  BY <1>2 DEF HistoryInv

\* The queue is dropped.
LEMMA DropSafe ==
  ASSUME HistoryInv, UNCHANGED <<history, prompt>>, inFlight' = <<>>, GoesOn(tool, tool')
  PROVE  HistoryInv'
<1>1. /\ HistoryOK(history, inFlight, tool, prompt) /\ inFlight' \in Seq(Calls)
      /\ \A b \in DOMAIN inFlight' : FALSE
  BY DEF HistoryInv
<1>2. HistoryOK(history, inFlight', tool', prompt)
  BY <1>1, QueueShrinks DEF GoesOn
<1> QED
  BY <1>2 DEF HistoryInv

\* An item is recorded that is no call and no answer.
LEMMA ItemSafe ==
  ASSUME HistoryInv, NEW x \in Item, x.kind # "aborted", ~IsCall(x), ~IsAnswer(x),
         history' = Append(history, x), UNCHANGED <<inFlight, tool, prompt>>
  PROVE  HistoryInv'
<1>1. HistoryOK(Append(history, x), inFlight, tool, prompt)
  BY PlainSafe DEF HistoryInv
<1> QED
  BY <1>1 DEF HistoryInv

LEMMA NamelessSafe ==
  ASSUME HistoryInv, NamelessCall
  PROVE  HistoryInv'
<1> DEFINE x == Call(NoId)
           y == Output(NoId)
<1>1. /\ x \in Item /\ x.kind # "aborted" /\ ~IsCall(x) /\ ~IsAnswer(x)
      /\ y \in Item /\ y.kind # "aborted" /\ ~IsCall(y) /\ ~IsAnswer(y)
  BY DEF Item, Call, Output, IsCall, IsAnswer
<1>2. history \in Seq(Item)
  BY DEF HistoryInv, HistoryOK
<1>3. history' = history \o <<x, y>> /\ UNCHANGED <<inFlight, tool, prompt>>
  BY DEF NamelessCall, toolVars
<1> HIDE DEF x, y
<1>4. history' = Append(Append(history, x), y)
  BY <1>1, <1>2, <1>3
<1>5. HistoryOK(Append(history, x), inFlight, tool, prompt)
  BY <1>1, PlainSafe DEF HistoryInv
<1>6. HistoryOK(Append(Append(history, x), y), inFlight, tool, prompt)
  BY <1>1, <1>5, PlainSafe
<1> QED
  BY <1>3, <1>4, <1>6 DEF HistoryInv

LEMMA ToolCallKeepsHistory ==
  ASSUME HistoryInv, IInv, NEW c \in Calls, ToolCall(c)
  PROVE  HistoryInv'
<1>1. tool[c] = "none" /\ tool'[c] = "queued" /\ \A d \in Calls : d # c => tool'[d] = tool[d]
  BY DEF ToolCall, IInv, ToolTypes
<1>2. /\ history' = Append(history, Call(c)) /\ inFlight' = Append(inFlight, c)
      /\ prompt' = prompt
  BY DEF ToolCall
<1>3. HistoryOK(Append(history, Call(c)), Append(inFlight, c), tool', prompt)
  BY <1>1, CallSafe DEF HistoryInv
<1> QED
  BY <1>2, <1>3 DEF HistoryInv

LEMMA RecordKeepsHistory ==
  ASSUME HistoryInv, IInv, Record
  PROVE  HistoryInv'
<1> DEFINE c == Head(inFlight)
<1>1. /\ inFlight \in Seq(Calls) /\ 1 \in DOMAIN inFlight /\ c = inFlight[1] /\ c \in Calls
      /\ Tail(inFlight) \in Seq(Calls)
      /\ \A b \in DOMAIN Tail(inFlight) : /\ b + 1 \in DOMAIN inFlight
                                          /\ Tail(inFlight)[b] = inFlight[b + 1]
  BY DEF IInv, ToolTypes, Record
<1>2. /\ tool[c] \in Finished
      /\ history' = IF tool[c] = "output" THEN Append(history, Output(c)) ELSE history
      /\ tool' = [tool EXCEPT ![c] = IF @ = "output" THEN "recorded" ELSE "dropped"]
      /\ inFlight' = Tail(inFlight) /\ prompt' = prompt
  BY DEF Record
<1>3. tool \in [Calls -> ToolStates]
  BY DEF IInv, ToolTypes
<1> HIDE DEF c
<1>4. /\ tool[c] # "recorded" /\ \A d \in Calls : d # c => tool'[d] = tool[d]
      /\ tool'[c] = IF tool[c] = "output" THEN "recorded" ELSE "dropped"
  BY <1>1, <1>2, <1>3 DEF Finished
<1>5. HistoryOK(history', inFlight, tool', prompt)
  <2>1. CASE tool[c] = "output"
    <3>1. tool'[c] = "recorded" /\ history' = Append(history, Output(c))
      BY <1>2, <1>4, <2>1
    <3>2. HistoryOK(history, inFlight, tool, prompt)
      BY DEF HistoryInv
    <3>3. HistoryOK(Append(history, Output(c)), inFlight, tool', prompt)
      BY <1>1, <1>4, <3>1, <3>2, AnswerSafe
    <3> QED
      BY <3>1, <3>3
  <2>2. CASE tool[c] # "output"
    <3>1. history' = history /\ GoesOn(tool, tool')
      BY <1>1, <1>2, <1>4, <2>2 DEF GoesOn
    <3>3. HistoryOK(history, inFlight, tool, prompt)
      BY DEF HistoryInv
    <3>4. HistoryOK(history, inFlight, tool', prompt)
      BY <3>1, <3>3 DEF HistoryOK, CallsBegun, AnswersDone, GoesOn
    <3> QED
      BY <3>1, <3>4
  <2> QED
    BY <2>1, <2>2
<1>6. HistoryOK(history', Tail(inFlight), tool', prompt)
  <2>1. /\ 1 \in Nat /\ Tail(inFlight) \in Seq(Calls)
        /\ \A b \in DOMAIN Tail(inFlight) : /\ b + 1 \in DOMAIN inFlight
                                            /\ Tail(inFlight)[b] = inFlight[b + 1]
    BY <1>1
  <2> QED
    BY ONLY <1>5, <2>1, QueueShrinks
<1> QED
  BY <1>2, <1>6 DEF HistoryInv

\* Nothing is in the queue when a request is made.
LEMMA RequestKeepsHistory ==
  ASSUME HistoryInv, IInv, Request
  PROVE  HistoryInv' /\ IsPrefix(prompt, prompt')
<1>1. /\ phase = "top" /\ prompt' = ForPrompt(history)
      /\ UNCHANGED <<history, inFlight, tool>>
  BY DEF Request
<1>2. DOMAIN inFlight = {}
  <2> SUFFICES ASSUME NEW b \in DOMAIN inFlight PROVE FALSE
    OBVIOUS
  <2>1. inFlight[b] \in Calls
    BY DEF IInv, ToolTypes
  <2>2. tool[inFlight[b]] \in Live
    BY <2>1 DEF IInv, FuturesLive
  <2> QED
    BY <1>1, <2>1, <2>2 DEF IInv, ToolsSettled, Live
<1>3. /\ HistoryOK(history, inFlight, tool, ForPrompt(history))
      /\ IsPrefix(prompt, ForPrompt(history))
  BY <1>2, PromptSafe DEF HistoryInv
<1> QED
  BY <1>1, <1>3 DEF HistoryInv

LEMMA HistoryStep ==
  ASSUME HistoryInv, IInv, [Next]_vars
  PROVE  HistoryInv'
<1>1. GoesOn(tool, tool)
  BY DEF GoesOn
<1>2. tool \in [Calls -> ToolStates]
  BY DEF IInv, ToolTypes
<1>3. User \in Item /\ User.kind # "aborted" /\ ~IsCall(User) /\ ~IsAnswer(User)
  BY DEF Item, User, IsCall, IsAnswer
<1>4. Ghost \in Item /\ Ghost.kind # "aborted" /\ ~IsCall(Ghost) /\ ~IsAnswer(Ghost)
  BY DEF Item, Ghost, IsCall, IsAnswer
<1>5. ASSUME UNCHANGED <<toolVars, history, prompt>> PROVE HistoryInv'
  BY <1>1, <1>5, ToolsSafe DEF toolVars
<1>6. CASE Begin
  BY <1>3, <1>6, ItemSafe DEF Begin, toolVars
<1>7. CASE Request
  BY <1>7, RequestKeepsHistory
<1>8. CASE Decline \/ Surrender \/ ReplaceImage \/ Drained \/ Cancel
  BY <1>5, <1>8 DEF Decline, Surrender, ReplaceImage, Drained, Cancel, Goto
<1>9. CASE Retry
  BY <1>1, <1>9, ToolsSafe DEF Retry
<1>10. CASE NamelessCall
  BY <1>10, NamelessSafe
<1>11. CASE StreamFails
  <2>1. GoesOn(tool, tool')
    BY <1>2, <1>11 DEF StreamFails, GoesOn, Queued
  <2> QED
    BY <1>11, <2>1, DropSafe DEF StreamFails
<1>12. CASE Record
  BY <1>12, RecordKeepsHistory
<1>13. CASE Kill
  <2>1. GoesOn(tool, tool')
    BY <1>2, <1>13 DEF Kill, GoesOn
  <2> QED
    BY <1>13, <2>1, DropSafe DEF Kill
<1>14. ASSUME NEW t \in 1 .. MaxTurns, SnapshotDone(t) PROVE HistoryInv'
  <2>1. CASE history' = history
    BY <1>5, <1>14, <2>1 DEF SnapshotDone
  <2>2. CASE history' = Append(history, Ghost)
    BY <1>4, <1>14, <2>2, ItemSafe DEF SnapshotDone, toolVars
  <2> QED
    BY <1>14, <2>1, <2>2 DEF SnapshotDone
<1>15. ASSUME NEW result \in Results, StreamEnds(result) PROVE HistoryInv'
  <2>1. GoesOn(tool, tool')
    BY <1>2, <1>15 DEF StreamEnds, GoesOn, Queued
  <2> QED
    BY <1>15, <2>1, ToolsSafe DEF StreamEnds
<1>16. ASSUME NEW c \in Calls, ToolCall(c) PROVE HistoryInv'
  BY <1>16, ToolCallKeepsHistory
<1>17. ASSUME NEW c \in Calls, NEW state \in ToolStates \ {"none"},
              tool[c] # "recorded", tool' = [tool EXCEPT ![c] = state],
              UNCHANGED <<history, inFlight, prompt>>
       PROVE  HistoryInv'
  <2>1. GoesOn(tool, tool')
    BY <1>2, <1>17 DEF GoesOn
  <2> QED
    BY <1>17, <2>1, ToolsSafe
<1>18. ASSUME NEW c \in Calls, Acquire(c) \/ PassGate(c) \/ ZombieEnds(c) PROVE HistoryInv'
  <2>1. PICK state \in ToolStates \ {"none"} : tool' = [tool EXCEPT ![c] = state]
    BY <1>18 DEF Acquire, PassGate, ZombieEnds, ToolStates, Spawned
  <2>2. tool[c] # "recorded" /\ UNCHANGED <<history, inFlight, prompt>>
    BY <1>18 DEF Acquire, PassGate, ZombieEnds
  <2> QED
    BY <1>17, <2>1, <2>2
<1>19. ASSUME NEW c \in Calls, HandlerReturns(c) \/ Interrupted(c) PROVE HistoryInv'
  <2>1. PICK state \in ToolStates \ {"none"} : tool' = [tool EXCEPT ![c] = state]
    BY <1>19 DEF HandlerReturns, Interrupted, Release, ToolStates, Finished
  <2>2. tool[c] # "recorded" /\ UNCHANGED <<history, inFlight, prompt>>
    BY <1>19 DEF HandlerReturns, Interrupted, Spawned
  <2> QED
    BY <1>17, <2>1, <2>2
<1>20. CASE UNCHANGED vars
  BY <1>5, <1>20 DEF vars
<1> QED
  BY <1>6, <1>7, <1>8, <1>9, <1>10, <1>11, <1>12, <1>13, <1>14, <1>15, <1>16, <1>18, <1>19,
     <1>20 DEF Next

\* In every state of a conversation the history is tidy, the queue is in its order
\* and the last prompt was made of a settled part of it.
THEOREM HistoryKept == Spec => []HistoryInv
<1>1. Init => HistoryInv
  BY EmptySafe DEF Init, HistoryInv
<1>2. HistoryInv /\ IInv /\ [Next]_vars => HistoryInv'
  BY HistoryStep
<1> QED
  BY <1>1, <1>2, Invariance, PTL DEF Spec

\* In every prompt each call that has an id is followed by one output, and each
\* output follows its call, whatever was retried, cancelled, killed or fatal before
\* (get_history_for_prompt of context_manager/history.rs, normalize.rs).
THEOREM PromptsPaired == Spec => []PromptPaired
<1>1. HistoryInv => PromptPaired
  <2> SUFFICES ASSUME HistoryInv PROVE PromptPaired
    OBVIOUS
  <2>1. PICK n \in 0 .. Len(history) : MadeOf(history, inFlight, prompt, n)
    BY DEF HistoryInv, HistoryOK, PromptMade
  <2> DEFINE g == SubSeq(history, 1, n)
  <2>2. g \in Seq(Item) /\ Tidy(g)
    BY Prefix, TidyPrefix DEF HistoryInv, HistoryOK
  <2>3. prompt = ForPrompt(g)
    BY <2>1 DEF MadeOf
  <2> HIDE DEF g
  <2>4. CallsAnswered(prompt) /\ OutputsCalled(prompt)
    BY <2>2, <2>3, PromptCallsAnswered, PromptOutputsCalled
  <2> QED
    BY <2>4 DEF CallsAnswered, OutputsCalled, PromptPaired
<1> QED
  BY <1>1, HistoryKept, PTL

\* The outputs in the history come once and in the order of their calls, in
\* whatever order the tools end (drain_in_flight, codex.rs).
THEOREM OutputsKeepOrder == Spec => []OutputsInCallOrder
<1>1. HistoryInv => OutputsInCallOrder
  BY DEF HistoryInv, HistoryOK, KeepsOrder, Ids, Answers, Answered, OutputsInCallOrder
<1> QED
  BY <1>1, HistoryKept, PTL

\* Each prompt extends the one before: no later output, ghost snapshot or call
\* changes what the model has been sent (run_turn, codex.rs).
THEOREM PromptsOnlyGrow == Spec => PromptOnlyGrows
<1>1. HistoryInv /\ IInv /\ [Next]_vars => [IsPrefix(prompt, prompt')]_prompt
  <2> SUFFICES ASSUME HistoryInv, IInv, [Next]_vars, prompt' # prompt
               PROVE  IsPrefix(prompt, prompt')
    OBVIOUS
  <2>1. Request
    BY DEF Next, vars, Begin, Decline, Retry, Surrender, ReplaceImage, NamelessCall,
       StreamFails, Record, Drained, Cancel, Kill, SnapshotDone, StreamEnds, ToolCall,
       Acquire, PassGate, HandlerReturns, Interrupted, ZombieEnds, Goto
  <2> QED
    BY <2>1, RequestKeepsHistory
<1> QED
  BY <1>1, HistoryKept, Invariance, PTL DEF Spec, PromptOnlyGrows
=============================================================================
