------------------------- MODULE ConversationProofs -------------------------
(***************************************************************************)
(* Proofs about a conversation and its recorder.                           *)
(*                                                                         *)
(* Of Rollout, for any entries and any size of the channel: what is        *)
(* flushed is in the file (FlushedIsRead), and the recorder implements     *)
(* RolloutLog. What a session does with its rollout file is what Rollout   *)
(* allows, so that both hold of every conversation.                        *)
(*                                                                         *)
(* Of Conversation, for any number of turns, compactions, undos, aborts,   *)
(* failures and resumes: the entries that are read or still to be written, *)
(* rebuilt as a resume would, show the model what the live history shows   *)
(* (LogTellsHistory), and a snapshot leaves the history only by the undo   *)
(* that restores it or behind a copy (SnapshotsAccounted).                 *)
(***************************************************************************)
EXTENDS Conversation, FiniteSetTheorems, WellFoundedInduction, SequenceTheorems, TLAPS

-----------------------------------------------------------------------------
(* Induction over numbers and sequences, and what FlattenSeq computes       *)

\* A set of positions has a first one: below it there is the fewest.
LEMMA Least ==
  ASSUME NEW n \in Nat, NEW T \in SUBSET (1 .. n), T # {}
  PROVE  \E x \in T : \A y \in T : x <= y
<1> DEFINE Below(x) == {y \in T : y < x}
           All == {Below(x) : x \in T}
<1>1. IsWellFoundedOn(StrictSubsetOrdering(1 .. n), FiniteSubsetsOf(1 .. n))
  BY FS_StrictSubsetOrderingWellFounded
<1>2. All \subseteq FiniteSubsetsOf(1 .. n) /\ All # {}
  <2>1. FiniteSubsetsOf(1 .. n) = SUBSET (1 .. n)
    <3>1. IsFiniteSet(1 .. n)
      BY FS_Interval
    <3> QED
      BY <3>1, FS_FiniteSubsetsOfFinite
  <2>2. ASSUME NEW Y \in All PROVE Y \in SUBSET (1 .. n)
    <3>1. PICK x \in T : Y = Below(x)
      OBVIOUS
    <3> QED
      BY <3>1
  <2>3. All # {}
    OBVIOUS
  <2> HIDE DEF All
  <2> QED
    BY <2>1, <2>2, <2>3
<1>3. PICK X \in All : \A Y \in All : ~(<<Y, X>> \in StrictSubsetOrdering(1 .. n))
  <2> HIDE DEF All
  <2> QED
    BY <1>1, <1>2, WFMin
<1>4. PICK x \in T : X = Below(x)
  OBVIOUS
<1>5. ASSUME NEW y \in T, y < x PROVE FALSE
  <2>1. y \in Below(x) /\ y \notin Below(y) /\ \A z \in Below(y) : z \in Below(x)
    BY <1>5
  <2>2. <<Below(y), X>> \in StrictSubsetOrdering(1 .. n)
    BY <2>1, <1>4 DEF StrictSubsetOrdering
  <2> QED
    BY <2>2, <1>3
<1> QED
  BY <1>5

\* Induction, with the numbers a formula holds for as a set.
LEMMA Induction ==
  ASSUME NEW S \in SUBSET Nat, 0 \in S, \A n \in S : n + 1 \in S
  PROVE  \A n \in Nat : n \in S
<1> SUFFICES ASSUME NEW n \in Nat, n \notin S PROVE FALSE
  OBVIOUS
<1> DEFINE T == {m \in 1 .. n : m \notin S}
<1>1. n \in T
  OBVIOUS
<1>2. PICK x \in T : \A y \in T : x <= y
  BY <1>1, Least
<1>3. x - 1 \in Nat /\ x - 1 \notin T
  BY <1>2
<1>4. x - 1 \in S
  BY <1>2, <1>3
<1>5. (x - 1) + 1 \in S
  BY <1>4
<1> QED
  BY <1>2, <1>5

\* The function FlattenSeq is defined by, up to the n-th sequence.
Flattens(g, s, n) == g = [i \in 1 .. n |-> IF i = 1 THEN s[i] ELSE g[i-1] \o s[i]]

LEMMA FlattenIs ==
  ASSUME NEW s, Len(s) # 0
  PROVE  FlattenSeq(s) = (CHOOSE g : Flattens(g, s, Len(s)))[Len(s)]
BY Zenon DEF FlattenSeq, Flattens

LEMMA FlattenExists ==
  ASSUME NEW s
  PROVE  \A n \in Nat : \E g : Flattens(g, s, n)
<1> DEFINE S == {n \in Nat : \E g : Flattens(g, s, n)}
<1>1. 0 \in S
  <2>1. Flattens([i \in 1 .. 0 |-> s], s, 0)
    BY DEF Flattens
  <2> QED
    BY <2>1
<1>2. ASSUME NEW n \in S PROVE n + 1 \in S
  <2>1. PICK g : Flattens(g, s, n)
    OBVIOUS
  <2> DEFINE f == [i \in 1 .. n + 1 |-> IF i = n + 1
                                        THEN IF i = 1 THEN s[i] ELSE g[i-1] \o s[i]
                                        ELSE g[i]]
  <2>2. \A i \in 1 .. n : g[i] = IF i = 1 THEN s[i] ELSE g[i-1] \o s[i]
    BY <2>1 DEF Flattens
  <2>3. \A i \in 1 .. n : f[i] = g[i]
    OBVIOUS
  <2>4. \A i \in 1 .. n + 1 : f[i] = IF i = 1 THEN s[i] ELSE f[i-1] \o s[i]
    <3>1. ASSUME NEW i \in 1 .. n + 1 PROVE f[i] = IF i = 1 THEN s[i] ELSE f[i-1] \o s[i]
      <4>1. i # 1 => i - 1 \in 1 .. n
        OBVIOUS
      <4>2. i # 1 => f[i-1] = g[i-1]
        BY <4>1, <2>3
      <4>3. CASE i = n + 1
        <5>1. f[i] = IF i = 1 THEN s[i] ELSE g[i-1] \o s[i]
          BY <4>3
        <5> HIDE DEF f
        <5> QED
          BY <4>2, <5>1
      <4>4. CASE i # n + 1
        <5>1. i \in 1 .. n
          BY <4>4
        <5>2. f[i] = g[i]
          BY <5>1, <2>3
        <5> HIDE DEF f
        <5> QED
          BY <4>2, <5>1, <5>2, <2>2
      <4> QED
        BY <4>3, <4>4
    <3> QED
      BY <3>1
  <2>5. f = [i \in 1 .. n + 1 |-> f[i]]
    OBVIOUS
  <2>6. Flattens(f, s, n + 1)
    <3> HIDE DEF f
    <3> QED
      BY <2>4, <2>5 DEF Flattens
  <2> HIDE DEF f
  <2> QED
    BY <2>6
<1>3. S \in SUBSET Nat
  OBVIOUS
<1> HIDE DEF S
<1>4. \A n \in Nat : n \in S
  BY <1>1, <1>2, <1>3, Induction
<1> QED
  BY <1>4 DEF S

LEMMA FlattensAt ==
  ASSUME NEW s, NEW n \in Nat, NEW g, Flattens(g, s, n), NEW i \in 1 .. n
  PROVE  g[i] = IF i = 1 THEN s[i] ELSE g[i-1] \o s[i]
<1> DEFINE term(k) == IF k = 1 THEN s[k] ELSE g[k-1] \o s[k]
<1>1. g = [k \in 1 .. n |-> term(k)]
  BY DEF Flattens
<1> HIDE DEF term
<1>2. g[i] = term(i)
  BY <1>1
<1> QED
  BY <1>2 DEF term

LEMMA FlattensLast ==
  ASSUME NEW s, NEW n \in Nat, n # 0, NEW k \in Nat, k = n + 1, NEW g, Flattens(g, s, k)
  PROVE  g[k] = g[n] \o s[k]
<1>1. k \in 1 .. k /\ k # 1 /\ k - 1 = n
  OBVIOUS
<1> DEFINE term(i) == IF i = 1 THEN s[i] ELSE g[i-1] \o s[i]
<1>2. g = [i \in 1 .. k |-> term(i)]
  BY DEF Flattens
<1> HIDE DEF term
<1>3. g[k] = term(k)
  BY ONLY <1>1, <1>2
<1> QED
  BY ONLY <1>1, <1>3 DEF term

\* Sequences that begin alike are flattened alike.
LEMMA FlattenUnique ==
  ASSUME NEW s, NEW t, NEW n \in Nat, NEW m \in Nat, n <= m,
         \A i \in 1 .. n : s[i] = t[i],
         NEW f, NEW g, Flattens(f, s, n), Flattens(g, t, m)
  PROVE  \A i \in 1 .. n : f[i] = g[i]
<1> DEFINE S == {i \in Nat : i \in 1 .. n => f[i] = g[i]}
<1>1. 0 \in S
  OBVIOUS
<1>2. \A i \in 1 .. n : /\ f[i] = IF i = 1 THEN s[i] ELSE f[i-1] \o s[i]
                        /\ g[i] = IF i = 1 THEN t[i] ELSE g[i-1] \o t[i]
  <2>1. \A i \in 1 .. n : i \in 1 .. m
    OBVIOUS
  <2> QED
    BY <2>1, FlattensAt
<1>3. ASSUME NEW i \in S PROVE i + 1 \in S
  <2> SUFFICES ASSUME i + 1 \in 1 .. n PROVE f[i+1] = g[i+1]
    OBVIOUS
  <2>1. (i + 1) - 1 = i /\ (i + 1 # 1 => f[i] = g[i])
    OBVIOUS
  <2>2. /\ f[i+1] = IF i + 1 = 1 THEN s[i+1] ELSE f[i] \o s[i+1]
        /\ g[i+1] = IF i + 1 = 1 THEN t[i+1] ELSE g[i] \o t[i+1]
    BY <1>2, <2>1
  <2>3. s[i+1] = t[i+1]
    OBVIOUS
  <2> QED
    BY <2>1, <2>2, <2>3
<1>4. S \in SUBSET Nat
  OBVIOUS
<1> HIDE DEF S
<1>5. \A i \in Nat : i \in S
  BY <1>1, <1>3, <1>4, Induction
<1> QED
  BY <1>5 DEF S

LEMMA FlattenTo ==
  ASSUME NEW s, Len(s) \in Nat, Len(s) # 0, NEW t, NEW m \in Nat, Len(s) <= m,
         \A i \in 1 .. Len(s) : s[i] = t[i], NEW g, Flattens(g, t, m)
  PROVE  FlattenSeq(s) = g[Len(s)]
<1> DEFINE n == Len(s)
           f == CHOOSE f : Flattens(f, s, n)
<1>1. n \in Nat /\ Len(s) = n /\ n # 0 /\ n <= m /\ \A i \in 1 .. n : s[i] = t[i]
  OBVIOUS
<1> HIDE DEF n
<1>2. FlattenSeq(s) = f[n]
  BY <1>1, FlattenIs
<1>3. Flattens(f, s, n)
  BY <1>1, FlattenExists
<1> HIDE DEF f
<1>4. n \in 1 .. n
  BY <1>1
<1>5. \A i \in 1 .. n : f[i] = g[i]
  <2>1. /\ n \in Nat /\ m \in Nat /\ n <= m /\ \A i \in 1 .. n : s[i] = t[i]
        /\ Flattens(f, s, n) /\ Flattens(g, t, m)
    BY <1>1, <1>3
  <2> QED
    BY ONLY <2>1, FlattenUnique
<1>6. FlattenSeq(s) = g[n]
  BY ONLY <1>2, <1>4, <1>5
<1> QED
  BY ONLY Zenon, <1>6 DEF n

LEMMA FlattenSelf ==
  ASSUME NEW t, Len(t) \in Nat, Len(t) # 0, NEW g, Flattens(g, t, Len(t))
  PROVE  FlattenSeq(t) = g[Len(t)]
<1>1. Len(t) <= Len(t) /\ \A i \in 1 .. Len(t) : t[i] = t[i]
  OBVIOUS
<1>2. Len(t) \in Nat /\ Len(t) # 0 /\ Flattens(g, t, Len(t))
  OBVIOUS
<1> QED
  BY ONLY <1>1, <1>2, FlattenTo

\* A sequence of sequences that becomes longer by one.
LEMMA FlattenOneMore ==
  ASSUME NEW s, NEW t, Len(s) \in Nat, Len(s) # 0, Len(t) = Len(s) + 1,
         \A i \in 1 .. Len(s) : s[i] = t[i]
  PROVE  FlattenSeq(t) = FlattenSeq(s) \o t[Len(t)]
<1>1. Len(t) \in Nat /\ Len(t) # 0
  OBVIOUS
<1>2. PICK g : Flattens(g, t, Len(t))
  BY <1>1, FlattenExists
<1>3. FlattenSeq(t) = g[Len(t)]
  BY ONLY <1>1, <1>2, FlattenSelf
<1>4. Len(s) \in Nat /\ Len(s) # 0 /\ Len(t) = Len(s) + 1
  OBVIOUS
<1>5. g[Len(t)] = g[Len(s)] \o t[Len(t)]
  BY ONLY Zenon, <1>1, <1>2, <1>4, FlattensLast
<1>6. FlattenSeq(s) = g[Len(s)]
  <2>1. Len(s) \in Nat /\ Len(s) # 0 /\ Len(s) <= Len(t) /\ \A i \in 1 .. Len(s) : s[i] = t[i]
    OBVIOUS
  <2> QED
    BY ONLY <1>1, <1>2, <2>1, FlattenTo
<1> QED
  BY ONLY Zenon, <1>3, <1>5, <1>6

LEMMA FlattenOne ==
  ASSUME NEW t, Len(t) = 1
  PROVE  FlattenSeq(t) = t[1]
<1>1. Len(t) \in Nat /\ Len(t) # 0 /\ 1 \in 1 .. Len(t) /\ Len(t) = 1
  OBVIOUS
<1>2. PICK g : Flattens(g, t, Len(t))
  BY <1>1, FlattenExists
<1>3. FlattenSeq(t) = g[Len(t)]
  BY ONLY <1>1, <1>2, FlattenSelf
<1>4. g[1] = IF 1 = 1 THEN t[1] ELSE g[1 - 1] \o t[1]
  BY ONLY <1>1, <1>2, FlattensAt
<1> QED
  BY ONLY <1>1, <1>3, <1>4

\* A sequence of sequences that becomes longer by one.
LEMMA FlattenAppend ==
  ASSUME NEW S, NEW s \in Seq(Seq(S)), NEW x \in Seq(S)
  PROVE  FlattenSeq(Append(s, x)) = FlattenSeq(s) \o x
<1> DEFINE t == Append(s, x)
           n == Len(s)
           k == n + 1
<1>1. /\ n \in Nat /\ k = n + 1 /\ Len(s) = n /\ Len(t) = k
      /\ \A i \in 1 .. n : s[i] = t[i]
  OBVIOUS
<1>2. t[k] = x
  OBVIOUS
<1>3. n = 0 => s = <<>> /\ FlattenSeq(s) = s
  <2>1. n = 0 => s = <<>>
    OBVIOUS
  <2>2. n = 0 => FlattenSeq(s) = s
    BY Zenon DEF FlattenSeq, n
  <2> QED
    BY <2>1, <2>2
<1>4. <<>> \o x = x
  BY ConcatEmptySeq
<1> HIDE DEF t, n, k
<1>5. ASSUME n = 0 PROVE FlattenSeq(t) = FlattenSeq(s) \o x
  <2>1. k = 1 /\ Len(t) = 1
    BY <1>1, <1>5
  <2>2. FlattenSeq(t) = t[k]
    BY ONLY <2>1, FlattenOne
  <2>3. s = <<>> /\ FlattenSeq(s) = s
    BY Zenon, <1>3, <1>5
  <2>4. FlattenSeq(s) \o x = x
    BY ONLY Zenon, <2>3, <1>4
  <2> QED
    BY ONLY Zenon, <2>2, <2>4, <1>2
<1>6. ASSUME n # 0 PROVE FlattenSeq(t) = FlattenSeq(s) \o x
  <2>1. /\ Len(s) \in Nat /\ Len(s) # 0 /\ Len(t) = Len(s) + 1
        /\ \A i \in 1 .. Len(s) : s[i] = t[i]
    BY ONLY <1>1, <1>6
  <2>2. FlattenSeq(t) = FlattenSeq(s) \o t[Len(t)]
    BY ONLY <2>1, FlattenOneMore
  <2>3. t[Len(t)] = x
    BY ONLY <1>1, <1>2
  <2> QED
    BY ONLY Zenon, <2>2, <2>3
<1>7. FlattenSeq(t) = FlattenSeq(s) \o x
  BY ONLY Zenon, <1>5, <1>6
<1> QED
  BY ONLY Zenon, <1>7 DEF t

LEMMA FlattenType ==
  ASSUME NEW S
  PROVE  \A s \in Seq(Seq(S)) : FlattenSeq(s) \in Seq(S)
<1> DEFINE N == {n \in Nat : \A s \in Seq(Seq(S)) : Len(s) = n => FlattenSeq(s) \in Seq(S)}
<1>1. 0 \in N
  <2>1. ASSUME NEW s \in Seq(Seq(S)), Len(s) = 0 PROVE FlattenSeq(s) \in Seq(S)
    <3>1. FlattenSeq(s) = s
      BY <2>1, Zenon DEF FlattenSeq
    <3>2. s = <<>>
      BY <2>1
    <3> QED
      BY <3>1, <3>2
  <2> QED
    BY <2>1
<1>2. ASSUME NEW n \in N PROVE n + 1 \in N
  <2>1. ASSUME NEW s \in Seq(Seq(S)), Len(s) = n + 1 PROVE FlattenSeq(s) \in Seq(S)
    <3>1. PICK t \in Seq(Seq(S)), x \in Seq(S) : s = Append(t, x) /\ Len(t) = n
      <4>1. /\ s = Append(SubSeq(s, 1, n), s[n+1])
            /\ SubSeq(s, 1, n) \in Seq(Seq(S)) /\ Len(SubSeq(s, 1, n)) = n
        BY <2>1
      <4>2. s[n+1] \in Seq(S)
        BY <2>1
      <4> QED
        BY <4>1, <4>2
    <3>2. FlattenSeq(t) \in Seq(S)
      BY <3>1
    <3>3. FlattenSeq(t) \o x \in Seq(S)
      BY <3>2, ConcatProperties
    <3> QED
      BY <3>1, <3>3, FlattenAppend
  <2> QED
    BY <2>1
<1>3. N \in SUBSET Nat
  OBVIOUS
<1> HIDE DEF N
<1>4. \A n \in Nat : n \in N
  BY <1>1, <1>2, <1>3, Induction
<1> QED
  BY <1>4 DEF N

\* Induction over sequences, with those a formula holds for as a set.
LEMMA SequenceInduction ==
  ASSUME NEW T, NEW P \in SUBSET Seq(T), <<>> \in P, \A s \in P, x \in T : Append(s, x) \in P
  PROVE  \A s \in Seq(T) : s \in P
<1> DEFINE N == {n \in Nat : \A s \in Seq(T) : Len(s) = n => s \in P}
<1>1. 0 \in N
  <2>1. \A s \in Seq(T) : Len(s) = 0 => s = <<>>
    OBVIOUS
  <2> QED
    BY <2>1
<1>2. ASSUME NEW n \in N PROVE n + 1 \in N
  <2>1. ASSUME NEW s \in Seq(T), Len(s) = n + 1 PROVE s \in P
    <3>1. s # <<>>
      BY <2>1
    <3>2. PICK t \in Seq(T), x \in T : s = Append(t, x)
      BY <3>1, SequenceEmptyOrAppend
    <3>3. Len(t) = n
      BY <2>1, <3>2
    <3> QED
      BY <3>2, <3>3
  <2> QED
    BY <2>1
<1>3. N \in SUBSET Nat
  OBVIOUS
<1> HIDE DEF N
<1>4. \A n \in Nat : n \in N
  BY <1>1, <1>2, <1>3, Induction
<1> QED
  BY <1>4 DEF N

-----------------------------------------------------------------------------
(* The recorder                                                             *)

\* Entries may be anything: sent is a sequence over some set.
SentIsSequence == \E S : sent \in Seq(S)

Typed ==
  /\ next \in Nat /\ next <= Len(sent)
  /\ opened \in Nat /\ opened <= next
  /\ writer \in {"up", "ended"} /\ recorder \in BOOLEAN
  /\ lines \in Seq(Int) /\ tail \in Int /\ tail >= Cut /\ tail <= next
  /\ flushAt \in Int /\ (flushAt # None => next <= flushAt /\ flushAt <= Len(sent))
  /\ ack \in {"none", "waiting", "ok", "err"}

\* Where the file stands: all lines are of entries the writer has taken, what
\* is behind the last newline is newer, and a writer that is up has found it
\* there when it opened the file, which it does not when that is no text.
Follows ==
  /\ writer = "ended" => next = Len(sent) /\ flushAt = None
  /\ \A i \in DOMAIN lines : lines[i] <= next /\ -lines[i] <= next /\ -lines[i] <= opened + 1
  /\ \A i, j \in DOMAIN lines : i < j /\ lines[i] > 0 /\ lines[j] > 0 => lines[i] < lines[j]
  /\ tail > 0 => \A i \in DOMAIN lines : lines[i] < tail /\ -lines[i] < tail
  /\ writer = "up" /\ tail # 0 => next = opened
  /\ tail = Cut => writer = "ended"

HasLine(n) == \E i \in DOMAIN lines : lines[i] = n \/ lines[i] = -n

\* A writer that is up has written all it has taken, so that a flush covers it.
Covered ==
  /\ writer = "up" => \A n \in opened + 1 .. next : HasLine(n)
  /\ \A n \in flushed : n \in 1 .. next /\ HasLine(n)

LogInv == SentIsSequence /\ Typed /\ Follows /\ Covered

\* What appending does to a sequence, whatever its elements are.
LEMMA AppendGrows ==
  ASSUME NEW s, \E S : s \in Seq(S), NEW x
  PROVE  /\ \E S : Append(s, x) \in Seq(S)
         /\ Len(s) \in Nat /\ Len(Append(s, x)) = Len(s) + 1
         /\ DOMAIN s = 1 .. Len(s)
<1>1. PICK S : s \in Seq(S)
  OBVIOUS
<1>2. s \in Seq(S \union {x}) /\ x \in S \union {x}
  BY <1>1
<1>3. Append(s, x) \in Seq(S \union {x})
  BY <1>2
<1>4. Len(s) \in Nat /\ Len(Append(s, x)) = Len(s) + 1 /\ DOMAIN s = 1 .. Len(s)
  BY <1>2
<1> QED
  BY <1>3, <1>4

LEMMA LineAppended ==
  ASSUME NEW s \in Seq(Int), NEW x \in Int
  PROVE  /\ Append(s, x) \in Seq(Int)
         /\ DOMAIN s = 1 .. Len(s) /\ Len(s) \in Nat
         /\ DOMAIN Append(s, x) = 1 .. Len(s) + 1
         /\ \A i \in DOMAIN s : Append(s, x)[i] = s[i] /\ s[i] \in Int
         /\ Append(s, x)[Len(s) + 1] = x
  OBVIOUS

LEMMA InitHolds == RolloutInit => LogInv
<1> SUFFICES ASSUME RolloutInit PROVE LogInv
  OBVIOUS
<1>1. SentIsSequence
  BY DEF SentIsSequence, RolloutInit
<1>2. Len(sent) = 0
  BY DEF RolloutInit
<1>3. Typed /\ Follows /\ Covered
  BY <1>2 DEF Typed, Follows, Covered, HasLine, RolloutInit, None, Torn, Cut
<1> QED
  BY <1>1, <1>3 DEF LogInv

\* A Send adds an entry at the end, or changes nothing.
LEMMA SendHolds ==
  ASSUME LogInv, NEW entry, Send(entry)
  PROVE  LogInv'
<1>1. CASE sent' = Append(sent, entry)
  <2>1. SentIsSequence' /\ Len(sent) \in Nat /\ Len(sent') = Len(sent) + 1
    BY <1>1, AppendGrows, Zenon DEF LogInv, SentIsSequence
  <2>2. writer = "up"
    <3>1. Len(sent') # Len(sent)
      BY <2>1
    <3> QED
      BY <3>1 DEF Send, LogInv, Typed
  <2>3. Typed' /\ Follows'
    BY <2>1, <2>2 DEF LogInv, Typed, Follows, Send
  <2>4. Covered'
    BY <2>1 DEF LogInv, Covered, HasLine, Send
  <2> QED
    BY <2>1, <2>3, <2>4 DEF LogInv
<1>2. CASE UNCHANGED sent
  BY <1>2 DEF LogInv, SentIsSequence, Typed, Follows, Covered, HasLine, Send
<1> QED
  BY <1>1, <1>2 DEF Send

LEMMA WriteLineHolds ==
  ASSUME LogInv, WriteLine
  PROVE  LogInv'
<1> DEFINE x == IF tail = 0 THEN next' ELSE -next'
<1>1. /\ next' = next + 1 /\ next \in Nat /\ next' \in Nat /\ x \in Int /\ (x = next' \/ x = -next')
      /\ next' <= Len(sent) /\ Len(sent) \in Nat /\ opened \in Nat /\ opened <= next
  <2>1. Len(sent) \in Nat
    BY AppendGrows, Zenon DEF LogInv, SentIsSequence
  <2> QED
    BY <2>1 DEF LogInv, Typed, WriteLine, HasEntry
<1>2. lines' = Append(lines, x) /\ lines \in Seq(Int)
  BY DEF WriteLine, LogInv, Typed
<1> HIDE DEF x
<1>3. /\ lines' \in Seq(Int) /\ DOMAIN lines = 1 .. Len(lines) /\ Len(lines) \in Nat
      /\ DOMAIN lines' = 1 .. Len(lines) + 1 /\ lines'[Len(lines) + 1] = x
      /\ \A i \in DOMAIN lines : lines'[i] = lines[i] /\ lines[i] \in Int
  BY <1>1, <1>2, LineAppended
<1>4. SentIsSequence' /\ Typed'
  BY <1>1, <1>3 DEF LogInv, SentIsSequence, Typed, WriteLine, HasEntry, None, Torn, Cut
<1>5. tail # 0 => next = opened
  BY DEF LogInv, Follows, WriteLine, HasEntry
<1>6. x > 0 => tail = 0
  BY <1>1 DEF x
<1>7. Follows'
  <2>1. writer' = "up" /\ tail' = 0 /\ opened' = opened
    BY DEF WriteLine, HasEntry
  <2>2. \A i \in DOMAIN lines' : lines'[i] <= next' /\ -lines'[i] <= next' /\ -lines'[i] <= opened' + 1
    <3> SUFFICES ASSUME NEW i \in DOMAIN lines'
                 PROVE  lines'[i] <= next' /\ -lines'[i] <= next' /\ -lines'[i] <= opened' + 1
      OBVIOUS
    <3>1. CASE i \in DOMAIN lines
      BY <3>1, <1>1, <1>3, <2>1 DEF LogInv, Follows
    <3>2. CASE i = Len(lines) + 1
      <4>1. tail = 0 => x = next'
        BY DEF x
      <4> QED
        BY <4>1, <3>2, <1>1, <1>3, <1>5, <2>1
    <3> QED
      BY <3>1, <3>2, <1>3
  <2>3. \A i, j \in DOMAIN lines' : i < j /\ lines'[i] > 0 /\ lines'[j] > 0 => lines'[i] < lines'[j]
    <3> SUFFICES ASSUME NEW i \in DOMAIN lines', NEW j \in DOMAIN lines', i < j,
                        lines'[i] > 0, lines'[j] > 0
                 PROVE  lines'[i] < lines'[j]
      OBVIOUS
    <3>1. i \in DOMAIN lines
      BY <1>3
    <3>2. CASE j \in DOMAIN lines
      BY <3>1, <3>2, <1>3 DEF LogInv, Follows
    <3>3. CASE j = Len(lines) + 1
      <4>1. lines'[j] = next' /\ lines'[i] = lines[i] /\ lines[i] <= next /\ lines[i] \in Int
        BY <3>1, <3>3, <1>1, <1>3 DEF LogInv, Follows
      <4> QED
        BY <4>1, <1>1
    <3> QED
      BY <3>2, <3>3, <1>3
  <2> QED
    BY <2>1, <2>2, <2>3 DEF Follows, Cut
<1>8. \A n \in Nat : HasLine(n) => HasLine(n)'
  <2> SUFFICES ASSUME NEW n \in Nat, HasLine(n) PROVE HasLine(n)'
    OBVIOUS
  <2>1. PICK i \in DOMAIN lines : lines[i] = n \/ lines[i] = -n
    BY DEF HasLine
  <2>2. i \in DOMAIN lines' /\ lines'[i] = lines[i]
    BY <1>3
  <2> QED
    BY <2>1, <2>2 DEF HasLine
<1>9. \E i \in DOMAIN lines' : lines'[i] = next' \/ lines'[i] = -next'
  <2>1. Len(lines) + 1 \in DOMAIN lines'
    BY <1>3
  <2> QED
    BY <2>1, <1>1, <1>3
<1>10. Covered'
  <2>1. \A n \in opened + 1 .. next' : HasLine(n)'
    <3> SUFFICES ASSUME NEW n \in opened + 1 .. next' PROVE HasLine(n)'
      OBVIOUS
    <3>1. CASE n = next'
      BY <3>1, <1>9 DEF HasLine
    <3>2. CASE n \in opened + 1 .. next
      <4>1. HasLine(n) /\ n \in Nat
        BY <3>2, <1>1 DEF LogInv, Covered, WriteLine, HasEntry
      <4> QED
        BY <4>1, <1>8
    <3> QED
      BY <3>1, <3>2, <1>1
  <2>2. \A n \in flushed : n \in 1 .. next' /\ HasLine(n)'
    <3> SUFFICES ASSUME NEW n \in flushed PROVE n \in 1 .. next' /\ HasLine(n)'
      OBVIOUS
    <3>1. n \in 1 .. next /\ HasLine(n)
      BY DEF LogInv, Covered
    <3>2. n \in Nat /\ n \in 1 .. next'
      BY <3>1, <1>1
    <3> QED
      BY <3>1, <3>2, <1>8
  <2> QED
    BY <2>1, <2>2 DEF Covered, WriteLine
<1> QED
  BY <1>4, <1>7, <1>10 DEF LogInv

\* What ends the writer drops the queue and may leave an unfinished line.
LEMMA EndHolds ==
  ASSUME LogInv, writer' = "ended", next' = Len(sent), flushAt' = None,
         tail' = tail \/ (HasEntry /\ tail' \in Unfinished),
         ack' \in {"none", "waiting", "ok", "err"},
         UNCHANGED <<sent, recorder, lines, flushed, opened>>
  PROVE  LogInv'
<1>1. Len(sent) \in Nat
  BY AppendGrows, Zenon DEF LogInv, SentIsSequence
<1>2. SentIsSequence' /\ next <= next' /\ next \in Nat /\ next' \in Nat
  BY <1>1 DEF LogInv, SentIsSequence, Typed
<1>3. tail' = tail \/ tail' = Torn \/ tail' = Cut \/ (tail' = next + 1 /\ next + 1 <= next')
  BY <1>1, <1>2 DEF Unfinished, HasEntry
<1>4. \A i \in DOMAIN lines : lines[i] \in Int /\ lines[i] <= next /\ -lines[i] <= next
  BY DEF LogInv, Typed, Follows
<1>5. Typed'
  BY <1>1, <1>2, <1>3 DEF LogInv, Typed, None, Torn, Cut
<1>6. Follows'
  <2>1. \A i \in DOMAIN lines : lines[i] <= next' /\ -lines[i] <= next'
    BY <1>2, <1>4
  <2>2. tail' > 0 => \A i \in DOMAIN lines : lines[i] < tail' /\ -lines[i] < tail'
    BY <1>2, <1>3, <1>4 DEF LogInv, Follows, Torn, Cut
  <2> QED
    BY <2>1, <2>2 DEF LogInv, Follows
<1>7. Covered'
  BY <1>2 DEF LogInv, Covered, HasLine
<1> QED
  BY <1>2, <1>5, <1>6, <1>7 DEF LogInv

LEMMA StepHolds == LogInv /\ [RolloutNext]_rollout => LogInv'
<1> SUFFICES ASSUME LogInv, [RolloutNext]_rollout PROVE LogInv'
  OBVIOUS
<1>0. Len(sent) \in Nat
  BY AppendGrows, Zenon DEF LogInv, SentIsSequence
<1>1. ASSUME NEW entry, Send(entry) PROVE LogInv'
  BY <1>1, SendHolds
<1>2. CASE WriteLine
  BY <1>2, WriteLineHolds
<1>3. CASE WriteFails
  <2>1. HasEntry /\ writer' = "ended" /\ next' = Len(sent) /\ tail' \in Unfinished /\ flushAt' = None
        /\ ack' \in {"none", "waiting", "ok", "err"} /\ UNCHANGED <<sent, recorder, lines, flushed, opened>>
    BY <1>3 DEF WriteFails, LogInv, Typed
  <2> QED
    BY <2>1, EndHolds
<1>4. CASE Flush
  BY <1>0, <1>4 DEF Flush, LogInv, SentIsSequence, Typed, Follows, Covered, HasLine, None
<1>5. CASE FlushDone
  <2>1. SentIsSequence' /\ Typed' /\ Follows'
    BY <1>0, <1>5 DEF FlushDone, LogInv, SentIsSequence, Typed, Follows, None
  <2>2. \A n : HasLine(n)' <=> HasLine(n)
    BY <1>5 DEF FlushDone, HasLine
  <2>3. next \in Nat /\ opened \in Nat /\ opened <= next /\ flushAt = next /\ writer = "up"
    BY <1>5 DEF FlushDone, LogInv, Typed
  <2>4. \A n \in flushed' : n \in 1 .. next /\ HasLine(n)
    <3> SUFFICES ASSUME NEW n \in flushed' PROVE n \in 1 .. next /\ HasLine(n)
      OBVIOUS
    <3>1. CASE n \in flushed
      BY <3>1 DEF LogInv, Covered
    <3>2. CASE n \in opened + 1 .. next
      BY <3>2, <2>3 DEF LogInv, Covered
    <3> QED
      BY <3>1, <3>2, <2>3, <1>5 DEF FlushDone
  <2>5. Covered'
    BY <2>2, <2>4, <1>5 DEF FlushDone, LogInv, Covered
  <2> QED
    BY <2>1, <2>5 DEF LogInv
<1>6. CASE ForgetFlush
  BY <1>0, <1>6 DEF ForgetFlush, LogInv, SentIsSequence, Typed, Follows, Covered, HasLine, None
<1>7. CASE TakeRecorder
  BY <1>0, <1>7 DEF TakeRecorder, LogInv, SentIsSequence, Typed, Follows, Covered, HasLine, None
<1>8. CASE ProcessEnds
  <2>1. writer' = "ended" /\ next' = Len(sent) /\ flushAt' = None
        /\ (tail' = tail \/ (HasEntry /\ tail' \in Unfinished))
        /\ ack' \in {"none", "waiting", "ok", "err"} /\ UNCHANGED <<sent, recorder, lines, flushed, opened>>
    BY <1>8 DEF ProcessEnds
  <2> QED
    BY <2>1, EndHolds
<1>9. CASE Reopen
  BY <1>0, <1>9 DEF Reopen, LogInv, SentIsSequence, Typed, Follows, Covered, HasLine, None
<1>10. CASE UNCHANGED rollout
  BY <1>10 DEF rollout, LogInv, SentIsSequence, Typed, Follows, Covered, HasLine
<1> QED
  BY <1>1, <1>2, <1>3, <1>4, <1>5, <1>6, <1>7, <1>8, <1>9, <1>10 DEF RolloutNext

\* The invariant is inductive.
THEOREM RolloutInvariance == RolloutSpec => []LogInv
<1> QED
  BY InitHolds, StepHolds, PTL DEF RolloutSpec

\* For any entries, any channel and any number of failures, crashes and
\* resumes: what a flush has acknowledged (recorder.rs, RolloutRecorder::flush)
\* keeps its line in the file, and is read back, in order, unless it is the
\* first entry of an opening or the file has been cut within a character.
THEOREM RolloutFlushedIsRead == RolloutSpec => []FlushedIsRead
<1>1. LogInv => FlushedIsRead
  <2> SUFFICES ASSUME LogInv PROVE FlushedIsRead
    OBVIOUS
  <2>1. \A i \in DOMAIN lines : lines[i] \in Int
    BY DEF LogInv, Typed
  <2>2. \A n \in flushed : \E i \in DOMAIN lines : lines[i] \in {n, -n}
    BY DEF LogInv, Covered, HasLine
  <2>3. ASSUME tail # Cut PROVE \A n \in flushed \ Readable : \E i \in DOMAIN lines : lines[i] = -n
    <3> SUFFICES ASSUME NEW n \in flushed, n \notin Readable
                 PROVE  \E i \in DOMAIN lines : lines[i] = -n
      OBVIOUS
    <3>1. n \in 1 .. next /\ HasLine(n) /\ next \in Nat /\ next <= Len(sent)
      BY DEF LogInv, Covered, Typed
    <3>2. Len(sent) \in Nat
      BY AppendGrows, Zenon DEF LogInv, SentIsSequence
    <3>3. n \in 1 .. Len(sent)
      BY <3>1, <3>2
    <3> QED
      BY <2>3, <3>1, <3>3 DEF Readable, Stored, HasLine
  <2>4. tail = Cut => writer = "ended"
    BY DEF LogInv, Follows
  <2> QED
    BY <2>1, <2>2, <2>3, <2>4 DEF LogInv, Follows, FlushedIsRead
<1> QED
  BY <1>1, RolloutInvariance, PTL

-----------------------------------------------------------------------------
(* The refinement of RolloutLog                                             *)

\* The end of the channel does not bound what is read.
LEMMA ReadableIs ==
  ASSUME NEW top \in Nat, NEW t \in Int, t <= top,
         NEW l, \A i \in DOMAIN l : l[i] \in Int /\ l[i] <= top
  PROVE  {n \in 1 .. top : n = t \/ \E i \in DOMAIN l : l[i] = n}
           = {n \in Nat \ {0} : n = t \/ \E i \in DOMAIN l : l[i] = n}
  OBVIOUS

Read == IF tail = Cut THEN {}
        ELSE {n \in Nat \ {0} : n = tail \/ \E i \in DOMAIN lines : lines[i] = n}

LEMMA ReadIsReadable == LogInv => Readable = Read /\ Len(sent) \in Nat
<1> SUFFICES ASSUME LogInv PROVE Readable = Read /\ Len(sent) \in Nat
  OBVIOUS
<1>1. Len(sent) \in Nat
  BY AppendGrows, Zenon DEF LogInv, SentIsSequence
<1>2. tail \in Int /\ tail <= Len(sent) /\ \A i \in DOMAIN lines : lines[i] \in Int /\ lines[i] <= Len(sent)
  BY <1>1 DEF LogInv, Typed, Follows
<1> QED
  BY <1>1, <1>2, ReadableIs DEF Readable, Stored, Read

\* A whole entry behind the last newline is the last one read, and no flush
\* has covered it.
LEMMA TailIsLast ==
  ASSUME LogInv, tail > 0
  PROVE  /\ tail \in Read /\ tail \notin flushed
         /\ \A k \in Read : k <= tail
         /\ \A i \in DOMAIN lines : lines[i] # tail
<1>1. /\ tail \in Nat \ {0}
      /\ \A i \in DOMAIN lines : lines[i] \in Int /\ lines[i] < tail /\ -lines[i] < tail
  BY DEF LogInv, Typed, Follows
<1>2. tail \in Read /\ (\A k \in Read : k <= tail) /\ \A i \in DOMAIN lines : lines[i] # tail
  BY <1>1 DEF Read, Cut
<1>3. tail \notin flushed
  <2>1. ~HasLine(tail)
    BY <1>1 DEF HasLine
  <2> QED
    BY <2>1 DEF LogInv, Covered
<1> QED
  BY <1>2, <1>3

promised == <<Len(sent), next, Readable, flushed \intersect Readable, tail # Cut>>
ReadsAll == Readable = Read

\* What becomes of the end of the file in a write that does not finish is one
\* of the outcomes RolloutLog allows, unless it spoils the file.
LEMMA UnfinishedIsOutcome ==
  ASSUME LogInv, Readable = Read, Readable' = Read', HasEntry,
         tail' \in Unfinished, tail' # Cut, UNCHANGED <<lines, flushed>>
  PROVE  Readable' \in Promise!Outcome(next + 1) /\ (flushed \intersect Readable)' = flushed \intersect Readable
<1>1. next \in Nat /\ tail \in Int /\ tail >= Cut /\ tail # Cut /\ \A n \in flushed : n \in 1 .. next
  BY DEF LogInv, Typed, Covered, Follows, HasEntry
<1>2. CASE tail' = tail
  BY <1>2 DEF Promise!Outcome, Read
<1>3. CASE tail' = Torn
  <2>1. CASE tail <= 0
    BY <1>1, <1>3, <2>1 DEF Promise!Outcome, Read, Torn, Cut
  <2>2. CASE tail > 0
    <3>1. Read' = Read \ {tail}
      BY <1>1, <1>3, <2>2, TailIsLast DEF Read, Torn, Cut
    <3> QED
      BY <3>1, <2>2, TailIsLast DEF Promise!Outcome
  <2> QED
    BY <2>1, <2>2, <1>1
<1>4. CASE tail = 0 /\ tail' = next + 1
  <2>1. Read' = Read \union {next + 1}
    BY <1>1, <1>4 DEF Read, Cut
  <2>2. next + 1 \notin flushed
    BY <1>1
  <2> QED
    BY <2>1, <2>2 DEF Promise!Outcome
<1> QED
  BY <1>2, <1>3, <1>4 DEF Unfinished

LEMMA WriteLineDecides ==
  ASSUME LogInv, Readable = Read, Readable' = Read', WriteLine
  PROVE  Promise!Decide
<1>1. /\ next \in Nat /\ tail \in Int /\ tail >= Torn /\ tail # Cut
      /\ lines \in Seq(Int) /\ next < Len(sent)
      /\ next' = next + 1 /\ \A n \in flushed : n \in 1 .. next
  BY DEF LogInv, Typed, Covered, Follows, WriteLine, HasEntry, Torn, Cut
<1> DEFINE x == IF tail = 0 THEN next' ELSE -next'
<1>2. lines' = Append(lines, x) /\ x \in Int /\ tail' = 0
  BY <1>1 DEF WriteLine
<1>3. x = IF tail = 0 THEN next + 1 ELSE -(next + 1)
  BY <1>1
<1> HIDE DEF x
<1>4. /\ DOMAIN lines = 1 .. Len(lines) /\ Len(lines) \in Nat
      /\ DOMAIN lines' = 1 .. Len(lines) + 1 /\ lines'[Len(lines) + 1] = x
      /\ \A i \in DOMAIN lines : lines'[i] = lines[i] /\ lines[i] \in Int
  BY <1>1, <1>2, LineAppended
<1>5. \A n \in Nat : (\E i \in DOMAIN lines' : lines'[i] = n)
                      <=> n = x \/ \E i \in DOMAIN lines : lines[i] = n
  BY <1>4
<1>6. Read' = {n \in Nat \ {0} : n = x \/ \E i \in DOMAIN lines : lines[i] = n}
  BY <1>2, <1>5 DEF Read, Cut
<1>7. Read = {n \in Nat \ {0} : n = tail \/ \E i \in DOMAIN lines : lines[i] = n}
  BY <1>1 DEF Read
<1>8. Readable' \in Promise!Outcome(next')
      /\ (flushed \intersect Readable)' = flushed \intersect Readable
  <2>1. CASE tail = 0
    <3>1. Read' = Read \union {next + 1} /\ next + 1 \notin flushed
      BY <1>1, <1>3, <1>6, <1>7, <2>1
    <3> QED
      BY <3>1, <1>1 DEF Promise!Outcome, WriteLine
  <2>2. CASE tail = Torn
    <3>1. Read' = Read
      BY <1>1, <1>3, <1>6, <1>7, <2>2 DEF Torn
    <3> QED
      BY <3>1 DEF Promise!Outcome, WriteLine
  <2>3. CASE tail > 0
    <3>1. Read' = Read \ {tail}
      BY <1>1, <1>3, <1>6, <1>7, <2>3, TailIsLast
    <3> QED
      BY <3>1, <2>3, TailIsLast DEF Promise!Outcome, WriteLine
  <2> QED
    BY <2>1, <2>2, <2>3, <1>1 DEF Torn
<1> QED
  BY <1>1, <1>2, <1>8 DEF Promise!Decide, WriteLine, Cut

\* The end of the writer decides on all that is queued, or spoils the file.
LEMMA EndInterrupts ==
  ASSUME LogInv, Readable = Read, Readable' = Read', next' = Len(sent),
         tail' = tail \/ (HasEntry /\ tail' \in Unfinished),
         UNCHANGED <<sent, lines, flushed>>
  PROVE  Promise!Interrupt \/ Promise!Spoil \/ UNCHANGED promised
<1>1. CASE tail = Cut
  <2>1. next = Len(sent) /\ tail' = tail
    BY <1>1 DEF LogInv, Follows, HasEntry
  <2> QED
    BY <1>1, <2>1 DEF promised, Read
<1>2. CASE tail # Cut /\ tail' = tail
  BY <1>2 DEF Promise!Interrupt, Promise!Outcome, Read
<1>3. CASE tail # Cut /\ HasEntry /\ tail' \in Unfinished /\ tail' # Cut
  <2>1. next < Len(sent)
    BY <1>3 DEF HasEntry
  <2>2. Readable' \in Promise!Outcome(next + 1)
        /\ (flushed \intersect Readable)' = flushed \intersect Readable
    BY <1>3, UnfinishedIsOutcome
  <2> QED
    BY <1>3, <2>1, <2>2 DEF Promise!Interrupt
<1>4. CASE tail # Cut /\ HasEntry /\ tail' = Cut
  <2>1. next < Len(sent) /\ Readable' = {}
    BY <1>4 DEF HasEntry, Read
  <2> QED
    BY <1>4, <2>1 DEF Promise!Spoil
<1> QED
  BY <1>1, <1>2, <1>3, <1>4

LEMMA StepImplements ==
  LogInv /\ ReadsAll /\ ReadsAll' /\ [RolloutNext]_rollout => [Promise!Next]_promised
<1> SUFFICES ASSUME LogInv, Readable = Read, Readable' = Read', [RolloutNext]_rollout
             PROVE  Promise!Next \/ UNCHANGED promised
  BY DEF ReadsAll
<1>0. tail = Cut => writer = "ended"
  BY DEF LogInv, Follows
<1> USE DEF Promise!Next
<1>1. ASSUME NEW entry, Send(entry) PROVE Promise!Next \/ UNCHANGED promised
  <2>1. /\ Readable' = Readable /\ (flushed \intersect Readable)' = flushed \intersect Readable
        /\ next' = next /\ tail' = tail
    BY <1>1 DEF Send, Read
  <2>2. CASE UNCHANGED sent
    BY <2>1, <2>2 DEF promised
  <2>3. CASE sent' = Append(sent, entry) /\ writer = "up"
    <3>1. Len(sent') = Len(sent) + 1
      BY <2>3, AppendGrows, Zenon DEF LogInv, SentIsSequence
    <3> QED
      BY <1>0, <2>1, <2>3, <3>1 DEF Promise!TakeIn
  <2> QED
    BY <2>2, <2>3, <1>1 DEF Send
<1>2. CASE WriteLine
  BY <1>2, WriteLineDecides
<1>3. CASE WriteFails
  BY <1>3, EndInterrupts DEF WriteFails
<1>4. CASE FlushDone
  <2>1. Readable' = Readable /\ flushed \subseteq flushed' /\ UNCHANGED <<sent, next, tail>> /\ tail # Cut
    BY <1>0, <1>4 DEF FlushDone, Read
  <2> QED
    BY <2>1 DEF Promise!Acknowledge
<1>5. CASE ProcessEnds
  <2>1. tail' = tail \/ (HasEntry /\ tail' \in Unfinished)
    BY <1>5 DEF ProcessEnds
  <2> QED
    BY <2>1, <1>5, EndInterrupts DEF ProcessEnds
<1>6. ASSUME UNCHANGED <<sent, next, lines, tail, flushed>>
      PROVE  UNCHANGED promised
  BY <1>6 DEF promised, Read
<1>7. CASE Flush \/ ForgetFlush \/ TakeRecorder \/ Reopen \/ UNCHANGED rollout
  BY <1>6, <1>7 DEF Flush, ForgetFlush, TakeRecorder, Reopen, rollout
<1> QED
  BY <1>1, <1>2, <1>3, <1>4, <1>5, <1>7 DEF RolloutNext

\* The recorder keeps the promises of RolloutLog (recorder.rs, rollout_writer
\* and get_rollout_history), whatever is recorded and whenever the writer or the
\* process ends: only an entry in hand when that happens can spoil the file.
THEOREM RolloutImplementsLog == RolloutSpec => ImplementsRolloutLog
<1>1. RolloutInit => Promise!Init
  BY DEF RolloutInit, Promise!Init, Readable, Stored, Cut
<1>2. LogInv => ReadsAll
  BY ReadIsReadable DEF ReadsAll
<1>3. LogInv /\ ReadsAll /\ ReadsAll' /\ [RolloutNext]_rollout
        => [Promise!Next]_<<Len(sent), next, Readable, flushed \intersect Readable, tail # Cut>>
  BY StepImplements DEF promised
<1> QED
  BY <1>1, <1>2, <1>3, RolloutInvariance, PTL DEF RolloutSpec, ImplementsRolloutLog, Promise!Spec
-----------------------------------------------------------------------------
(* The conversation                                                         *)

\* A step of the session is one of the recorder, or does not touch it.
LEMMA StepIsRecorders == [Next]_vars => [RolloutNext]_rollout
<1> SUFFICES ASSUME [Next]_vars PROVE RolloutNext \/ UNCHANGED rollout
  OBVIOUS
<1> USE DEF RolloutNext
<1>1. CASE Persist
  BY <1>1 DEF Persist
<1>2. CASE GhostSent
  BY <1>2 DEF GhostSent
<1>3. CASE StartTurn \/ StartGhost \/ GhostTaken \/ Reply \/ TurnEnds
  BY <1>3 DEF StartTurn, StartGhost, GhostTaken, Reply, TurnEnds, Quiet
<1>4. CASE Compact \/ Draft \/ AttemptCompletes \/ AttemptTooLong \/ AttemptFails
  BY <1>4 DEF Compact, Draft, AttemptCompletes, AttemptTooLong, AttemptFails, Quiet
<1>5. CASE Replace \/ RemoteReplace \/ RemoteFails
  BY <1>5 DEF Replace, RemoteReplace, RemoteFails, Quiet
<1>6. CASE StartUndo \/ Restored \/ RestoreFails
  BY <1>6 DEF StartUndo, Restored, RestoreFails, Quiet
<1>7. CASE StartFlush
  BY <1>7 DEF StartFlush
<1>8. CASE TaskEnds
  BY <1>8 DEF TaskEnds
<1>9. CASE Abort
  BY <1>9 DEF Abort
<1>10. CASE Shutdown
  BY <1>10 DEF Shutdown
<1>11. CASE Exit \/ Crash
  BY <1>11 DEF Exit, Crash, ProcessGone
<1>12. CASE Resume
  BY <1>12 DEF Resume
<1>13. CASE Writer \/ Fault
  BY <1>13 DEF Writer, Fault
<1>14. CASE UNCHANGED vars
  BY <1>14 DEF vars, rollout
<1> QED
  BY <1>1, <1>2, <1>3, <1>4, <1>5, <1>6, <1>7, <1>8, <1>9, <1>10, <1>11, <1>12, <1>13, <1>14
  DEF Next, Step

\* A conversation uses its recorder as Rollout says.
THEOREM ConversationUsesRollout == Spec => RolloutSpec
<1>1. Init => RolloutInit
  BY DEF Init
<1> QED
  BY <1>1, StepIsRecorders, PTL DEF Spec, RolloutSpec

\* In every conversation, what RolloutRecorder::flush has acknowledged keeps its
\* line in the file, and a resume that can read the file has it in the order of
\* recording, but for the first entry of an opening.
THEOREM ConversationFlushedIsRead == Spec => []FlushedIsRead
<1> QED
  BY ConversationUsesRollout, RolloutFlushedIsRead, PTL

\* In every conversation, the file keeps the promises of RolloutLog: entries
\* are decided on in order, and what has been acknowledged is lost only with
\* the whole file.
THEOREM ConversationImplementsLog == Spec => ImplementsRolloutLog
<1> QED
  BY ConversationUsesRollout, RolloutImplementsLog, PTL

-----------------------------------------------------------------------------
(* The items of some kinds                                                  *)

Of(kinds) == [kind : kinds, n : Nat]
Thing == Of(Kinds)

\* What becomes of an item.
Piece(x, kinds) == IF x.kind \in kinds THEN <<x>> ELSE <<>>
Pieces(s, kinds) == [i \in DOMAIN s |-> Piece(s[i], kinds)]

LEMMA OfKindsIs ==
  ASSUME NEW s, NEW kinds
  PROVE  OfKinds(s, kinds) = FlattenSeq(Pieces(s, kinds))
BY DEF OfKinds, Pieces, Piece

LEMMA OfWider ==
  ASSUME NEW kinds, NEW more, kinds \subseteq more
  PROVE  Of(kinds) \subseteq Of(more) /\ Seq(Of(kinds)) \subseteq Seq(Of(more))
<1>1. Of(kinds) \subseteq Of(more)
  BY DEF Of
<1> HIDE DEF Of
<1> QED
  BY <1>1

LEMMA PieceType ==
  ASSUME NEW x \in Thing, NEW kinds
  PROVE  Piece(x, kinds) \in Seq(Of(kinds)) /\ Piece(x, kinds) \in Seq(Thing)
<1>1. x.kind \in kinds => x \in Of(kinds)
  BY DEF Of, Thing
<1> HIDE DEF Of, Thing
<1> QED
  BY <1>1 DEF Piece

LEMMA PiecesType ==
  ASSUME NEW s \in Seq(Thing), NEW kinds
  PROVE  /\ Pieces(s, kinds) \in Seq(Seq(Of(kinds)))
         /\ Pieces(s, kinds) \in Seq(Seq(Thing))
         /\ Len(Pieces(s, kinds)) = Len(s)
<1> HIDE DEF Of, Thing
<1>1. \A i \in 1 .. Len(s) : Piece(s[i], kinds) \in Seq(Of(kinds)) /\ Piece(s[i], kinds) \in Seq(Thing)
  BY PieceType
<1>2. Pieces(s, kinds) = [i \in 1 .. Len(s) |-> Piece(s[i], kinds)]
  BY DEF Pieces
<1> QED
  BY <1>1, <1>2

LEMMA PiecesAppend ==
  ASSUME NEW s \in Seq(Thing), NEW x \in Thing, NEW kinds
  PROVE  Pieces(Append(s, x), kinds) = Append(Pieces(s, kinds), Piece(x, kinds))
<1> HIDE DEF Of, Thing
<1> DEFINE l == Pieces(Append(s, x), kinds)
           r == Append(Pieces(s, kinds), Piece(x, kinds))
           n == Len(s) + 1
<1>1. l \in Seq(Seq(Thing)) /\ Len(l) = n
  <2>1. Append(s, x) \in Seq(Thing) /\ Len(Append(s, x)) = n
    OBVIOUS
  <2> QED
    BY <2>1, PiecesType
<1>2. r \in Seq(Seq(Thing)) /\ Len(r) = n
  BY PiecesType, PieceType
<1>3. ASSUME NEW i \in 1 .. n PROVE l[i] = r[i]
  <2>1. l[i] = Piece(Append(s, x)[i], kinds)
    BY DEF Pieces
  <2>2. CASE i = n
    BY <2>1, <2>2, PiecesType, PieceType
  <2>3. CASE i # n
    <3>1. i \in DOMAIN s /\ Append(s, x)[i] = s[i] /\ i \in 1 .. Len(s)
      BY <2>3
    <3>2. r[i] = Pieces(s, kinds)[i]
      BY <3>1, PiecesType, PieceType
    <3> QED
      BY <2>1, <3>1, <3>2 DEF Pieces
  <2> QED
    BY <2>2, <2>3
<1> HIDE DEF l, r, n
<1> QED
  BY <1>1, <1>2, <1>3, SeqEqual DEF l, r

LEMMA OfKindsType ==
  ASSUME NEW s \in Seq(Thing), NEW kinds
  PROVE  OfKinds(s, kinds) \in Seq(Of(kinds)) /\ OfKinds(s, kinds) \in Seq(Thing)
BY PiecesType, FlattenType, OfKindsIs

LEMMA OfKindsEmpty ==
  ASSUME NEW kinds
  PROVE  OfKinds(<<>>, kinds) = <<>>
<1>1. <<>> \in Seq(Thing) /\ Len(<<>>) = 0
  OBVIOUS
<1>2. Pieces(<<>>, kinds) \in Seq(Seq(Thing)) /\ Len(Pieces(<<>>, kinds)) = 0
  BY <1>1, PiecesType
<1>3. Pieces(<<>>, kinds) = <<>>
  BY <1>2
<1>4. FlattenSeq(<<>>) = <<>>
  BY <1>1, Zenon DEF FlattenSeq
<1> QED
  BY <1>3, <1>4, OfKindsIs

LEMMA OfKindsAppend ==
  ASSUME NEW s \in Seq(Thing), NEW x \in Thing, NEW kinds
  PROVE  OfKinds(Append(s, x), kinds) = OfKinds(s, kinds) \o Piece(x, kinds)
<1>1. FlattenSeq(Append(Pieces(s, kinds), Piece(x, kinds))) = FlattenSeq(Pieces(s, kinds)) \o Piece(x, kinds)
  BY PiecesType, PieceType, FlattenAppend
<1> QED
  BY <1>1, PiecesAppend, OfKindsIs

LEMMA Associates ==
  ASSUME NEW r, NEW s, NEW t, r \in Seq(Thing), s \in Seq(Thing), t \in Seq(Thing)
  PROVE  (r \o s) \o t = r \o (s \o t)
BY ConcatAssociative

LEMMA OfKindsConcat ==
  ASSUME NEW s \in Seq(Thing), NEW t \in Seq(Thing), NEW kinds
  PROVE  OfKinds(s \o t, kinds) = OfKinds(s, kinds) \o OfKinds(t, kinds)
<1> HIDE DEF Thing
<1> DEFINE T(h) == OfKinds(h, kinds)
           p(x) == Piece(x, kinds)
<1>1. \A h \in Seq(Thing) : T(h) \in Seq(Thing)
  BY OfKindsType
<1>2. \A x \in Thing : p(x) \in Seq(Thing)
  BY PieceType
<1>3. \A h \in Seq(Thing), x \in Thing : T(Append(h, x)) = T(h) \o p(x)
  BY OfKindsAppend
<1>4. T(<<>>) = <<>>
  BY OfKindsEmpty
<1> HIDE DEF T, p
<1>5. ASSUME NEW h \in Seq(Thing), NEW x \in Thing
      PROVE  (T(s) \o T(h)) \o p(x) = T(s) \o (T(h) \o p(x))
  <2>1. T(s) \in Seq(Thing) /\ T(h) \in Seq(Thing) /\ p(x) \in Seq(Thing)
    BY <1>1, <1>2
  <2> QED
    BY <2>1, Associates
<1> DEFINE P == {h \in Seq(Thing) : T(s \o h) = T(s) \o T(h)}
<1>6. <<>> \in P
  <2>1. s \o <<>> = s /\ <<>> \in Seq(Thing)
    BY ConcatEmptySeq
  <2>2. T(s) \o <<>> = T(s)
    BY <1>1, ConcatEmptySeq
  <2> QED
    BY <1>4, <2>1, <2>2
<1>7. ASSUME NEW h \in P, NEW x \in Thing PROVE Append(h, x) \in P
  <2>1. s \o Append(h, x) = Append(s \o h, x) /\ s \o h \in Seq(Thing) /\ Append(h, x) \in Seq(Thing)
    OBVIOUS
  <2>2. T(s \o Append(h, x)) = (T(s) \o T(h)) \o p(x)
    BY <1>3, <2>1
  <2> QED
    BY <1>3, <1>5, <2>1, <2>2
<1>8. P \in SUBSET Seq(Thing)
  OBVIOUS
<1> HIDE DEF P
<1>9. t \in P
  BY <1>6, <1>7, <1>8, SequenceInduction
<1> QED
  BY <1>9 DEF P, T

\* Nothing is left out when all are of these kinds.
LEMMA OfKindsAll ==
  ASSUME NEW few \in SUBSET Kinds, NEW kinds, few \subseteq kinds
  PROVE  \A s \in Seq(Of(few)) : OfKinds(s, kinds) = s
<1>1. Of(few) \subseteq Thing /\ Seq(Of(few)) \subseteq Seq(Thing) /\ \A x \in Of(few) : x.kind \in kinds
  BY OfWider DEF Thing, Of
<1> HIDE DEF Of, Thing
<1> DEFINE P == {s \in Seq(Of(few)) : OfKinds(s, kinds) = s}
<1>2. <<>> \in P
  BY OfKindsEmpty
<1>3. ASSUME NEW s \in P, NEW x \in Of(few) PROVE Append(s, x) \in P
  <2>1. OfKinds(Append(s, x), kinds) = OfKinds(s, kinds) \o Piece(x, kinds)
    BY <1>1, OfKindsAppend
  <2>2. Piece(x, kinds) = <<x>>
    BY <1>1 DEF Piece
  <2>3. s \o <<x>> = Append(s, x)
    OBVIOUS
  <2> QED
    BY <2>1, <2>2, <2>3
<1>4. P \in SUBSET Seq(Of(few))
  OBVIOUS
<1> HIDE DEF P
<1>5. \A s \in Seq(Of(few)) : s \in P
  BY <1>2, <1>3, <1>4, SequenceInduction
<1> QED
  BY <1>5 DEF P

\* Nothing is found when none is.
LEMMA OfKindsNone ==
  ASSUME NEW few \in SUBSET Kinds, NEW kinds, few \cap kinds = {}
  PROVE  \A s \in Seq(Of(few)) : OfKinds(s, kinds) = <<>>
<1>1. Of(few) \subseteq Thing /\ Seq(Of(few)) \subseteq Seq(Thing) /\ \A x \in Of(few) : x.kind \notin kinds
  BY OfWider DEF Thing, Of
<1> HIDE DEF Of, Thing
<1> DEFINE P == {s \in Seq(Of(few)) : OfKinds(s, kinds) = <<>>}
<1>2. <<>> \in P
  BY OfKindsEmpty
<1>3. ASSUME NEW s \in P, NEW x \in Of(few) PROVE Append(s, x) \in P
  <2>1. OfKinds(Append(s, x), kinds) = OfKinds(s, kinds) \o Piece(x, kinds)
    BY <1>1, OfKindsAppend
  <2>2. Piece(x, kinds) = <<>> /\ <<>> \o <<>> = <<>>
    BY <1>1 DEF Piece
  <2> QED
    BY <2>1, <2>2
<1>4. P \in SUBSET Seq(Of(few))
  OBVIOUS
<1> HIDE DEF P
<1>5. \A s \in Seq(Of(few)) : s \in P
  BY <1>2, <1>3, <1>4, SequenceInduction
<1> QED
  BY <1>5 DEF P

\* Items of fewer kinds can be looked for among those of more.
LEMMA OfKindsTwice ==
  ASSUME NEW kinds, NEW few, few \subseteq kinds
  PROVE  \A s \in Seq(Thing) : OfKinds(OfKinds(s, kinds), few) = OfKinds(s, few)
<1> HIDE DEF Thing
<1> DEFINE P == {s \in Seq(Thing) : OfKinds(OfKinds(s, kinds), few) = OfKinds(s, few)}
<1>1. <<>> \in P
  BY OfKindsEmpty
<1>2. ASSUME NEW s \in P, NEW x \in Thing PROVE Append(s, x) \in P
  <2>1. OfKinds(Append(s, x), kinds) = OfKinds(s, kinds) \o Piece(x, kinds)
    BY OfKindsAppend
  <2>2. OfKinds(OfKinds(s, kinds) \o Piece(x, kinds), few)
          = OfKinds(s, few) \o OfKinds(Piece(x, kinds), few)
    <3>1. OfKinds(s, kinds) \in Seq(Thing) /\ Piece(x, kinds) \in Seq(Thing)
      BY OfKindsType, PieceType
    <3>2. OfKinds(OfKinds(s, kinds), few) = OfKinds(s, few)
      OBVIOUS
    <3>3. OfKinds(OfKinds(s, kinds) \o Piece(x, kinds), few)
            = OfKinds(OfKinds(s, kinds), few) \o OfKinds(Piece(x, kinds), few)
      BY ONLY <3>1, OfKindsConcat
    <3> QED
      BY ONLY Zenon, <3>2, <3>3
  <2>3. OfKinds(Piece(x, kinds), few) = Piece(x, few)
    <3>1. Append(<<>>, x) = <<x>> /\ <<>> \in Seq(Thing) /\ <<>> \o Piece(x, few) = Piece(x, few)
      BY PieceType, ConcatEmptySeq
    <3>2. OfKinds(<<x>>, few) = Piece(x, few)
      BY <3>1, OfKindsAppend, OfKindsEmpty
    <3> QED
      BY <3>2, OfKindsEmpty DEF Piece
  <2>4. OfKinds(Append(s, x), few) = OfKinds(s, few) \o Piece(x, few) /\ Append(s, x) \in Seq(Thing)
    BY OfKindsAppend
  <2> QED
    BY <2>1, <2>2, <2>3, <2>4
<1>3. P \in SUBSET Seq(Thing)
  OBVIOUS
<1> HIDE DEF P
<1>4. \A s \in Seq(Thing) : s \in P
  BY <1>1, <1>2, <1>3, SequenceInduction
<1> QED
  BY <1>4 DEF P

-----------------------------------------------------------------------------
(* What is shown of a history, and its snapshots                            *)

Clean == Of(Kinds \ {"draft"})
Plain == Kinds \ {"ghost", "draft"}
Summaries == Of({"summary"})

\* What the model is shown and the log is told: no snapshots, and no items of
\* a compaction that has failed.
Shown(s) == OfKinds(s, Plain)

GhostSet(s) == {s[i].n : i \in {j \in DOMAIN s : s[j].kind = "ghost"}}

LEMMA KindsAre ==
  /\ Plain \in SUBSET Kinds /\ Kinds \ {"draft"} \in SUBSET Kinds /\ Kinds \ {"ghost"} \in SUBSET Kinds
  /\ Seq(Clean) \subseteq Seq(Thing) /\ Clean \subseteq Thing
  /\ Summaries \subseteq Clean /\ Of(Plain) \subseteq Clean /\ Seq(Of(Plain)) \subseteq Seq(Clean)
<1>1. /\ Kinds \ {"draft"} \subseteq Kinds /\ {"summary"} \subseteq Kinds \ {"draft"}
      /\ Plain \subseteq Kinds \ {"draft"} /\ Plain \subseteq Kinds /\ Kinds \ {"ghost"} \subseteq Kinds
  BY DEF Kinds, Plain
<1> QED
  BY <1>1, OfWider DEF Clean, Thing, Summaries

LEMMA ShownAppend ==
  ASSUME NEW s \in Seq(Thing), NEW x \in Thing
  PROVE  /\ Append(s, x) \in Seq(Thing)
         /\ Shown(Append(s, x)) = IF x.kind \in Plain THEN Append(Shown(s), x) ELSE Shown(s)
<1> HIDE DEF Thing
<1>1. Shown(Append(s, x)) = Shown(s) \o Piece(x, Plain)
  BY OfKindsAppend DEF Shown
<1>2. Shown(s) \in Seq(Thing)
  BY OfKindsType DEF Shown
<1>3. Shown(s) \o <<>> = Shown(s) /\ Shown(s) \o <<x>> = Append(Shown(s), x)
  <2> DEFINE t == Shown(s)
  <2>1. t \in Seq(Thing)
    BY <1>2
  <2> HIDE DEF t
  <2>2. t \o <<>> = t /\ t \o <<x>> = Append(t, x)
    BY <2>1
  <2> QED
    BY <2>2 DEF t
<1>4. Append(s, x) \in Seq(Thing)
  OBVIOUS
<1> QED
  BY <1>1, <1>3, <1>4 DEF Piece

LEMMA ShownConcat ==
  ASSUME NEW s \in Seq(Thing), NEW t \in Seq(Thing)
  PROVE  s \o t \in Seq(Thing) /\ Shown(s \o t) = Shown(s) \o Shown(t) /\ Shown(s) \in Seq(Thing)
<1> HIDE DEF Thing
<1>1. s \o t \in Seq(Thing)
  OBVIOUS
<1> QED
  BY <1>1, OfKindsConcat, OfKindsType DEF Shown

\* Where there are no drafts, a prompt is what is shown.
LEMMA PromptIsShown ==
  ASSUME NEW s \in Seq(Clean)
  PROVE  Prompt(s) = Shown(s)
<1>1. \A i \in DOMAIN s : s[i].kind \in Kinds \ {"draft"}
  <2>1. \A x \in Clean : x.kind \in Kinds \ {"draft"}
    BY DEF Clean, Of
  <2>2. \A i \in DOMAIN s : s[i] \in Clean
    <3> HIDE DEF Clean
    <3> QED
      OBVIOUS
  <2> HIDE DEF Clean
  <2> QED
    BY <2>1, <2>2
<1>2. \A i \in DOMAIN s : s[i].kind \in Kinds \ {"ghost"} <=> s[i].kind \in Plain
  BY <1>1 DEF Plain
<1> QED
  BY <1>2 DEF Prompt, Shown, OfKinds

LEMMA GhostSetAppend ==
  ASSUME NEW s \in Seq(Thing), NEW x \in Thing
  PROVE  GhostSet(Append(s, x)) = IF x.kind = "ghost" THEN GhostSet(s) \union {x.n} ELSE GhostSet(s)
<1> HIDE DEF Thing
<1> DEFINE t == Append(s, x)
<1>1. /\ DOMAIN t = 1 .. Len(s) + 1 /\ DOMAIN s = 1 .. Len(s) /\ Len(s) \in Nat
      /\ t[Len(s) + 1] = x /\ \A i \in 1 .. Len(s) : t[i] = s[i]
  OBVIOUS
<1> HIDE DEF t
<1>2. GhostSet(t) = {t[i].n : i \in {j \in DOMAIN t : t[j].kind = "ghost"}}
  BY DEF GhostSet
<1>3. \A m : m \in GhostSet(t) <=> \E i \in DOMAIN t : t[i].kind = "ghost" /\ m = t[i].n
  BY <1>2
<1>4. \A m : m \in GhostSet(s) <=> \E i \in DOMAIN s : s[i].kind = "ghost" /\ m = s[i].n
  BY DEF GhostSet
<1>5. \A m : m \in GhostSet(t) <=> m \in GhostSet(s) \/ (x.kind = "ghost" /\ m = x.n)
  BY <1>1, <1>3, <1>4
<1> HIDE DEF GhostSet
<1> QED
  BY <1>5 DEF t

LEMMA GhostSetEmpty == GhostSet(<<>>) = {}
BY DEF GhostSet

LEMMA GhostSetConcat ==
  ASSUME NEW s \in Seq(Thing), NEW t \in Seq(Thing)
  PROVE  GhostSet(s \o t) = GhostSet(s) \union GhostSet(t)
<1> HIDE DEF Thing
<1> DEFINE u == s \o t
<1>1. /\ DOMAIN s = 1 .. Len(s) /\ Len(s) \in Nat /\ DOMAIN t = 1 .. Len(t) /\ Len(t) \in Nat
      /\ DOMAIN u = 1 .. Len(s) + Len(t)
      /\ \A i \in 1 .. Len(s) : u[i] = s[i]
      /\ \A i \in 1 .. Len(t) : u[Len(s) + i] = t[i]
  BY ConcatProperties
<1> HIDE DEF u
<1>2. \A m : m \in GhostSet(u) <=> \E i \in DOMAIN u : u[i].kind = "ghost" /\ m = u[i].n
  BY DEF GhostSet
<1>3. \A m : m \in GhostSet(s) <=> \E i \in DOMAIN s : s[i].kind = "ghost" /\ m = s[i].n
  BY DEF GhostSet
<1>4. \A m : m \in GhostSet(t) <=> \E i \in DOMAIN t : t[i].kind = "ghost" /\ m = t[i].n
  BY DEF GhostSet
<1> HIDE DEF GhostSet
<1>5. ASSUME NEW m, m \in GhostSet(u) PROVE m \in GhostSet(s) \union GhostSet(t)
  <2>1. PICK i \in DOMAIN u : u[i].kind = "ghost" /\ m = u[i].n
    BY <1>2, <1>5
  <2>2. CASE i \in 1 .. Len(s)
    BY <2>1, <2>2, <1>1, <1>3
  <2>3. CASE i \notin 1 .. Len(s)
    <3>1. i - Len(s) \in 1 .. Len(t) /\ Len(s) + (i - Len(s)) = i
      BY <2>3, <1>1
    <3> QED
      BY <3>1, <2>1, <1>1, <1>4
  <2> QED
    BY <2>2, <2>3
<1>6. ASSUME NEW m, m \in GhostSet(s) PROVE m \in GhostSet(u)
  BY <1>6, <1>1, <1>2, <1>3
<1>7. ASSUME NEW m, m \in GhostSet(t) PROVE m \in GhostSet(u)
  <2>1. PICK i \in DOMAIN t : t[i].kind = "ghost" /\ m = t[i].n
    BY <1>7, <1>4
  <2>2. Len(s) + i \in DOMAIN u
    BY <1>1
  <2> QED
    BY <2>1, <2>2, <1>1, <1>2
<1> QED
  BY <1>5, <1>6, <1>7 DEF u

LEMMA GhostSetNone ==
  ASSUME NEW few, "ghost" \notin few
  PROVE  \A s \in Seq(Of(few)) : GhostSet(s) = {}
<1>1. \A x \in Of(few) : x.kind # "ghost"
  BY DEF Of
<1> HIDE DEF Of
<1> QED
  BY <1>1 DEF GhostSet

\* The snapshots of a history are all of its snapshots.
LEMMA GhostsAreAll ==
  ASSUME NEW s \in Seq(Thing)
  PROVE  /\ Ghosts(s) \in Seq(Of({"ghost"})) /\ Ghosts(s) \in Seq(Clean)
         /\ GhostSet(Ghosts(s)) = GhostSet(s)
         /\ GhostSet(s) = {} => Ghosts(s) = <<>>
<1>1. Ghosts(s) \in Seq(Of({"ghost"}))
  BY OfKindsType DEF Ghosts
<1>2. Seq(Of({"ghost"})) \subseteq Seq(Clean)
  <2>1. {"ghost"} \subseteq Kinds \ {"draft"}
    BY DEF Kinds
  <2> QED
    BY <2>1, OfWider DEF Clean
<1> HIDE DEF Thing, Of, GhostSet
<1> DEFINE P == {h \in Seq(Thing) : /\ GhostSet(Ghosts(h)) = GhostSet(h)
                                    /\ GhostSet(h) = {} => Ghosts(h) = <<>>}
<1>3. <<>> \in P
  BY OfKindsEmpty DEF Ghosts
<1>4. ASSUME NEW h \in P, NEW x \in Thing PROVE Append(h, x) \in P
  <2>1. Ghosts(Append(h, x)) = Ghosts(h) \o Piece(x, {"ghost"})
    BY OfKindsAppend DEF Ghosts
  <2>2. Ghosts(h) \in Seq(Thing)
    BY OfKindsType DEF Ghosts
  <2>3. Ghosts(h) \o <<>> = Ghosts(h) /\ Ghosts(h) \o <<x>> = Append(Ghosts(h), x)
    <3> DEFINE t == Ghosts(h)
    <3>1. t \in Seq(Thing)
      BY <2>2
    <3> HIDE DEF t
    <3>2. t \o <<>> = t /\ t \o <<x>> = Append(t, x)
      BY <3>1
    <3> QED
      BY <3>2 DEF t
  <2>4. Ghosts(Append(h, x)) = IF x.kind = "ghost" THEN Append(Ghosts(h), x) ELSE Ghosts(h)
    BY <2>1, <2>3 DEF Piece
  <2>5. /\ GhostSet(Ghosts(h)) = GhostSet(h) /\ (GhostSet(h) = {} => Ghosts(h) = <<>>) /\ h \in Seq(Thing)
    OBVIOUS
  <2> HIDE DEF P
  <2>6. GhostSet(Ghosts(Append(h, x))) = GhostSet(Append(h, x))
    BY <2>2, <2>4, <2>5, GhostSetAppend
  <2>7. GhostSet(Append(h, x)) = {} => Ghosts(Append(h, x)) = <<>>
    BY <2>4, <2>5, GhostSetAppend
  <2>8. Append(h, x) \in Seq(Thing)
    BY <2>5
  <2> QED
    BY <2>6, <2>7, <2>8 DEF P
<1>5. P \in SUBSET Seq(Thing)
  OBVIOUS
<1> HIDE DEF P
<1>6. s \in P
  BY <1>3, <1>4, <1>5, SequenceInduction
<1> QED
  BY <1>1, <1>2, <1>6 DEF P

\* A history without one of its items.
LEMMA RemoveSplits ==
  ASSUME NEW s \in Seq(Thing), NEW k \in DOMAIN s
  PROVE  \E l, r \in Seq(Thing) : s = Append(l, s[k]) \o r /\ RemoveAt(s, k) = l \o r
<1> HIDE DEF Thing
<1> DEFINE l == SubSeq(s, 1, k-1)
           r == SubSeq(s, k+1, Len(s))
<1>1. k \in 1 .. Len(s) /\ Len(s) \in Nat /\ s[k] \in Thing
  OBVIOUS
<1>2. l \in Seq(Thing) /\ Len(l) = k - 1 /\ \A i \in 1 .. k - 1 : l[i] = s[i]
  BY <1>1
<1>3. r \in Seq(Thing) /\ Len(r) = Len(s) - k /\ \A i \in 1 .. Len(s) - k : r[i] = s[k+i]
  BY <1>1
<1> HIDE DEF l, r
<1>4. Append(l, s[k]) \in Seq(Thing) /\ Len(Append(l, s[k])) = k
      /\ \A i \in 1 .. k : Append(l, s[k])[i] = s[i]
  BY <1>1, <1>2
<1> DEFINE u == Append(l, s[k])
           w == u \o r
<1>5. w \in Seq(Thing) /\ Len(w) = Len(s)
  BY <1>1, <1>3, <1>4
<1>6. ASSUME NEW i \in 1 .. Len(s) PROVE w[i] = s[i]
  <2>1. CASE i \in 1 .. k
    BY <2>1, <1>1, <1>3, <1>4
  <2>2. CASE i \notin 1 .. k
    <3>1. i - k \in 1 .. Len(s) - k /\ k + (i - k) = i
      BY <2>2, <1>1
    <3>2. w[i] = r[i - k]
      <4>1. u \in Seq(Thing) /\ r \in Seq(Thing) /\ Len(u) = k /\ Len(r) = Len(s) - k
        BY <1>3, <1>4
      <4> HIDE DEF u
      <4> QED
        BY <3>1, <4>1, <2>2, <1>1
    <3> QED
      BY <3>1, <3>2, <1>3
  <2> QED
    BY <2>1, <2>2
<1>7. w = s
  <2> HIDE DEF w
  <2> QED
    BY <1>5, <1>6, SeqEqual
<1>8. RemoveAt(s, k) = l \o r
  BY DEF RemoveAt, l, r
<1> QED
  BY <1>2, <1>3, <1>7, <1>8

LEMMA LastGhostIs ==
  ASSUME NEW s \in Seq(Thing), GhostSet(s) # {}
  PROVE  LastGhost(s) \in DOMAIN s /\ s[LastGhost(s)].kind = "ghost"
<1> HIDE DEF Thing
<1> DEFINE n == Len(s)
           T == {m \in 1 .. n : s[n+1-m].kind = "ghost"}
<1>1. n \in Nat /\ DOMAIN s = 1 .. n
  OBVIOUS
<1> HIDE DEF n
<1>2. PICK i \in DOMAIN s : s[i].kind = "ghost"
  BY DEF GhostSet
<1>3. T # {}
  <2>1. n + 1 - i \in 1 .. n /\ n + 1 - (n + 1 - i) = i
    BY <1>1
  <2> QED
    BY <2>1, <1>2
<1>4. PICK x \in T : \A y \in T : x <= y
  <2>1. T \in SUBSET (1 .. n)
    OBVIOUS
  <2> HIDE DEF T
  <2> QED
    BY <1>1, <1>3, <2>1, Least
<1> DEFINE k == n + 1 - x
<1>5. k \in DOMAIN s /\ s[k].kind = "ghost"
  BY <1>1
<1>6. \A j \in k + 1 .. n : s[j].kind # "ghost"
  <2>1. ASSUME NEW j \in k + 1 .. n, s[j].kind = "ghost" PROVE FALSE
    <3>1. n + 1 - j \in 1 .. n /\ n + 1 - (n + 1 - j) = j /\ n + 1 - j < x
      BY <1>1
    <3>2. n + 1 - j \in T
      BY <2>1, <3>1
    <3> QED
      BY <1>1, <1>4, <3>1, <3>2
  <2> QED
    BY <2>1
<1> HIDE DEF k
<1> QED
  BY <1>5, <1>6 DEF LastGhost, n

\* What an undo leaves.
LEMMA GhostRemoved ==
  ASSUME NEW s \in Seq(Thing), GhostSet(s) # {}
  PROVE  LET t == RemoveAt(s, LastGhost(s))
         IN  /\ t \in Seq(Thing) /\ Shown(t) = Shown(s)
             /\ GhostSet(t) \subseteq GhostSet(s)
             /\ \A m \in GhostSet(s) \ GhostSet(t) : s[LastGhost(s)].n = m
<1> HIDE DEF Thing, GhostSet
<1> DEFINE k == LastGhost(s)
           x == s[k]
<1>1. k \in DOMAIN s /\ x.kind = "ghost"
  BY LastGhostIs
<1>2. x \in Thing
  BY <1>1
<1>3. PICK l \in Seq(Thing), r \in Seq(Thing) : s = Append(l, x) \o r /\ RemoveAt(s, k) = l \o r
  BY <1>1, RemoveSplits
<1> HIDE DEF k, x
<1>4. Append(l, x) \in Seq(Thing) /\ l \o r \in Seq(Thing)
  BY <1>2
<1> DEFINE u == Append(l, x)
<1>5. u \in Seq(Thing) /\ s = u \o r
  BY <1>3, <1>4
<1>6. Shown(s) = Shown(l) \o Shown(r) /\ Shown(l \o r) = Shown(l) \o Shown(r)
  <2>1. x.kind \notin Plain
    BY <1>1 DEF Plain
  <2>2. Shown(u) = Shown(l)
    BY <2>1, <1>2, ShownAppend
  <2> HIDE DEF u
  <2>3. Shown(u \o r) = Shown(u) \o Shown(r) /\ Shown(l \o r) = Shown(l) \o Shown(r)
    BY <1>5, ShownConcat
  <2> QED
    BY <2>2, <2>3, <1>5
<1>7. GhostSet(s) = (GhostSet(l) \union {x.n}) \union GhostSet(r) /\ GhostSet(l \o r) = GhostSet(l) \union GhostSet(r)
  <2>1. GhostSet(u) = GhostSet(l) \union {x.n}
    BY <1>1, <1>2, GhostSetAppend
  <2> HIDE DEF u
  <2>2. GhostSet(u \o r) = GhostSet(u) \union GhostSet(r) /\ GhostSet(l \o r) = GhostSet(l) \union GhostSet(r)
    BY <1>5, GhostSetConcat
  <2> QED
    BY <2>1, <2>2, <1>5
<1> QED
  BY <1>3, <1>4, <1>6, <1>7 DEF k, x

-----------------------------------------------------------------------------
(* The rebuild of a history from its log                                    *)

Locals == [kind : {"compacted"}, by : {"local"}, with : [1 .. 1 -> Summaries]]
Remotes == [kind : {"compacted"}, by : {"remote"}, with : Seq(Clean)]

\* The entries of a rollout: never an item of a compaction attempt.
Logged == Clean \union Locals \union Remotes

LEMMA CompactedType ==
  ASSUME NEW s \in Seq(Thing), NEW x \in Summaries
  PROVE  Compacted(s, x) \in Seq(Of(Plain)) /\ Compacted(s, x) \in Seq(Clean)
<1> HIDE DEF Thing, Of
<1> DEFINE asked == OfKinds(s, {"user"})
           first == IF Len(asked) > KeptUsers THEN Len(asked) - KeptUsers + 1 ELSE 1
           kept == SubSeq(asked, first, Len(asked))
<1>1. asked \in Seq(Of({"user"}))
  BY OfKindsType
<1>2. kept \in Seq(Of({"user"}))
  <2> HIDE DEF asked
  <2>1. Len(asked) \in Nat /\ first \in Nat \ {0}
    BY <1>1, ConversationAssumption
  <2> HIDE DEF first
  <2> QED
    BY <1>1, <2>1
<1>3. Of({"user"}) \subseteq Of(Plain) /\ Summaries \subseteq Of(Plain) /\ Context \in Of(Plain)
  BY DEF Plain, Kinds, Of, Summaries, Context, Item
<1>4. Compacted(s, x) = <<Context>> \o kept \o <<x>>
  BY DEF Compacted
<1> HIDE DEF kept
<1>5. <<Context>> \in Seq(Of(Plain)) /\ kept \in Seq(Of(Plain)) /\ <<x>> \in Seq(Of(Plain))
  BY <1>2, <1>3
<1> QED
  BY <1>4, <1>5, KindsAre, ConcatProperties

\* Compaction sees no more than what is shown.
LEMMA CompactedShown ==
  ASSUME NEW s \in Seq(Thing), NEW t \in Seq(Thing), Shown(s) = Shown(t), NEW x
  PROVE  Compacted(s, x) = Compacted(t, x)
<1>1. {"user"} \subseteq Plain
  BY DEF Plain, Kinds
<1>2. OfKinds(Shown(s), {"user"}) = OfKinds(s, {"user"}) /\ OfKinds(Shown(t), {"user"}) = OfKinds(t, {"user"})
  BY <1>1, OfKindsTwice DEF Shown
<1> QED
  BY <1>2 DEF Compacted

LEMMA LoggedIs ==
  ASSUME NEW e \in Logged
  PROVE  \/ e \in Clean /\ e.kind # "compacted"
         \/ e.kind = "compacted" /\ e.by = "local" /\ e.with[1] \in Summaries
         \/ e.kind = "compacted" /\ e.by = "remote" /\ e.with \in Seq(Clean)
<1>1. e \in Clean => e.kind # "compacted"
  BY DEF Clean, Of, Kinds
<1> HIDE DEF Clean, Summaries
<1>2. e \in Locals => e.kind = "compacted" /\ e.by = "local" /\ e.with[1] \in Summaries
  BY DEF Locals
<1>3. e \in Remotes => e.kind = "compacted" /\ e.by = "remote" /\ e.with \in Seq(Clean)
  BY DEF Remotes
<1> QED
  BY <1>1, <1>2, <1>3 DEF Logged

LEMMA ReplayedType ==
  ASSUME NEW s \in Seq(Clean), NEW e \in Logged
  PROVE  Replayed(s, e) \in Seq(Clean)
<1> HIDE DEF Clean
<1>1. s \in Seq(Thing)
  BY KindsAre
<1>2. CASE e \in Clean /\ e.kind # "compacted"
  BY <1>2 DEF Replayed
<1>3. CASE e.kind = "compacted" /\ e.by = "local" /\ e.with[1] \in Summaries
  BY <1>1, <1>3, CompactedType DEF Replayed
<1>4. CASE e.kind = "compacted" /\ e.by = "remote" /\ e.with \in Seq(Clean)
  BY <1>4 DEF Replayed
<1> QED
  BY <1>2, <1>3, <1>4, LoggedIs

\* Histories that show the same still do after one more entry.
LEMMA ReplayedShown ==
  ASSUME NEW s \in Seq(Thing), NEW t \in Seq(Thing), Shown(s) = Shown(t), NEW e \in Logged
  PROVE  Shown(Replayed(s, e)) = Shown(Replayed(t, e))
<1> HIDE DEF Thing, Clean
<1>1. CASE e \in Clean /\ e.kind # "compacted"
  <2>1. e \in Thing
    BY <1>1, KindsAre
  <2>2. Replayed(s, e) = Append(s, e) /\ Replayed(t, e) = Append(t, e)
    BY <1>1 DEF Replayed
  <2> QED
    BY <2>1, <2>2, ShownAppend
<1>2. CASE e.kind = "compacted" /\ e.by = "local" /\ e.with[1] \in Summaries
  BY <1>2, CompactedShown DEF Replayed
<1>3. CASE e.kind = "compacted" /\ e.by = "remote" /\ e.with \in Seq(Clean)
  BY <1>3 DEF Replayed
<1> QED
  BY <1>1, <1>2, <1>3, LoggedIs

\* The function Reconstruct is defined by, up to the n-th entry.
Rebuilds(f, es, n) == f = [i \in 0 .. n |-> IF i = 0 THEN <<>> ELSE Replayed(f[i-1], es[i])]

LEMMA ReconstructIs ==
  ASSUME NEW es
  PROVE  Reconstruct(es) = (CHOOSE f : Rebuilds(f, es, Len(es)))[Len(es)]
BY Zenon DEF Reconstruct, Rebuilds

LEMMA RebuildsAt ==
  ASSUME NEW es, NEW n \in Nat, NEW f, Rebuilds(f, es, n)
  PROVE  f[0] = <<>> /\ \A i \in 1 .. n : f[i] = Replayed(f[i-1], es[i])
<1> DEFINE g(i) == IF i = 0 THEN <<>> ELSE Replayed(f[i-1], es[i])
<1>1. f = [i \in 0 .. n |-> g(i)]
  BY DEF Rebuilds
<1> HIDE DEF g
<1>2. \A i \in 0 .. n : f[i] = g(i)
  BY <1>1
<1>3. \A i \in 1 .. n : i \in 0 .. n /\ i # 0
  OBVIOUS
<1>4. 0 \in 0 .. n
  OBVIOUS
<1> QED
  BY <1>2, <1>3, <1>4 DEF g

LEMMA RebuildExists ==
  ASSUME NEW es
  PROVE  \A n \in Nat : \E f : Rebuilds(f, es, n)
<1> DEFINE S == {n \in Nat : \E f : Rebuilds(f, es, n)}
<1>1. 0 \in S
  <2> DEFINE f == [i \in 0 .. 0 |-> <<>>]
  <2>1. f = [i \in 0 .. 0 |-> IF i = 0 THEN <<>> ELSE Replayed(f[i-1], es[i])]
    <3>1. \A i \in 0 .. 0 : i = 0
      OBVIOUS
    <3> QED
      BY <3>1, Zenon
  <2>2. Rebuilds(f, es, 0)
    BY <2>1, Zenon DEF Rebuilds
  <2> HIDE DEF f
  <2> QED
    BY <2>2
<1>2. ASSUME NEW n \in S PROVE n + 1 \in S
  <2>1. PICK g : Rebuilds(g, es, n)
    OBVIOUS
  <2>2. g[0] = <<>> /\ \A i \in 1 .. n : g[i] = Replayed(g[i-1], es[i])
    BY <2>1, RebuildsAt
  <2> DEFINE last == Replayed(g[n], es[n+1])
             f == [i \in 0 .. n + 1 |-> IF i = n + 1 THEN last ELSE g[i]]
  <2>3. (\A i \in 0 .. n : f[i] = g[i]) /\ f[n+1] = last
    <3> HIDE DEF last
    <3> QED
      OBVIOUS
  <2>4. f = [i \in 0 .. n + 1 |-> f[i]]
    <3> HIDE DEF last
    <3> QED
      OBVIOUS
  <2>5. ASSUME NEW i \in 0 .. n + 1
        PROVE  f[i] = IF i = 0 THEN <<>> ELSE Replayed(f[i-1], es[i])
    <3> HIDE DEF f
    <3>1. CASE i = 0
      <4>1. 0 \in 0 .. n
        OBVIOUS
      <4> QED
        BY <4>1, <3>1, <2>2, <2>3
    <3>2. CASE i \in 1 .. n
      <4>1. i - 1 \in 0 .. n /\ i \in 0 .. n /\ i # 0
        BY <3>2
      <4>2. f[i] = g[i] /\ f[i-1] = g[i-1]
        BY <4>1, <2>3
      <4>3. g[i] = Replayed(g[i-1], es[i])
        BY <3>2, <2>2
      <4> QED
        BY <4>1, <4>2, <4>3
    <3>3. CASE i = n + 1
      <4>1. i # 0 /\ i - 1 = n /\ n \in 0 .. n
        BY <3>3
      <4>2. f[i-1] = g[n] /\ f[i] = last
        BY <4>1, <3>3, <2>3
      <4> QED
        BY <4>1, <4>2, <3>3
    <3> QED
      BY <3>1, <3>2, <3>3
  <2>6. Rebuilds(f, es, n + 1)
    <3> HIDE DEF f
    <3> QED
      BY <2>4, <2>5, Zenon DEF Rebuilds
  <2> HIDE DEF f
  <2> QED
    BY <2>6
<1>3. S \in SUBSET Nat
  OBVIOUS
<1> HIDE DEF S
<1>4. \A n \in Nat : n \in S
  BY <1>1, <1>2, <1>3, Induction
<1> QED
  BY <1>4 DEF S

\* Logs that begin alike are rebuilt alike.
LEMMA RebuildUnique ==
  ASSUME NEW es, NEW fs, NEW n \in Nat, NEW m \in Nat, n <= m,
         \A i \in 1 .. n : es[i] = fs[i],
         NEW f, NEW g, Rebuilds(f, es, n), Rebuilds(g, fs, m)
  PROVE  f[n] = g[n]
<1> DEFINE S == {i \in Nat : i \in 0 .. n => f[i] = g[i]}
<1>1. f[0] = <<>> /\ g[0] = <<>>
  BY RebuildsAt
<1>2. 0 \in S
  BY <1>1
<1>3. ASSUME NEW i \in S PROVE i + 1 \in S
  <2> SUFFICES ASSUME i + 1 \in 0 .. n PROVE f[i+1] = g[i+1]
    OBVIOUS
  <2>1. i \in 0 .. n /\ f[i] = g[i] /\ (i + 1) - 1 = i /\ i + 1 \in 1 .. n /\ i + 1 \in 1 .. m
    OBVIOUS
  <2> HIDE DEF S
  <2>2. f[i+1] = Replayed(f[(i+1)-1], es[i+1])
    BY <2>1, RebuildsAt
  <2>3. g[i+1] = Replayed(g[(i+1)-1], fs[i+1])
    BY <2>1, RebuildsAt
  <2> QED
    BY <2>1, <2>2, <2>3
<1>4. S \in SUBSET Nat
  OBVIOUS
<1> HIDE DEF S
<1>5. \A i \in Nat : i \in S
  BY <1>2, <1>3, <1>4, Induction
<1>6. n \in 0 .. n
  OBVIOUS
<1> QED
  BY <1>5, <1>6 DEF S

LEMMA RebuiltBy ==
  ASSUME NEW es, NEW fs, NEW n \in Nat, NEW m \in Nat, n <= m, Len(es) = n,
         \A i \in 1 .. n : es[i] = fs[i], NEW g, Rebuilds(g, fs, m)
  PROVE  Reconstruct(es) = g[n]
<1> DEFINE f == CHOOSE f : Rebuilds(f, es, n)
<1>1. Reconstruct(es) = f[n]
  BY ReconstructIs
<1>2. Rebuilds(f, es, n)
  BY RebuildExists
<1> HIDE DEF f
<1>3. f[n] = g[n]
  <2>1. /\ n \in Nat /\ m \in Nat /\ n <= m /\ Rebuilds(f, es, n) /\ Rebuilds(g, fs, m)
        /\ \A i \in 1 .. n : es[i] = fs[i]
    BY <1>2
  <2> QED
    BY ONLY <2>1, RebuildUnique
<1> QED
  BY <1>1, <1>3

LEMMA RebuiltOneMore ==
  ASSUME NEW es, NEW fs, NEW n \in Nat, NEW k, k = n + 1, Len(es) = n, Len(fs) = k,
         \A i \in 1 .. n : es[i] = fs[i]
  PROVE  Reconstruct(fs) = Replayed(Reconstruct(es), fs[k])
<1>1. k \in Nat /\ n <= k /\ k <= k /\ k - 1 = n /\ k \in 1 .. k
  OBVIOUS
<1>2. PICK g : Rebuilds(g, fs, k)
  BY <1>1, RebuildExists
<1>3. Reconstruct(es) = g[n]
  BY <1>1, <1>2, RebuiltBy
<1>4. Reconstruct(fs) = g[k]
  BY <1>1, <1>2, RebuiltBy
<1>5. g[k] = Replayed(g[k-1], fs[k])
  BY <1>1, <1>2, RebuildsAt
<1> QED
  BY <1>1, <1>3, <1>4, <1>5

LEMMA ReconstructNone == Reconstruct(<<>>) = <<>>
<1>1. Len(<<>>) = 0 /\ 0 \in Nat /\ 0 <= 0 /\ \A i \in 1 .. 0 : <<>>[i] = <<>>[i]
  OBVIOUS
<1>2. PICK g : Rebuilds(g, <<>>, 0)
  BY <1>1, RebuildExists
<1>3. Reconstruct(<<>>) = g[0]
  BY <1>1, <1>2, RebuiltBy
<1> QED
  BY <1>1, <1>2, <1>3, RebuildsAt

LEMMA ReconstructAppend ==
  ASSUME NEW es \in Seq(Logged), NEW e
  PROVE  Reconstruct(Append(es, e)) = Replayed(Reconstruct(es), e)
<1> HIDE DEF Logged
<1> DEFINE fs == Append(es, e)
           n == Len(es)
           k == n + 1
<1>1. n \in Nat /\ Len(fs) = k /\ fs[k] = e /\ \A i \in 1 .. n : es[i] = fs[i]
  OBVIOUS
<1>2. k = n + 1 /\ Len(es) = n
  OBVIOUS
<1> HIDE DEF fs, n, k
<1>3. Reconstruct(fs) = Replayed(Reconstruct(es), fs[k])
  BY <1>1, <1>2, RebuiltOneMore
<1> QED
  BY <1>1, <1>3 DEF fs

LEMMA ReconstructType ==
  ASSUME NEW es \in Seq(Logged)
  PROVE  Reconstruct(es) \in Seq(Clean) /\ Reconstruct(es) \in Seq(Thing)
<1> HIDE DEF Logged, Clean
<1> DEFINE P == {s \in Seq(Logged) : Reconstruct(s) \in Seq(Clean)}
<1>1. <<>> \in P
  <2>1. <<>> \in Seq(Logged) /\ <<>> \in Seq(Clean)
    OBVIOUS
  <2> QED
    BY <2>1, ReconstructNone
<1>2. ASSUME NEW s \in P, NEW e \in Logged PROVE Append(s, e) \in P
  <2>1. Reconstruct(Append(s, e)) = Replayed(Reconstruct(s), e)
    BY ReconstructAppend
  <2> QED
    BY <2>1, ReplayedType
<1>3. P \in SUBSET Seq(Logged)
  OBVIOUS
<1> HIDE DEF P
<1>4. es \in P
  BY <1>1, <1>2, <1>3, SequenceInduction
<1> QED
  BY <1>4, KindsAre DEF P

\* The entries with these numbers, of those sent.
EntriesOf(s, numbers) ==
  FlattenSeq([n \in DOMAIN s |-> IF n \in numbers THEN <<s[n]>> ELSE <<>>])

LEMMA ChosenType ==
  ASSUME NEW s \in Seq(Logged), NEW numbers
  PROVE  LET p == [n \in DOMAIN s |-> IF n \in numbers THEN <<s[n]>> ELSE <<>>]
         IN  p \in Seq(Seq(Logged)) /\ Len(p) = Len(s)
<1> HIDE DEF Logged
<1> DEFINE chosen(n) == IF n \in numbers THEN <<s[n]>> ELSE <<>>
<1>1. \A n \in 1 .. Len(s) : chosen(n) \in Seq(Logged)
  OBVIOUS
<1>2. DOMAIN s = 1 .. Len(s) /\ Len(s) \in Nat
  OBVIOUS
<1> DEFINE p == [n \in 1 .. Len(s) |-> chosen(n)]
<1>3. p \in Seq(Seq(Logged)) /\ Len(p) = Len(s)
  <2> HIDE DEF chosen
  <2> QED
    BY <1>1, <1>2
<1> QED
  BY <1>2, <1>3

LEMMA EntriesAre ==
  ASSUME NEW s \in Seq(Logged), NEW numbers
  PROVE  EntriesOf(s, numbers) \in Seq(Logged)
<1> HIDE DEF Logged
<1> DEFINE p == [n \in DOMAIN s |-> IF n \in numbers THEN <<s[n]>> ELSE <<>>]
<1>1. p \in Seq(Seq(Logged))
  BY ChosenType
<1> HIDE DEF p
<1>2. FlattenSeq(p) \in Seq(Logged)
  BY <1>1, FlattenType
<1> QED
  BY <1>2 DEF p, EntriesOf

LEMMA EntriesNone ==
  ASSUME NEW numbers
  PROVE  EntriesOf(<<>>, numbers) = <<>>
<1> DEFINE p == [n \in DOMAIN <<>> |-> IF n \in numbers THEN <<<<>>[n]>> ELSE <<>>]
<1>1. p = <<>> /\ Len(<<>>) = 0
  OBVIOUS
<1>2. FlattenSeq(<<>>) = <<>>
  BY <1>1, Zenon DEF FlattenSeq
<1> QED
  BY <1>1, <1>2 DEF EntriesOf

\* What is sent next comes last.
LEMMA EntriesAppend ==
  ASSUME NEW s \in Seq(Logged), NEW e \in Logged, NEW numbers \in SUBSET (1 .. Len(s))
  PROVE  EntriesOf(Append(s, e), numbers \union {Len(s) + 1}) = Append(EntriesOf(s, numbers), e)
<1> HIDE DEF Logged
<1> DEFINE more == numbers \union {Len(s) + 1}
           p == [n \in DOMAIN s |-> IF n \in numbers THEN <<s[n]>> ELSE <<>>]
           t == Append(s, e)
           q == [n \in DOMAIN t |-> IF n \in more THEN <<t[n]>> ELSE <<>>]
           r == Append(p, <<e>>)
           k == Len(s) + 1
<1>1. p \in Seq(Seq(Logged)) /\ Len(p) = Len(s) /\ <<e>> \in Seq(Logged)
  <2>1. p \in Seq(Seq(Logged)) /\ Len(p) = Len(s)
    BY ChosenType
  <2>2. <<e>> \in Seq(Logged)
    OBVIOUS
  <2> QED
    BY <2>1, <2>2
<1>2. r \in Seq(Seq(Logged)) /\ Len(r) = k /\ r[k] = <<e>> /\ \A n \in 1 .. Len(s) : r[n] = p[n]
  <2> HIDE DEF p
  <2> QED
    BY <1>1
<1>3. t \in Seq(Logged) /\ Len(t) = k /\ t[k] = e /\ \A n \in 1 .. Len(s) : t[n] = s[n]
  OBVIOUS
<1>4. k \in more /\ \A n \in 1 .. Len(s) : n \in more <=> n \in numbers
  OBVIOUS
<1>5. q \in Seq(Seq(Logged)) /\ Len(q) = k
  <2> HIDE DEF t, more
  <2> QED
    BY <1>3
<1>6. ASSUME NEW n \in 1 .. k PROVE q[n] = r[n]
  <2>1. q[n] = IF n \in more THEN <<t[n]>> ELSE <<>>
    <3> HIDE DEF t, more
    <3> QED
      BY <1>3
  <2>2. CASE n = k
    <3> HIDE DEF q, t, more, r
    <3> QED
      BY <2>1, <2>2, <1>2, <1>3, <1>4
  <2>3. CASE n # k
    <3>1. n \in 1 .. Len(s)
      BY <2>3
    <3>2. p[n] = IF n \in numbers THEN <<s[n]>> ELSE <<>>
      BY <3>1
    <3> HIDE DEF q, t, more, r, p
    <3> QED
      BY <2>1, <3>1, <3>2, <1>2, <1>3, <1>4
  <2> QED
    BY <2>2, <2>3
<1>7. q = r
  <2> HIDE DEF q, r, k
  <2> QED
    BY <1>2, <1>5, <1>6, SeqEqual
<1>8. FlattenSeq(r) = FlattenSeq(p) \o <<e>>
  <2> HIDE DEF p
  <2> QED
    BY <1>1, FlattenAppend
<1>9. FlattenSeq(p) \o <<e>> = Append(FlattenSeq(p), e)
  <2> DEFINE f == FlattenSeq(p)
  <2>1. f \in Seq(Logged)
    BY <1>1, FlattenType
  <2> HIDE DEF f
  <2>2. f \o <<e>> = Append(f, e)
    BY <2>1
  <2> QED
    BY <2>2 DEF f
<1> QED
  BY <1>7, <1>8, <1>9 DEF EntriesOf

\* Only the numbers of what has been sent matter.
LEMMA EntriesAgree ==
  ASSUME NEW s, NEW numbers, NEW others, \A n \in DOMAIN s : n \in numbers <=> n \in others
  PROVE  EntriesOf(s, numbers) = EntriesOf(s, others)
BY DEF EntriesOf

-----------------------------------------------------------------------------
(* What is kept of a conversation                                           *)

\* Histories are of items; entries are never of a compaction attempt's items,
\* and one at most is in hand.
Kept ==
  /\ history \in Seq(Thing) /\ copy \in Seq(Thing)
  /\ hand \in Seq(Logged) /\ Len(hand) <= 1 /\ sent \in Seq(Logged)
  /\ left \in [Bounded -> Nat] /\ taking \subseteq Nat /\ unsent \subseteq Nat
  /\ retries \in 0 .. MaxRetries /\ remote \in BOOLEAN /\ cut \in BOOLEAN
  /\ session \in {"live", "closing", "down"}
  /\ task \in {"none", "start", "turn", "compact", "undo"}
  /\ pc \in {"idle", "begun", "model", "attempt", "replace", "request",
             "restore", "flush", "flushing"}

Copying == {"attempt", "replace", "request", "restore"}

\* A session without a task has nothing in hand; only a compaction and an undo
\* hold a copy; a session that ends has no task; a live one has its recorder.
Places ==
  /\ task = "none" => pc = "idle" /\ hand = <<>>
  /\ pc \notin Copying => copy = <<>>
  /\ session # "live" => task = "none"
  /\ session = "live" => recorder = TRUE

\* The history has all snapshots of the copy. What is about to replace it shows
\* what it shows, and an undo has a snapshot to restore.
Copied ==
  /\ GhostSet(copy) \subseteq GhostSet(history)
  /\ pc \in {"replace", "restore"} => Shown(copy) = Shown(history)
  /\ pc = "restore" => GhostSet(copy) # {}

\* The entries that are read, or that will be.
Numbers == Readable \union next + 1 .. Len(sent)
Rebuilt == Reconstruct(Entries(Numbers) \o hand)

\* As long as nothing is lost, the log shows what the history shows.
Tells == NothingLost => Shown(Rebuilt) = Shown(history)

Accounted == LogInv /\ Kept /\ Places /\ Copied /\ Tells

LEMMA ItemType ==
  ASSUME NEW k \in Kinds, NEW n \in Nat
  PROVE  /\ Item(k, n) \in Thing /\ Item(k, n).kind = k /\ Item(k, n).n = n
         /\ k # "draft" => Item(k, n) \in Clean
BY DEF Item, Thing, Clean, Of

LEMMA Spent ==
  ASSUME left \in [Bounded -> Nat], NEW what \in Bounded, Spend(what)
  PROVE  left' \in [Bounded -> Nat] /\ left[what] \in Nat
BY DEF Spend

LEMMA HandIs ==
  ASSUME Kept, hand # <<>>
  PROVE  hand[1] \in Logged /\ hand = <<hand[1]>>
<1> HIDE DEF Logged
<1>1. hand \in Seq(Logged) /\ Len(hand) <= 1
  BY DEF Kept
<1> DEFINE e == hand[1]
<1>2. Len(hand) = 1
  <2>1. \A s \in Seq(Logged) : Len(s) = 0 => s = <<>>
    OBVIOUS
  <2> DEFINE n == Len(hand)
  <2>2. n # 0 /\ n \in Nat /\ n <= 1
    BY <1>1, <2>1
  <2> HIDE DEF n
  <2>3. n = 1
    BY <2>2
  <2> QED
    BY <2>3 DEF n
<1>3. e \in Logged
  BY <1>1, <1>2
<1>4. <<e>> \in Seq(Logged) /\ Len(<<e>>) = 1 /\ <<e>>[1] = e
  BY <1>3
<1>5. \A i \in 1 .. 1 : i = 1
  OBVIOUS
<1>6. hand = <<e>>
  BY <1>1, <1>2, <1>4, <1>5, SeqEqual
<1> QED
  BY <1>3, <1>6

LEMMA OneInHand ==
  ASSUME NEW e \in Logged
  PROVE  <<e>> \in Seq(Logged) /\ Len(<<e>>) <= 1 /\ <<>> \in Seq(Logged) /\ Len(<<>>) <= 1
<1> HIDE DEF Logged
<1> QED
  OBVIOUS

LEMMA NothingInHand == <<>> \in Seq(Logged) /\ Len(<<>>) <= 1 /\ <<>> \in Seq(Thing)
<1> HIDE DEF Logged, Thing
<1> QED
  OBVIOUS

LEMMA CleanIsLogged == Clean \subseteq Logged /\ Clean \subseteq Thing
BY KindsAre DEF Logged

\* A turn numbers its snapshot by what was left of the budget.
LEMMA TurnType == Kept => Turn \in Nat /\ left["turn"] \in Nat
BY DEF Kept, Turn, Bounded

LEMMA LastMessageType ==
  ASSUME NEW s \in Seq(Thing)
  PROVE  LastMessage(s) \in Nat
<1> DEFINE m == OfKinds(s, {"reply", "draft"})
<1>1. m \in Seq(Thing)
  BY OfKindsType
<1>2. \A x \in Thing : x.n \in Nat
  BY DEF Thing, Of
<1> HIDE DEF m, Thing
<1>3. m # <<>> => m[Len(m)] \in Thing
  BY <1>1
<1> QED
  BY <1>2, <1>3 DEF LastMessage, Last, m

\* What the history becomes: one item more.
Adds(h, g, x) == /\ g \in Seq(Thing)
                 /\ GhostSet(g) = IF x.kind = "ghost" THEN GhostSet(h) \union {x.n} ELSE GhostSet(h)
                 /\ Shown(g) = IF x.kind \in Plain THEN Append(Shown(h), x) ELSE Shown(h)

LEMMA AppendAdds ==
  ASSUME NEW h \in Seq(Thing), NEW x \in Thing
  PROVE  Adds(h, Append(h, x), x)
BY ShownAppend, GhostSetAppend DEF Adds

-----------------------------------------------------------------------------
(* What the log tells                                                       *)

\* The next state reads as this one does.
LEMMA ReadIsReadableNext == LogInv' => Readable' = Read'
<1> SUFFICES ASSUME LogInv' PROVE Readable' = Read'
  OBVIOUS
<1>1. Len(sent') \in Nat
  BY AppendGrows, Zenon DEF LogInv, SentIsSequence
<1>2. /\ tail' \in Int /\ tail' <= Len(sent')
      /\ \A i \in DOMAIN lines' : lines'[i] \in Int /\ lines'[i] <= Len(sent')
  BY <1>1 DEF LogInv, Typed, Follows
<1> QED
  BY <1>1, <1>2, ReadableIs DEF Readable, Stored, Read

LEMMA EntriesIs == Entries(Numbers) = EntriesOf(sent, Numbers)
BY DEF Entries, EntriesOf

LEMMA RebuiltType ==
  ASSUME Kept
  PROVE  /\ Entries(Numbers) \in Seq(Logged) /\ hand \in Seq(Logged)
         /\ Rebuilt \in Seq(Clean) /\ Rebuilt \in Seq(Thing)
<1>1. Entries(Numbers) \in Seq(Logged) /\ hand \in Seq(Logged)
  BY EntriesIs, EntriesAre DEF Kept
<1>2. Entries(Numbers) \o hand \in Seq(Logged)
  BY <1>1, ConcatProperties
<1> QED
  BY <1>1, <1>2, ReconstructType DEF Rebuilt

\* With one more entry at the end.
LEMMA RebuiltAppend ==
  ASSUME NEW es \in Seq(Logged), NEW e
  PROVE  /\ es \o <<>> = es
         /\ es \o <<e>> = Append(es, e)
         /\ Reconstruct(es \o <<e>>) = Replayed(Reconstruct(es), e)
<1>1. es \o <<>> = es /\ es \o <<e>> = Append(es, e)
  <2> HIDE DEF Logged
  <2> QED
    OBVIOUS
<1> QED
  BY <1>1, ReconstructAppend

\* A step that leaves the recorder alone, and what is in hand.
LEMMA TellsSame ==
  ASSUME Tells, UNCHANGED <<sent, next, lines, tail, opened, writer, hand>>,
         session' = "live" => session = "live", ~cut' => ~cut,
         Shown(history') = Shown(history)
  PROVE  Tells'
<1>1. Readable' = Readable
  BY DEF Readable, Stored
<1>2. Numbers' = Numbers
  BY <1>1 DEF Numbers
<1>3. Entries(Numbers)' = Entries(Numbers)
  BY <1>2 DEF Entries
<1>4. NothingLost' => NothingLost
  BY <1>1 DEF NothingLost
<1> QED
  BY <1>3, <1>4 DEF Tells, Rebuilt

\* A step that ends what can be told.
LEMMA TellsNothing ==
  ASSUME session' # "live" \/ writer' # "up" \/ cut' = TRUE
  PROVE  Tells'
BY DEF Tells, NothingLost

\* A step that takes an entry in hand.
LEMMA TellsMore ==
  ASSUME Kept, Tells, UNCHANGED <<sent, next, lines, tail, opened, writer, session, cut>>,
         hand = <<>>, NEW e \in Logged, hand' = <<e>>,
         Shown(Rebuilt) = Shown(history) => Shown(Replayed(Rebuilt, e)) = Shown(history')
  PROVE  Tells'
<1>1. Readable' = Readable
  BY DEF Readable, Stored
<1>2. Numbers' = Numbers
  BY <1>1 DEF Numbers
<1>3. Entries(Numbers)' = Entries(Numbers)
  BY <1>2 DEF Entries
<1>4. NothingLost' => NothingLost
  BY <1>1 DEF NothingLost
<1> DEFINE es == Entries(Numbers)
<1>5. es \in Seq(Logged)
  BY RebuiltType
<1>6. Rebuilt' = Reconstruct(es \o <<e>>) /\ Rebuilt = Reconstruct(es \o <<>>)
  BY <1>3 DEF Rebuilt
<1> HIDE DEF es
<1>7. Rebuilt' = Replayed(Rebuilt, e)
  BY <1>5, <1>6, RebuiltAppend
<1> QED
  BY <1>4, <1>7 DEF Tells

LEMMA TellsItem ==
  ASSUME Kept, Tells, UNCHANGED <<sent, next, lines, tail, opened, writer, session, cut>>,
         hand = <<>>, NEW x \in Clean, Record(x)
  PROVE  Tells'
<1>1. x \in Logged /\ x \in Thing /\ x.kind # "compacted"
  <2>1. \A y \in Clean : y.kind # "compacted"
    BY DEF Clean, Of, Kinds
  <2> QED
    BY <2>1, CleanIsLogged
<1>2. Rebuilt \in Seq(Thing) /\ history \in Seq(Thing)
  BY RebuiltType DEF Kept
<1>3. Replayed(Rebuilt, x) = Append(Rebuilt, x) /\ history' = Append(history, x) /\ hand' = <<x>>
  BY <1>1 DEF Replayed, Record
<1>4. Shown(Rebuilt) = Shown(history) => Shown(Replayed(Rebuilt, x)) = Shown(history')
  BY <1>1, <1>2, <1>3, ShownAppend
<1> QED
  BY <1>1, <1>3, <1>4, TellsMore

\* What is sent while nothing is lost comes last.
LEMMA SentIsLast ==
  ASSUME LogInv, Kept, NEW e \in Logged, Send(e)
  PROVE  /\ sent' \in Seq(Logged)
         /\ recorder = TRUE /\ writer = "up" => Entries(Numbers)' = Append(Entries(Numbers), e)
         /\ opened + 1 .. next \subseteq Readable' => opened + 1 .. next \subseteq Readable
<1>1. LogInv'
  BY SendHolds
<1>2. Readable = Read /\ Readable' = Read' /\ Read' = Read
  <2>1. Read' = Read
    BY DEF Read, Send
  <2> QED
    BY <1>1, <2>1, ReadIsReadable, ReadIsReadableNext
<1>3. sent \in Seq(Logged)
  BY DEF Kept
<1>4. sent' \in Seq(Logged)
  <2> HIDE DEF Logged
  <2> QED
    BY <1>3 DEF Send
<1>5. ASSUME recorder = TRUE, writer = "up" PROVE Entries(Numbers)' = Append(Entries(Numbers), e)
  <2>1. sent' = Append(sent, e) /\ next' = next
    BY <1>5 DEF Send
  <2>2. Len(sent) \in Nat /\ Len(sent') = Len(sent) + 1 /\ next \in Nat /\ next <= Len(sent)
    <3>1. next \in Nat /\ next <= Len(sent)
      BY DEF LogInv, Typed
    <3> HIDE DEF Logged
    <3> QED
      BY <1>3, <2>1, <3>1
  <2>3. Numbers \in SUBSET (1 .. Len(sent))
    BY <2>2 DEF Numbers, Readable, Stored
  <2>4. Numbers' = Numbers \union {Len(sent) + 1}
    <3>1. (next + 1 .. Len(sent))' = (next + 1 .. Len(sent)) \union {Len(sent) + 1}
      BY <2>1, <2>2
    <3> QED
      BY <3>1, <1>2 DEF Numbers
  <2>5. EntriesOf(Append(sent, e), Numbers \union {Len(sent) + 1}) = Append(EntriesOf(sent, Numbers), e)
    BY <1>3, <2>3, EntriesAppend
  <2>6. Entries(Numbers)' = EntriesOf(sent', Numbers')
    BY DEF Entries, EntriesOf
  <2> QED
    BY <2>1, <2>4, <2>5, <2>6, EntriesIs
<1> QED
  BY <1>2, <1>4, <1>5

\* While nothing is lost, a line that is written keeps what is told.
LEMMA TellsWritten ==
  ASSUME LogInv, Kept, Tells, WriteLine, UNCHANGED <<hand, history, session, cut>>
  PROVE  Tells'
<1> SUFFICES ASSUME NothingLost' PROVE Shown(Rebuilt') = Shown(history')
  BY DEF Tells
<1>1. /\ next \in Nat /\ next' = next + 1 /\ next < Len(sent) /\ opened \in Nat /\ opened <= next
      /\ sent' = sent /\ opened' = opened /\ lines \in Seq(Int) /\ tail \in Int /\ tail' = 0
      /\ writer = "up" /\ session = "live" /\ ~cut
  BY DEF LogInv, Typed, WriteLine, HasEntry, NothingLost
<1>2. Len(sent) \in Nat
  BY AppendGrows, Zenon DEF LogInv, SentIsSequence
<1>3. LogInv'
  BY WriteLineHolds
<1>4. Readable = Read /\ Readable' = Read'
  BY <1>3, ReadIsReadable, ReadIsReadableNext
<1> DEFINE x == IF tail = 0 THEN next + 1 ELSE -(next + 1)
<1>5. lines' = Append(lines, x) /\ x \in Int
  BY <1>1 DEF WriteLine
<1>6. /\ DOMAIN lines = 1 .. Len(lines) /\ Len(lines) \in Nat
      /\ DOMAIN lines' = 1 .. Len(lines) + 1 /\ lines'[Len(lines) + 1] = x
      /\ \A i \in DOMAIN lines : lines'[i] = lines[i] /\ lines[i] \in Int
  <2> HIDE DEF x
  <2> QED
    BY <1>1, <1>5, LineAppended
<1>7. \A i \in DOMAIN lines : lines[i] <= next
  BY DEF LogInv, Follows
<1>8. next + 1 \in Read'
  BY <1>1, <1>2, <1>4 DEF NothingLost
<1>9. tail = 0 /\ x = next + 1
  <2>1. PICK i \in DOMAIN lines' : lines'[i] = next + 1
    BY <1>1, <1>8 DEF Read
  <2>2. i = Len(lines) + 1
    BY <2>1, <1>1, <1>6, <1>7
  <2>3. x = next + 1
    BY <2>1, <2>2, <1>6
  <2> QED
    BY <2>3, <1>1
<1> HIDE DEF x
<1>10. Read' = Read \union {next + 1}
  <2>0. tail # Cut /\ tail' # Cut
    BY <1>1, <1>9 DEF Cut
  <2>1. \A n \in Nat \ {0} : n \in Read' <=> n \in Read \/ n = next + 1
    BY <2>0, <1>1, <1>6, <1>9 DEF Read
  <2>2. Read' \subseteq Nat \ {0} /\ Read \subseteq Nat \ {0} /\ next + 1 \in Nat \ {0}
    BY <1>1 DEF Read
  <2> QED
    BY <2>1, <2>2
<1>11. Numbers' = Numbers
  <2>1. Numbers = Read \union next + 1 .. Len(sent) /\ Numbers' = Read' \union next + 2 .. Len(sent)
    BY <1>1, <1>4 DEF Numbers
  <2>2. next + 1 .. Len(sent) = {next + 1} \union next + 2 .. Len(sent)
    BY <1>1, <1>2
  <2> QED
    BY <2>1, <2>2, <1>10
<1>12. Entries(Numbers)' = Entries(Numbers)
  BY <1>1, <1>11 DEF Entries
<1>13. NothingLost
  <2>1. opened + 1 .. next \subseteq Read
    <3>1. \A n \in opened + 1 .. next : n \in Read' /\ n # next + 1
      BY <1>1, <1>4 DEF NothingLost
    <3> QED
      BY <3>1, <1>10
  <2> QED
    BY <2>1, <1>1, <1>4, <1>9 DEF NothingLost
<1> QED
  BY <1>12, <1>13 DEF Tells, Rebuilt

-----------------------------------------------------------------------------
(* The steps of a conversation                                              *)

StepOK == Kept' /\ Places' /\ Copied' /\ Tells'

LEMMA PersistAccounted ==
  ASSUME Accounted, Persist
  PROVE  StepOK
<1> DEFINE e == hand[1]
           es == Entries(Numbers)
<1>1. LogInv /\ Kept /\ Places /\ Copied /\ Tells
  BY DEF Accounted
<1>2. e \in Logged /\ hand = <<e>> /\ Send(e) /\ hand' = <<>>
  BY <1>1, HandIs DEF Persist
<1>3. /\ sent' \in Seq(Logged)
      /\ recorder = TRUE /\ writer = "up" => Entries(Numbers)' = Append(es, e)
      /\ opened + 1 .. next \subseteq Readable' => opened + 1 .. next \subseteq Readable
  BY <1>1, <1>2, SentIsLast
<1>4. UNCHANGED <<next, writer, recorder, tail, opened>>
  BY <1>2 DEF Send
<1> HIDE DEF e, es
<1>5. Kept'
  BY <1>1, <1>2, <1>3, NothingInHand DEF Kept, Persist
<1>6. Places' /\ Copied'
  BY <1>1, <1>2, <1>4 DEF Places, Copied, Persist
<1>7. Tells'
  <2> SUFFICES ASSUME NothingLost' PROVE Shown(Rebuilt') = Shown(history')
    BY DEF Tells
  <2>1. NothingLost /\ recorder = TRUE /\ writer = "up"
    BY <1>1, <1>3, <1>4 DEF NothingLost, Persist, Places
  <2>2. es \in Seq(Logged)
    BY <1>1, RebuiltType DEF es
  <2>3. Rebuilt' = Reconstruct(Append(es, e) \o <<>>) /\ Rebuilt = Reconstruct(es \o <<e>>)
    BY <1>2, <1>3, <2>1 DEF Rebuilt, es
  <2>4. Append(es, e) \in Seq(Logged)
    <3> HIDE DEF Logged
    <3> QED
      BY <1>2, <2>2
  <2>5. Rebuilt' = Rebuilt
    BY <2>2, <2>3, <2>4, RebuiltAppend
  <2> QED
    BY <1>1, <2>1, <2>5 DEF Tells, Persist
<1> QED
  BY <1>5, <1>6, <1>7 DEF StepOK

LEMMA GhostSentAccounted ==
  ASSUME Accounted, GhostSent
  PROVE  StepOK
<1>1. LogInv /\ Kept /\ Places /\ Copied /\ Tells
  BY DEF Accounted
<1>2. PICK t \in unsent : unsent' = unsent \ {t} /\ Send(Item("ghost", t))
  BY DEF GhostSent
<1> DEFINE g == Item("ghost", t)
           es == Entries(Numbers)
<1>3. g \in Clean /\ g \in Thing /\ g.kind = "ghost" /\ g \in Logged
  <2>1. t \in Nat /\ "ghost" \in Kinds
    BY <1>1 DEF Kept, Kinds
  <2> QED
    BY <2>1, ItemType, CleanIsLogged
<1> HIDE DEF g
<1>4. Send(g)
  BY <1>2 DEF g
<1>5. /\ sent' \in Seq(Logged)
      /\ recorder = TRUE /\ writer = "up" => Entries(Numbers)' = Append(es, g)
      /\ opened + 1 .. next \subseteq Readable' => opened + 1 .. next \subseteq Readable
  BY <1>1, <1>3, <1>4, SentIsLast
<1>6. UNCHANGED <<next, writer, recorder, tail, opened>>
  BY <1>4 DEF Send
<1> HIDE DEF es
<1>7. Kept'
  BY <1>1, <1>2, <1>5 DEF Kept, GhostSent
<1>8. Places' /\ Copied'
  BY <1>1, <1>6 DEF Places, Copied, GhostSent
<1>9. Tells'
  <2> SUFFICES ASSUME NothingLost' PROVE Shown(Rebuilt') = Shown(history')
    BY DEF Tells
  <2>1. NothingLost /\ recorder = TRUE /\ writer = "up"
    BY <1>1, <1>5, <1>6 DEF NothingLost, GhostSent, Places
  <2>2. es \in Seq(Logged) /\ hand \in Seq(Logged)
    BY <1>1, RebuiltType DEF es
  <2>3. Rebuilt' = Reconstruct(Append(es, g) \o hand) /\ Rebuilt = Reconstruct(es \o hand)
    BY <1>5, <2>1 DEF Rebuilt, es, GhostSent
  <2>4. Append(es, g) \in Seq(Logged)
    <3> HIDE DEF Logged
    <3> QED
      BY <1>3, <2>2
  <2> DEFINE r == Reconstruct(es)
             q == Reconstruct(Append(es, g))
  <2>5. r \in Seq(Thing) /\ q \in Seq(Thing)
    BY <2>2, <2>4, ReconstructType
  <2>6. q = Append(r, g)
    <3>1. g.kind # "compacted"
      BY <1>3
    <3>2. q = Replayed(r, g)
      BY <2>2, ReconstructAppend
    <3> QED
      BY <3>1, <3>2 DEF Replayed
  <2> HIDE DEF r, q
  <2>7. Shown(q) = Shown(r)
    <3>1. g.kind \notin Plain
      BY <1>3 DEF Plain
    <3> QED
      BY <3>1, <1>3, <2>5, <2>6, ShownAppend
  <2>8. Shown(Rebuilt') = Shown(Rebuilt)
    <3>1. CASE hand = <<>>
      <4>1. Append(es, g) \o <<>> = Append(es, g) /\ es \o <<>> = es
        BY <2>2, <2>4, RebuiltAppend
      <4> QED
        BY <4>1, <3>1, <2>3, <2>7 DEF r, q
    <3>2. CASE hand # <<>>
      <4>1. hand[1] \in Logged /\ hand = <<hand[1]>>
        BY <3>2, <1>1, HandIs
      <4>2. Rebuilt' = Replayed(q, hand[1]) /\ Rebuilt = Replayed(r, hand[1])
        <5>1. Reconstruct(es \o <<hand[1]>>) = Replayed(r, hand[1])
          BY <2>2, RebuiltAppend DEF r
        <5>2. Reconstruct(Append(es, g) \o <<hand[1]>>) = Replayed(q, hand[1])
          BY <2>4, RebuiltAppend DEF q
        <5> QED
          BY <4>1, <5>1, <5>2, <2>3
      <4> QED
        BY <4>1, <4>2, <2>5, <2>7, ReplayedShown
    <3> QED
      BY <3>1, <3>2
  <2> QED
    BY <1>1, <2>1, <2>8 DEF Tells, GhostSent
<1> QED
  BY <1>7, <1>8, <1>9 DEF StepOK

\* A turn that starts, and the items it records.
LEMMA StartTurnAccounted ==
  ASSUME Accounted, StartTurn
  PROVE  StepOK
<1> DEFINE x == Item("user", left["turn"])
<1>1. LogInv /\ Kept /\ Places /\ Copied /\ Tells
  BY DEF Accounted
<1>2. x \in Clean /\ x \in Thing /\ x \in Logged /\ x.kind = "user"
  <2>1. "user" \in Kinds /\ "user" # "draft"
    BY DEF Kinds
  <2> QED
    BY <1>1, <2>1, TurnType, ItemType, CleanIsLogged
<1> HIDE DEF x
<1>3. Record(x) /\ hand' = <<x>> /\ history' = Append(history, x)
  BY DEF StartTurn, Record, x
<1>4. hand = <<>> /\ copy = <<>> /\ pc = "idle"
  BY <1>1 DEF Places, StartTurn, Copying
<1>5. Adds(history, history', x)
  BY <1>1, <1>2, <1>3, AppendAdds DEF Kept
<1>6. left' \in [Bounded -> Nat]
  <2>1. Spend("turn") /\ "turn" \in Bounded
    BY DEF StartTurn, Bounded
  <2> QED
    BY <1>1, <2>1, Spent DEF Kept
<1>7. Kept'
  <2>1. <<x>> \in Seq(Logged) /\ Len(<<x>>) <= 1
    BY <1>2, OneInHand
  <2> QED
    BY <2>1, <1>1, <1>3, <1>5, <1>6 DEF Kept, StartTurn, Quiet, Adds, rollout, Goto
<1>8. Places' /\ Copied'
  BY <1>1, <1>4, GhostSetEmpty DEF Places, Copied, StartTurn, Quiet, rollout, Goto, Copying
<1>9. Tells'
  BY <1>1, <1>2, <1>3, <1>4, TellsItem DEF StartTurn, Quiet, rollout
<1> QED
  BY <1>7, <1>8, <1>9 DEF StepOK

LEMMA ReplyAccounted ==
  ASSUME Accounted, Reply
  PROVE  StepOK
<1> DEFINE x == Item("reply", left["item"])
<1>1. LogInv /\ Kept /\ Places /\ Copied /\ Tells
  BY DEF Accounted
<1>2. left' \in [Bounded -> Nat] /\ left["item"] \in Nat
  <2>1. Spend("item") /\ "item" \in Bounded
    BY DEF Reply, Bounded
  <2> QED
    BY <1>1, <2>1, Spent DEF Kept
<1>3. x \in Clean /\ x \in Thing /\ x \in Logged /\ x.kind = "reply"
  <2>1. "reply" \in Kinds /\ "reply" # "draft"
    BY DEF Kinds
  <2> QED
    BY <1>2, <2>1, ItemType, CleanIsLogged
<1> HIDE DEF x
<1>4. Record(x) /\ hand' = <<x>> /\ history' = Append(history, x)
  BY DEF Reply, Record, x
<1>5. hand = <<>> /\ copy = <<>> /\ pc = "model" /\ task = "turn"
  BY <1>1 DEF Places, Reply, Copying, At
<1>6. Adds(history, history', x)
  BY <1>1, <1>3, <1>4, AppendAdds DEF Kept
<1>7. Kept'
  <2>1. <<x>> \in Seq(Logged) /\ Len(<<x>>) <= 1
    BY <1>3, OneInHand
  <2> QED
    BY <2>1, <1>1, <1>2, <1>4, <1>6 DEF Kept, Reply, Quiet, Adds, rollout
<1>8. Places' /\ Copied'
  BY <1>1, <1>5, GhostSetEmpty DEF Places, Copied, Reply, Quiet, rollout, Copying
<1>9. Tells'
  BY <1>1, <1>3, <1>4, <1>5, TellsItem DEF Reply, Quiet, rollout
<1> QED
  BY <1>7, <1>8, <1>9 DEF StepOK

\* A snapshot, or an item of a compaction: the history has one item more, that
\* is not told.
LEMMA UntoldAccounted ==
  ASSUME Accounted, NEW x \in Thing, x.kind \notin Plain, history' = Append(history, x),
         UNCHANGED <<rollout, task, pc, hand, copy, retries, remote, session, cut>>,
         left' \in [Bounded -> Nat], taking' \subseteq Nat, unsent' \subseteq Nat
  PROVE  StepOK
<1>1. LogInv /\ Kept /\ Places /\ Copied /\ Tells
  BY DEF Accounted
<1>2. Adds(history, history', x)
  BY <1>1, AppendAdds DEF Kept
<1>3. GhostSet(history) \subseteq GhostSet(history') /\ Shown(history') = Shown(history)
  BY <1>2 DEF Adds
<1>4. Kept'
  BY <1>1, <1>2 DEF Kept, Adds, rollout
<1>5. Places' /\ Copied'
  BY <1>1, <1>3 DEF Places, Copied, rollout
<1>6. Tells'
  BY <1>1, <1>3, TellsSame DEF rollout
<1> QED
  BY <1>4, <1>5, <1>6 DEF StepOK

LEMMA GhostTakenAccounted ==
  ASSUME Accounted, GhostTaken
  PROVE  StepOK
<1>1. LogInv /\ Kept /\ Places /\ Copied /\ Tells
  BY DEF Accounted
<1>2. PICK t \in taking : /\ taking' = taking \ {t}
                          /\ \/ history' = Append(history, Item("ghost", t)) /\ unsent' = unsent \union {t}
                             \/ UNCHANGED <<history, unsent>>
  BY DEF GhostTaken
<1>3. t \in Nat /\ taking' \subseteq Nat /\ unsent \subseteq Nat /\ left \in [Bounded -> Nat]
  BY <1>1, <1>2 DEF Kept
<1>4. CASE history' = Append(history, Item("ghost", t)) /\ unsent' = unsent \union {t}
  <2> DEFINE x == Item("ghost", t)
  <2>1. "ghost" \in Kinds /\ "ghost" \notin Plain
    BY DEF Kinds, Plain
  <2>2. x \in Thing /\ x.kind = "ghost"
    BY <1>3, <2>1, ItemType
  <2>3. left' = left /\ UNCHANGED <<rollout, task, pc, hand, copy, retries, remote, session, cut>>
    BY DEF GhostTaken, Quiet
  <2> HIDE DEF x
  <2> QED
    BY <1>3, <1>4, <2>1, <2>2, <2>3, UntoldAccounted DEF x
<1>5. CASE UNCHANGED <<history, unsent>>
  <2>1. Kept' /\ Places' /\ Copied'
    BY <1>1, <1>3, <1>5 DEF Kept, Places, Copied, GhostTaken, Quiet, rollout
  <2>2. Tells'
    BY <1>1, <1>5, TellsSame DEF GhostTaken, Quiet, rollout
  <2> QED
    BY <2>1, <2>2 DEF StepOK
<1> QED
  BY <1>2, <1>4, <1>5

LEMMA DraftAccounted ==
  ASSUME Accounted, Draft
  PROVE  StepOK
<1> DEFINE x == Item("draft", left["item"])
<1>1. Kept
  BY DEF Accounted
<1>2. left' \in [Bounded -> Nat] /\ left["item"] \in Nat
  <2>1. Spend("item") /\ "item" \in Bounded
    BY DEF Draft, Bounded
  <2> QED
    BY <1>1, <2>1, Spent DEF Kept
<1>3. x \in Thing /\ x.kind \notin Plain
  <2>1. "draft" \in Kinds /\ "draft" \notin Plain
    BY DEF Kinds, Plain
  <2> QED
    BY <1>2, <2>1, ItemType
<1>4. UNCHANGED <<rollout, task, pc, hand, copy, retries, remote, session, cut, taking, unsent>>
      /\ history' = Append(history, x)
  BY DEF Draft, Quiet
<1> HIDE DEF x
<1> QED
  BY <1>1, <1>2, <1>3, <1>4, UntoldAccounted DEF Kept

\* A step that leaves the history, what is in hand and the recorder alone, and
\* may change the copy.
LEMMA QuietAccounted ==
  ASSUME Accounted, UNCHANGED <<history, hand, sent, next, lines, tail, opened, writer, recorder,
                                remote, session>>,
         ~cut' => ~cut, cut' \in BOOLEAN,
         left' \in [Bounded -> Nat], taking' \subseteq Nat, unsent' \subseteq Nat,
         task' \in {"none", "start", "turn", "compact", "undo"},
         pc' \in {"idle", "begun", "model", "attempt", "replace", "request",
                  "restore", "flush", "flushing"},
         retries' \in 0 .. MaxRetries, copy' \in Seq(Thing),
         task' = "none" => pc' = "idle" /\ hand = <<>>,
         session # "live" => task' = "none",
         pc' \notin Copying => copy' = <<>>,
         GhostSet(copy') \subseteq GhostSet(history),
         pc' \in {"replace", "restore"} => Shown(copy') = Shown(history),
         pc' = "restore" => GhostSet(copy') # {}
  PROVE  StepOK
<1>1. LogInv /\ Kept /\ Places /\ Copied /\ Tells
  BY DEF Accounted
<1>2. Kept'
  BY <1>1 DEF Kept
<1>3. Places' /\ Copied'
  BY <1>1 DEF Places, Copied
<1>4. Tells'
  BY <1>1, TellsSame
<1> QED
  BY <1>2, <1>3, <1>4 DEF StepOK

\* The part of the invariant that a quiet step relies on.
LEMMA Quietly ==
  ASSUME Accounted
  PROVE  /\ left \in [Bounded -> Nat] /\ taking \subseteq Nat /\ unsent \subseteq Nat
         /\ history \in Seq(Thing) /\ copy \in Seq(Thing) /\ retries \in 0 .. MaxRetries
         /\ cut \in BOOLEAN /\ 0 \in 0 .. MaxRetries /\ MaxRetries \in Nat
         /\ task \in {"none", "start", "turn", "compact", "undo"}
         /\ pc \in {"idle", "begun", "model", "attempt", "replace", "request",
                    "restore", "flush", "flushing"}
         /\ session # "live" => task = "none"
         /\ task = "none" => pc = "idle" /\ hand = <<>>
         /\ pc \notin Copying => copy = <<>>
         /\ GhostSet(copy) \subseteq GhostSet(history)
         /\ <<>> \in Seq(Thing) /\ GhostSet(<<>>) = {}
<1>1. Kept /\ Places /\ Copied
  BY DEF Accounted
<1>2. <<>> \in Seq(Thing) /\ GhostSet(<<>>) = {} /\ 0 \in 0 .. MaxRetries /\ MaxRetries \in Nat
  BY NothingInHand, GhostSetEmpty, ConversationAssumption
<1> QED
  BY <1>1, <1>2 DEF Kept, Places, Copied

LEMMA StartGhostAccounted ==
  ASSUME Accounted, StartGhost
  PROVE  StepOK
<1>1. left' \in [Bounded -> Nat] /\ taking' \subseteq Nat
  <2>1. CASE left["snapshot"] > 0
    <3>1. Spend("snapshot") /\ taking' = taking \union {Turn} /\ "snapshot" \in Bounded
      BY <2>1 DEF StartGhost, Bounded
    <3>2. Turn \in Nat
      BY TurnType DEF Accounted
    <3> QED
      BY <3>1, <3>2, Spent, Quietly
  <2>2. CASE ~(left["snapshot"] > 0)
    BY <2>2, Quietly DEF StartGhost
  <2> QED
    BY <2>1, <2>2
<1>2. pc = "begun" /\ pc' = "model" /\ pc \notin Copying /\ pc' \notin Copying
  BY DEF StartGhost, At, Goto, Copying
<1> QED
  BY <1>1, <1>2, Quietly, QuietAccounted DEF StartGhost, Quiet, rollout

LEMMA TurnEndsAccounted ==
  ASSUME Accounted, TurnEnds
  PROVE  StepOK
<1>1. pc = "model" /\ pc' = "flush" /\ pc \notin Copying /\ pc' \notin Copying /\ task = "turn"
  BY DEF TurnEnds, At, Goto, Copying
<1> QED
  BY <1>1, Quietly, QuietAccounted DEF TurnEnds, Quiet, rollout

\* A compaction begins with a copy, that may end in its prompt.
LEMMA CompactAccounted ==
  ASSUME Accounted, Compact
  PROVE  StepOK
<1>1. left' \in [Bounded -> Nat]
  <2>1. Spend("compact") /\ "compact" \in Bounded
    BY DEF Compact, Bounded
  <2> QED
    BY <2>1, Spent, Quietly
<1>2. copy' \in Seq(Thing) /\ GhostSet(copy') = GhostSet(history)
  <2> DEFINE x == Item("prompt", 0)
  <2>1. x \in Thing /\ x.kind # "ghost"
    <3>1. "prompt" \in Kinds /\ 0 \in Nat
      BY DEF Kinds
    <3> QED
      BY <3>1, ItemType
  <2>2. copy' = IF remote THEN history ELSE Append(history, x)
    BY DEF Compact
  <2> HIDE DEF x
  <2>3. Adds(history, Append(history, x), x)
    BY <2>1, AppendAdds, Quietly
  <2> QED
    BY <2>1, <2>2, <2>3, Quietly DEF Adds
<1>3. pc' \in {"attempt", "request"} /\ task' \in {"turn", "compact"} /\ retries' = 0 /\ pc' \in Copying
  BY DEF Compact, Goto, Copying
<1>4. session # "live" => task' = "none"
  BY Quietly DEF Compact
<1> QED
  BY <1>1, <1>2, <1>3, <1>4, Quietly, QuietAccounted DEF Compact, Quiet, rollout

LEMMA AttemptCompletesAccounted ==
  ASSUME Accounted, AttemptCompletes
  PROVE  StepOK
<1>1. pc = "attempt" /\ pc' = "replace" /\ pc' \in Copying /\ task # "none" /\ copy' = history /\ retries' = 0
  BY Quietly DEF AttemptCompletes, At, Goto, Copying
<1> QED
  BY <1>1, Quietly, QuietAccounted DEF AttemptCompletes, Quiet, rollout

LEMMA TailLess ==
  ASSUME NEW s \in Seq(Thing), s # <<>>
  PROVE  Tail(s) \in Seq(Thing) /\ GhostSet(Tail(s)) \subseteq GhostSet(s)
<1> HIDE DEF Thing
<1> DEFINE t == Tail(s)
<1>1. t \in Seq(Thing) /\ DOMAIN t = 1 .. Len(s) - 1 /\ DOMAIN s = 1 .. Len(s) /\ Len(s) \in Nat
  BY HeadTailProperties
<1>2. \A i \in 1 .. Len(s) - 1 : t[i] = s[i+1]
  BY HeadTailProperties
<1> HIDE DEF t
<1>3. ASSUME NEW m \in GhostSet(t) PROVE m \in GhostSet(s)
  <2>1. PICK i \in DOMAIN t : t[i].kind = "ghost" /\ m = t[i].n
    BY DEF GhostSet
  <2>2. i + 1 \in DOMAIN s /\ t[i] = s[i+1]
    BY <1>1, <1>2
  <2> QED
    BY <2>1, <2>2 DEF GhostSet
<1> HIDE DEF GhostSet
<1> QED
  BY <1>1, <1>3 DEF t

\* An attempt that ends without an answer.
LEMMA ReturnAccounted ==
  ASSUME Accounted, pc \in Copying, hand = <<>>, Return, Quiet, UNCHANGED <<history, task, hand, taking, unsent, left>>
  PROVE  StepOK
<1>1. pc' \in {"model", "flush"} /\ pc' \notin Copying /\ copy' = <<>> /\ retries' = 0 /\ task # "none"
  BY Quietly DEF Return, Goto, Copying
<1> QED
  BY <1>1, Quietly, QuietAccounted DEF Quiet, rollout

LEMMA AttemptTooLongAccounted ==
  ASSUME Accounted, AttemptTooLong
  PROVE  StepOK
<1>1. pc = "attempt" /\ pc \in Copying /\ hand = <<>> /\ task # "none"
  BY Quietly DEF AttemptTooLong, At, Copying
<1>2. CASE Len(Prompt(copy)) > 1
  <2>1. copy # <<>>
    <3>1. Prompt(<<>>) = <<>> /\ Len(<<>>) = 0
      BY OfKindsEmpty DEF Prompt
    <3> QED
      BY <3>1, <1>2
  <2>2. copy' = Tail(copy) /\ retries' = 0 /\ pc' = pc
    BY <1>2 DEF AttemptTooLong
  <2>3. copy' \in Seq(Thing) /\ GhostSet(copy') \subseteq GhostSet(history)
    <3>1. Tail(copy) \in Seq(Thing) /\ GhostSet(Tail(copy)) \subseteq GhostSet(copy)
      BY <2>1, TailLess, Quietly
    <3> QED
      BY <3>1, <2>2, Quietly
  <2> QED
    BY <1>1, <2>2, <2>3, Quietly, QuietAccounted DEF AttemptTooLong, Quiet, rollout
<1>3. CASE ~(Len(Prompt(copy)) > 1)
  BY <1>1, <1>3, ReturnAccounted DEF AttemptTooLong
<1> QED
  BY <1>2, <1>3

LEMMA AttemptFailsAccounted ==
  ASSUME Accounted, AttemptFails
  PROVE  StepOK
<1>1. pc = "attempt" /\ pc \in Copying /\ hand = <<>> /\ task # "none"
  BY Quietly DEF AttemptFails, At, Copying
<1>2. CASE retries < MaxRetries /\ retries' = retries + 1 /\ UNCHANGED <<pc, copy>>
  <2>1. retries' \in 0 .. MaxRetries
    BY <1>2, Quietly
  <2> QED
    BY <1>1, <1>2, <2>1, Quietly, QuietAccounted DEF AttemptFails, Quiet, rollout
<1>3. CASE Return
  BY <1>1, <1>3, ReturnAccounted DEF AttemptFails
<1> QED
  BY <1>2, <1>3 DEF AttemptFails

LEMMA RemoteFailsAccounted ==
  ASSUME Accounted, RemoteFails
  PROVE  StepOK
<1>1. pc \in Copying /\ hand = <<>>
  BY DEF RemoteFails, At, Copying
<1> QED
  BY <1>1, ReturnAccounted DEF RemoteFails

LEMMA StartUndoAccounted ==
  ASSUME Accounted, StartUndo
  PROVE  StepOK
<1>1. GhostSet(history) # {}
  BY GhostsAreAll, Quietly DEF StartUndo
<1>2. task' = "undo" /\ pc' = "restore" /\ pc' \in Copying /\ copy' = history /\ session = "live"
  BY DEF StartUndo, Goto, Copying
<1> QED
  BY <1>1, <1>2, Quietly, QuietAccounted DEF StartUndo, Quiet, rollout

LEMMA RestoreFailsAccounted ==
  ASSUME Accounted, RestoreFails
  PROVE  StepOK
<1>1. pc = "restore" /\ pc' = "flush" /\ pc' \notin Copying /\ copy' = <<>> /\ task # "none"
  BY Quietly DEF RestoreFails, At, Goto, Copying
<1> QED
  BY <1>1, Quietly, QuietAccounted DEF RestoreFails, Quiet, rollout

LEMMA StartFlushAccounted ==
  ASSUME Accounted, StartFlush
  PROVE  StepOK
<1>1. pc = "flush" /\ pc' = "flushing" /\ pc \notin Copying /\ pc' \notin Copying /\ task # "none"
  BY Quietly DEF StartFlush, At, Goto, Copying
<1> QED
  BY <1>1, Quietly, QuietAccounted DEF StartFlush, Flush

LEMMA TaskEndsAccounted ==
  ASSUME Accounted, TaskEnds
  PROVE  StepOK
<1>1. pc = "flushing" /\ pc' = "idle" /\ pc \notin Copying /\ pc' \notin Copying /\ task' = "none" /\ hand = <<>>
  BY DEF TaskEnds, At, Goto, Copying
<1> QED
  BY <1>1, Quietly, QuietAccounted DEF TaskEnds, ForgetFlush

\* What a compaction makes: items that are shown, and the snapshots of its copy.
LEMMA NewHistory ==
  ASSUME NEW s \in Seq(Thing), NEW g \in Seq(Of(Plain)), NEW h, h = g \o Ghosts(s)
  PROVE  /\ h \in Seq(Clean) /\ h \in Seq(Thing)
         /\ GhostSet(h) = GhostSet(s) /\ Shown(h) = Shown(g)
<1>1. g \in Seq(Clean) /\ g \in Seq(Thing) /\ GhostSet(g) = {}
  <2>1. "ghost" \notin Plain
    BY DEF Plain
  <2> QED
    BY <2>1, KindsAre, GhostSetNone
<1>2. Ghosts(s) \in Seq(Clean) /\ Ghosts(s) \in Seq(Thing) /\ GhostSet(Ghosts(s)) = GhostSet(s)
  BY GhostsAreAll, KindsAre
<1>3. Shown(Ghosts(s)) = <<>>
  <2>1. {"ghost"} \in SUBSET Kinds /\ {"ghost"} \cap Plain = {}
    BY DEF Plain, Kinds
  <2> QED
    BY <2>1, GhostsAreAll, OfKindsNone DEF Shown
<1> DEFINE t == Ghosts(s)
<1> HIDE DEF t
<1>4. t \in Seq(Clean) /\ t \in Seq(Thing) /\ GhostSet(t) = GhostSet(s) /\ Shown(t) = <<>> /\ h = g \o t
  BY <1>2, <1>3 DEF t
<1>5. g \o t \in Seq(Clean)
  BY <1>1, <1>4, ConcatProperties
<1>6. Shown(g \o t) = Shown(g) \o Shown(t) /\ Shown(g) \in Seq(Thing)
  BY <1>1, <1>4, ShownConcat
<1>7. GhostSet(g \o t) = GhostSet(g) \union GhostSet(t)
  BY <1>1, <1>4, GhostSetConcat
<1>8. Shown(g) \o <<>> = Shown(g)
  BY <1>6, ConcatEmptySeq
<1> QED
  BY <1>1, <1>4, <1>5, <1>6, <1>7, <1>8, KindsAre

\* The history a compaction or an undo writes back has the snapshots of its
\* copy, but for the one that is restored.
LEMMA ReplaceWrites ==
  ASSUME Accounted, Replace
  PROVE  /\ history' \in Seq(Thing) /\ GhostSet(history') = GhostSet(copy)
         /\ \E x \in Summaries : /\ hand' = <<LocalEntry(x)>>
                                 /\ Shown(history') = Shown(Compacted(copy, x))
<1> DEFINE x == Item("summary", LastMessage(copy))
           g == Compacted(copy, x)
<1>1. x \in Summaries
  <2>1. LastMessage(copy) \in Nat
    BY LastMessageType, Quietly
  <2> QED
    BY <2>1 DEF Item, Summaries, Of
<1>2. g \in Seq(Of(Plain))
  BY <1>1, CompactedType, Quietly
<1>3. history' = g \o Ghosts(copy) /\ hand' = <<LocalEntry(x)>>
  BY DEF Replace
<1> HIDE DEF g
<1>4. history' \in Seq(Thing) /\ GhostSet(history') = GhostSet(copy) /\ Shown(history') = Shown(g)
  BY <1>2, <1>3, NewHistory, Quietly
<1> QED
  BY <1>1, <1>3, <1>4 DEF g

LEMMA RemoteReplaceWrites ==
  ASSUME Accounted, RemoteReplace
  PROVE  /\ history' \in Seq(Clean) /\ history' \in Seq(Thing) /\ GhostSet(history') = GhostSet(copy)
         /\ hand' = <<RemoteEntry(history')>>
<1> DEFINE x == Item("remote", left["compact"])
<1>1. left["compact"] \in Nat
  <2>1. "compact" \in Bounded
    BY DEF Bounded
  <2> QED
    BY <2>1, Quietly
<1>2. x \in Of(Plain)
  BY <1>1 DEF Item, Of, Plain, Kinds
<1>3. history' = <<x>> \o Ghosts(copy) /\ hand' = <<RemoteEntry(history')>>
  BY DEF RemoteReplace
<1> HIDE DEF x
<1>4. <<x>> \in Seq(Of(Plain))
  <2> HIDE DEF Of
  <2> QED
    BY <1>2
<1> QED
  BY <1>3, <1>4, NewHistory, Quietly

LEMMA RestoredWrites ==
  ASSUME Accounted, Restored
  PROVE  /\ history' \in Seq(Thing) /\ Shown(history') = Shown(history)
         /\ GhostSet(history') \subseteq GhostSet(copy)
         /\ \A m \in GhostSet(copy) \ GhostSet(history') : pc = "restore" /\ copy[LastGhost(copy)].n = m
<1>1. pc = "restore" /\ GhostSet(copy) # {} /\ Shown(copy) = Shown(history)
  BY DEF Accounted, Copied, Restored, At
<1>2. history' = RemoveAt(copy, LastGhost(copy))
  BY DEF Restored
<1> QED
  BY <1>1, <1>2, GhostRemoved, Quietly

\* The end of a compaction or an undo: nothing is copied any more.
LEMMA WriteBack ==
  ASSUME Accounted, task # "none", copy' = <<>>, pc' \in {"model", "flush"},
         history' \in Seq(Thing), hand' \in Seq(Logged), Len(hand') <= 1, retries' \in 0 .. MaxRetries,
         Quiet, UNCHANGED <<task, taking, unsent, left>>
  PROVE  Kept' /\ Places' /\ Copied'
<1>1. Kept /\ Places
  BY DEF Accounted
<1>2. pc' \notin Copying
  BY DEF Copying
<1>3. Kept'
  BY <1>1, NothingInHand DEF Kept, Quiet, rollout
<1>4. Places' /\ Copied'
  BY <1>1, <1>2, GhostSetEmpty DEF Places, Copied, Quiet, rollout, Copying
<1> QED
  BY <1>3, <1>4

LEMMA ReplaceAccounted ==
  ASSUME Accounted, Replace
  PROVE  StepOK
<1>1. LogInv /\ Kept /\ Places /\ Copied /\ Tells
  BY DEF Accounted
<1>2. PICK x \in Summaries : hand' = <<LocalEntry(x)>> /\ Shown(history') = Shown(Compacted(copy, x))
  BY ReplaceWrites
<1> DEFINE e == LocalEntry(x)
<1>3. e \in Logged /\ e.kind = "compacted" /\ e.by = "local" /\ e.with[1] = x
  BY DEF LocalEntry, Logged, Locals
<1> HIDE DEF e
<1>4. pc = "replace" /\ hand = <<>> /\ task # "none" /\ pc' \in {"model", "flush"} /\ copy' = <<>> /\ retries' = 0
  BY Quietly DEF Replace, At, Return, Goto
<1>5. hand' \in Seq(Logged) /\ Len(hand') <= 1 /\ hand' = <<e>>
  BY <1>2, <1>3, OneInHand DEF e
<1>6. Kept' /\ Places' /\ Copied'
  BY <1>4, <1>5, ReplaceWrites, WriteBack, Quietly DEF Replace
<1>7. Shown(Rebuilt) = Shown(history) => Shown(Replayed(Rebuilt, e)) = Shown(history')
  <2>1. Shown(copy) = Shown(history)
    BY <1>1, <1>4 DEF Copied
  <2>2. Rebuilt \in Seq(Thing)
    BY <1>1, RebuiltType
  <2>3. Replayed(Rebuilt, e) = Compacted(Rebuilt, x)
    BY <1>3 DEF Replayed
  <2>4. Shown(Rebuilt) = Shown(copy) => Compacted(Rebuilt, x) = Compacted(copy, x)
    BY <2>2, CompactedShown, Quietly
  <2> QED
    BY <1>2, <2>1, <2>3, <2>4
<1>8. Tells'
  BY <1>1, <1>3, <1>4, <1>5, <1>7, TellsMore DEF Replace, Quiet, rollout
<1> QED
  BY <1>6, <1>8 DEF StepOK

LEMMA RemoteReplaceAccounted ==
  ASSUME Accounted, RemoteReplace
  PROVE  StepOK
<1>1. LogInv /\ Kept /\ Places /\ Copied /\ Tells
  BY DEF Accounted
<1> DEFINE e == RemoteEntry(history')
<1>2. e \in Logged /\ e.kind = "compacted" /\ e.by = "remote" /\ e.with = history'
  BY RemoteReplaceWrites DEF RemoteEntry, Logged, Remotes
<1> HIDE DEF e
<1>3. pc = "request" /\ hand = <<>> /\ task # "none" /\ pc' \in {"model", "flush"} /\ copy' = <<>> /\ retries' = 0
  BY Quietly DEF RemoteReplace, At, Return, Goto
<1>4. hand' \in Seq(Logged) /\ Len(hand') <= 1 /\ hand' = <<e>>
  BY <1>2, RemoteReplaceWrites, OneInHand DEF e
<1>5. Kept' /\ Places' /\ Copied'
  BY <1>3, <1>4, RemoteReplaceWrites, WriteBack, Quietly DEF RemoteReplace
<1>6. Replayed(Rebuilt, e) = history'
  BY <1>2 DEF Replayed
<1>7. Tells'
  BY <1>1, <1>2, <1>3, <1>4, <1>6, TellsMore DEF RemoteReplace, Quiet, rollout
<1> QED
  BY <1>5, <1>7 DEF StepOK

LEMMA RestoredAccounted ==
  ASSUME Accounted, Restored
  PROVE  StepOK
<1>1. LogInv /\ Kept /\ Places /\ Copied /\ Tells
  BY DEF Accounted
<1>2. pc' = "flush" /\ hand = <<>> /\ hand' = hand /\ task # "none" /\ copy' = <<>>
  BY Quietly DEF Restored, At, Goto
<1>3. Kept' /\ Places' /\ Copied'
  <2>1. hand' \in Seq(Logged) /\ Len(hand') <= 1
    BY <1>2, NothingInHand
  <2> QED
    BY <1>2, <2>1, RestoredWrites, WriteBack, Quietly DEF Restored
<1>4. Tells'
  BY <1>1, RestoredWrites, TellsSame DEF Restored, Quiet, rollout
<1> QED
  BY <1>3, <1>4 DEF StepOK

LEMMA AbortAccounted ==
  ASSUME Accounted, Abort
  PROVE  StepOK
<1>1. LogInv /\ Kept /\ Places /\ Copied /\ Tells
  BY DEF Accounted
<1>2. left' \in [Bounded -> Nat] /\ taking' \subseteq Nat /\ unsent' \subseteq Nat
  <2>1. Spend("fault") /\ "fault" \in Bounded
    BY DEF Abort, Bounded
  <2> QED
    BY <2>1, Spent, Quietly DEF Abort, Drop
<1>3. /\ task' = "none" /\ pc' = "idle" /\ pc' \notin Copying /\ hand' = <<>> /\ copy' = <<>> /\ retries' = 0
      /\ history' = history /\ remote' = remote /\ session' = session /\ session = "live"
      /\ cut' = (cut \/ hand # <<>>)
  BY DEF Abort, Drop, Goto, Copying
<1>4. UNCHANGED <<sent, next, writer, recorder, lines, tail, opened>>
  BY DEF Abort, ForgetFlush, rollout
<1>5. Kept'
  BY <1>1, <1>2, <1>3, <1>4, NothingInHand, Quietly DEF Kept
<1>6. Places' /\ Copied'
  BY <1>1, <1>3, <1>4, GhostSetEmpty DEF Places, Copied
<1>7. Tells'
  <2>1. CASE hand = <<>>
    BY <1>1, <1>3, <1>4, <2>1, TellsSame
  <2>2. CASE hand # <<>>
    BY <1>3, <2>2, TellsNothing
  <2> QED
    BY <2>1, <2>2
<1> QED
  BY <1>5, <1>6, <1>7 DEF StepOK

LEMMA ShutdownAccounted ==
  ASSUME Accounted, Shutdown
  PROVE  StepOK
<1>1. Kept /\ Places /\ Copied
  BY DEF Accounted
<1>2. left' \in [Bounded -> Nat]
  <2>1. Spend("end") /\ "end" \in Bounded
    BY DEF Shutdown, Bounded
  <2> QED
    BY <2>1, Spent, Quietly
<1>3. Kept'
  BY <1>1, <1>2 DEF Kept, Shutdown, TakeRecorder
<1>4. Places' /\ Copied'
  BY <1>1 DEF Places, Copied, Shutdown
<1>5. Tells'
  BY TellsNothing DEF Shutdown
<1> QED
  BY <1>3, <1>4, <1>5 DEF StepOK

LEMMA ProcessGoneAccounted ==
  ASSUME Accounted, ProcessGone, left' \in [Bounded -> Nat]
  PROVE  StepOK
<1>1. Kept
  BY DEF Accounted
<1>2. /\ task' = "none" /\ pc' = "idle" /\ pc' \notin Copying /\ hand' = <<>> /\ copy' = <<>> /\ retries' = 0
      /\ history' = <<>> /\ UNCHANGED <<remote, cut, sent>> /\ session' = "down" /\ taking' = {} /\ unsent' = {}
  BY DEF ProcessGone, ProcessEnds, Goto, Copying
<1>3. Kept'
  BY <1>1, <1>2, NothingInHand, Quietly DEF Kept
<1>4. Places' /\ Copied'
  BY <1>2, GhostSetEmpty DEF Places, Copied
<1>5. Tells'
  BY <1>2, TellsNothing
<1> QED
  BY <1>3, <1>4, <1>5 DEF StepOK

\* A crash takes two of the budget.
LEMMA CrashSpends ==
  ASSUME left \in [Bounded -> Nat], Crash
  PROVE  left' \in [Bounded -> Nat]
<1> DEFINE mid == [left EXCEPT !["fault"] = @ - 1]
<1>1. left["fault"] > 0 /\ left["end"] > 0 /\ left' = [left EXCEPT !["fault"] = @ - 1, !["end"] = @ - 1]
  BY DEF Crash
<1>2. "fault" \in Bounded /\ "end" \in Bounded /\ "fault" # "end"
  BY DEF Bounded
<1>3. left["fault"] - 1 \in Nat /\ left["end"] - 1 \in Nat
  BY <1>1, <1>2
<1>4. left' = [b \in Bounded |-> IF b = "end" THEN left["end"] - 1
                               ELSE IF b = "fault" THEN left["fault"] - 1 ELSE left[b]]
  BY <1>1, <1>2
<1> QED
  BY <1>3, <1>4

\* A session that is resumed has what its log tells, and nothing in hand.
LEMMA ResumeAccounted ==
  ASSUME Accounted, Resume
  PROVE  StepOK
<1>1. LogInv /\ Kept /\ Places /\ Copied /\ Tells
  BY DEF Accounted
<1>2. /\ hand = <<>> /\ hand' = <<>> /\ copy = <<>> /\ copy' = <<>> /\ pc' = "flush" /\ pc' \notin Copying
      /\ task' = "start" /\ session' = "live" /\ recorder' = TRUE /\ cut' = FALSE
  <2>1. pc = "idle" /\ pc \notin Copying
    BY <1>1 DEF Places, Resume, Copying
  <2> QED
    BY <1>1, <2>1 DEF Places, Resume, Reopen, Goto, Copying
<1> DEFINE es == Entries(Readable)
<1>3. es \in Seq(Logged)
  BY <1>1, EntriesAre DEF Kept, Entries, EntriesOf
<1>4. UNCHANGED <<sent, next, lines, tail>> /\ next = Len(sent)
  BY <1>1 DEF LogInv, Follows, Resume, Reopen
<1>5. history' = Reconstruct(es) /\ history' \in Seq(Thing)
  BY <1>3, ReconstructType DEF Resume
<1>6. Rebuilt' = Reconstruct(es)
  <2>1. Numbers' = Readable
    <3>1. Readable' = Readable
      BY <1>4 DEF Readable, Stored
    <3>2. next' + 1 .. Len(sent') = {}
      BY <1>1, <1>4 DEF LogInv, Typed
    <3> QED
      BY <3>1, <3>2 DEF Numbers
  <2>2. Entries(Numbers)' = es
    BY <1>4, <2>1 DEF Entries
  <2>3. Rebuilt' = Reconstruct(es \o <<>>)
    BY <1>2, <2>2 DEF Rebuilt
  <2> HIDE DEF es
  <2> QED
    BY <1>3, <2>3, RebuiltAppend
<1>7. Kept'
  BY <1>1, <1>2, <1>4, <1>5 DEF Kept, Resume
<1>8. Places' /\ Copied'
  BY <1>2, GhostSetEmpty DEF Places, Copied
<1>9. Tells'
  BY <1>5, <1>6 DEF Tells
<1> QED
  BY <1>7, <1>8, <1>9 DEF StepOK

LEMMA FaultAccounted ==
  ASSUME Accounted, Fault
  PROVE  StepOK
<1>1. Kept /\ Places /\ Copied
  BY DEF Accounted
<1>2. left' \in [Bounded -> Nat]
  <2>1. Spend("fault") /\ "fault" \in Bounded
    BY DEF Fault, Bounded
  <2> QED
    BY <2>1, Spent, Quietly
<1>3. Kept' /\ Places' /\ Copied'
  BY <1>1, <1>2 DEF Kept, Places, Copied, Fault, WriteFails, local
<1>4. Tells'
  <2>1. writer' # "up"
    BY DEF Fault, WriteFails
  <2> QED
    BY <2>1, TellsNothing
<1> QED
  BY <1>3, <1>4 DEF StepOK

LEMMA WriterAccounted ==
  ASSUME Accounted, Writer
  PROVE  StepOK
<1>1. LogInv /\ Kept /\ Places /\ Copied /\ Tells
  BY DEF Accounted
<1>2. Kept' /\ Places' /\ Copied'
  BY <1>1 DEF Kept, Places, Copied, Writer, WriteLine, FlushDone, local
<1>3. CASE WriteLine
  BY <1>1, <1>2, <1>3, TellsWritten DEF StepOK, Writer, local
<1>4. CASE FlushDone
  <2>1. Tells'
    BY <1>1, <1>4, TellsSame DEF FlushDone, Writer, local
  <2> QED
    BY <1>2, <2>1 DEF StepOK
<1> QED
  BY <1>3, <1>4 DEF Writer

LEMMA StutterAccounted ==
  ASSUME Accounted, UNCHANGED vars
  PROVE  StepOK
<1>1. LogInv /\ Kept /\ Places /\ Copied /\ Tells
  BY DEF Accounted
<1>2. Kept' /\ Places' /\ Copied'
  BY <1>1 DEF Kept, Places, Copied, vars, local, rollout
<1>3. Tells'
  BY <1>1, TellsSame DEF vars, local, rollout
<1> QED
  BY <1>2, <1>3 DEF StepOK

LEMMA ConversationStep == Accounted /\ [Next]_vars => Accounted'
<1> SUFFICES ASSUME Accounted, [Next]_vars PROVE Accounted'
  OBVIOUS
<1>1. LogInv'
  BY StepIsRecorders, StepHolds DEF Accounted
<1>2. StepOK
  <2>1. CASE Step
    BY <2>1, PersistAccounted, StartGhostAccounted, TurnEndsAccounted, AttemptCompletesAccounted,
       AttemptTooLongAccounted, AttemptFailsAccounted, ReplaceAccounted, RemoteReplaceAccounted,
       RemoteFailsAccounted, RestoredAccounted, RestoreFailsAccounted, StartFlushAccounted,
       TaskEndsAccounted, ReplyAccounted, DraftAccounted, CompactAccounted DEF Step
  <2>2. CASE Exit
    BY <2>2, ProcessGoneAccounted, Quietly DEF Exit
  <2>3. CASE Crash
    BY <2>3, ProcessGoneAccounted, CrashSpends, Quietly DEF Crash
  <2> QED
    BY <2>1, <2>2, <2>3, StartTurnAccounted, StartUndoAccounted, GhostTakenAccounted, GhostSentAccounted,
       AbortAccounted, ShutdownAccounted, ResumeAccounted, WriterAccounted, FaultAccounted, StutterAccounted
    DEF Next
<1> QED
  BY <1>1, <1>2 DEF StepOK, Accounted

LEMMA ConversationStart == Init => Accounted
<1> SUFFICES ASSUME Init PROVE Accounted
  OBVIOUS
<1>1. LogInv
  BY InitHolds DEF Init
<1>2. Context \in Clean /\ Context \in Thing /\ Context \in Logged
  <2>1. "context" \in Kinds /\ "context" # "draft" /\ 0 \in Nat
    BY DEF Kinds
  <2> QED
    BY <2>1, ItemType, CleanIsLogged DEF Context
<1>3. history = <<Context>> /\ hand = <<Context>> /\ copy = <<>> /\ sent = <<>> /\ next = 0
  BY DEF Init, RolloutInit
<1>4. <<Context>> \in Seq(Thing) /\ <<>> \in Seq(Logged)
  <2> HIDE DEF Thing, Logged, Context
  <2> QED
    BY <1>2
<1>5. Kept
  <2>1. left \in [Bounded -> Nat]
    BY ConversationAssumption DEF Init
  <2>2. history \in Seq(Thing) /\ copy \in Seq(Thing) /\ sent \in Seq(Logged)
    BY <1>3, <1>4, NothingInHand
  <2>3. hand \in Seq(Logged) /\ Len(hand) <= 1
    BY <1>2, <1>3, OneInHand
  <2>4. /\ taking = {} /\ unsent = {} /\ retries = 0 /\ remote \in BOOLEAN /\ cut = FALSE
        /\ session = "live" /\ task = "start" /\ pc = "flush"
    BY DEF Init
  <2>5. taking \subseteq Nat /\ unsent \subseteq Nat
    BY <2>4
  <2>6. retries \in 0 .. MaxRetries
    <3>1. 0 \in 0 .. MaxRetries
      BY ConversationAssumption
    <3> QED
      BY <2>4, <3>1
  <2>7. cut \in BOOLEAN
    BY <2>4
  <2> QED
    BY <2>1, <2>2, <2>3, <2>4, <2>5, <2>6, <2>7 DEF Kept
<1>6. Places /\ Copied
  BY <1>3, GhostSetEmpty DEF Places, Copied, Init, RolloutInit, Copying
<1>7. Tells
  <2>1. Entries(Numbers) = <<>>
    BY <1>3, EntriesNone, EntriesIs
  <2>2. Rebuilt = Reconstruct(<<>> \o <<Context>>)
    BY <1>3, <2>1 DEF Rebuilt
  <2>3. Rebuilt = Replayed(<<>>, Context)
    BY <1>4, <2>2, RebuiltAppend, ReconstructNone
  <2>4. Rebuilt = <<Context>>
    <3>1. Replayed(<<>>, Context) = Append(<<>>, Context)
      BY DEF Replayed, Context, Item
    <3>2. Append(<<>>, Context) = <<Context>>
      <4> HIDE DEF Context
      <4> QED
        OBVIOUS
    <3> QED
      BY <2>3, <3>1, <3>2
  <2> QED
    BY <1>3, <2>4 DEF Tells
<1> QED
  BY <1>1, <1>5, <1>6, <1>7 DEF Accounted

\* What holds of every conversation, for any budgets and limits: which items
\* the history, the copy, the hand and the log can have, where a task can be,
\* and what the log tells.
THEOREM ConversationAccounted == Spec => []Accounted
<1> QED
  BY ConversationStart, ConversationStep, PTL DEF Spec

\* Whenever nothing of a session is lost (record_conversation_items,
\* reconstruct_history_from_rollout), a resume shows the model what the live
\* session shows it: for any turns, snapshots, compactions and undos.
THEOREM LogTells == Spec => []LogTellsHistory
<1>1. Accounted => LogTellsHistory
  <2> SUFFICES ASSUME Accounted, NothingLost PROVE Told = OfKinds(history, Kinds \ {"ghost", "draft"})
    BY DEF LogTellsHistory
  <2>1. Rebuilt \in Seq(Clean) /\ Shown(Rebuilt) = Shown(history)
    BY RebuiltType DEF Accounted, Tells
  <2>2. Told = Prompt(Rebuilt)
    BY DEF Told, Rebuilt, Numbers
  <2>3. Prompt(Rebuilt) = Shown(Rebuilt)
    BY <2>1, PromptIsShown
  <2> QED
    BY <2>1, <2>2, <2>3 DEF Shown, Plain
<1> QED
  BY <1>1, ConversationAccounted, PTL

\* Which snapshots a step of a live session may take from the history.
Accounts == session = "live" /\ session' = "live" =>
              /\ \A t \in (Snapshots \ Snapshots') \intersect CopiedSnapshots :
                    pc = "restore" /\ copy[LastGhost(copy)].n = t
              /\ \A t \in Snapshots' \ Snapshots : t \in taking

LEMMA SnapshotsAre ==
  Snapshots = GhostSet(history) /\ Snapshots' = GhostSet(history') /\ CopiedSnapshots = GhostSet(copy)
BY DEF Snapshots, CopiedSnapshots, GhostSet

\* One item more, no snapshot.
LEMMA OtherAccounts ==
  ASSUME Accounted, NEW x \in Thing, x.kind # "ghost", history' = Append(history, x)
  PROVE  Accounts
<1>1. Adds(history, history', x)
  BY AppendAdds, Quietly
<1> QED
  BY <1>1, SnapshotsAre DEF Adds, Accounts

LEMMA SameAccounts ==
  ASSUME history' = history \/ session # "live" \/ session' # "live"
  PROVE  Accounts
BY SnapshotsAre DEF Accounts

LEMMA SnapshotStep == Accounted /\ [Next]_vars => Accounts
<1> SUFFICES ASSUME Accounted, [Next]_vars PROVE Accounts
  OBVIOUS
<1>1. Kept
  BY DEF Accounted
<1>2. CASE StartTurn
  <2>1. "user" \in Kinds /\ left["turn"] \in Nat
    BY <1>1, TurnType DEF Kinds
  <2> QED
    BY <1>2, <2>1, ItemType, OtherAccounts DEF StartTurn, Record
<1>3. CASE Reply \/ Draft
  <2>1. {"reply", "draft"} \subseteq Kinds /\ left["item"] \in Nat
    BY <1>1 DEF Kept, Kinds, Bounded
  <2>2. history' = Append(history, Item("reply", left["item"])) \/ history' = Append(history, Item("draft", left["item"]))
    BY <1>3 DEF Reply, Draft, Record
  <2> QED
    BY <2>1, <2>2, ItemType, OtherAccounts
<1>4. CASE GhostTaken
  <2>1. PICK t \in taking : history' = Append(history, Item("ghost", t)) \/ history' = history
    BY <1>4 DEF GhostTaken
  <2>2. CASE history' = history
    BY <2>2, SameAccounts
  <2>3. CASE history' = Append(history, Item("ghost", t))
    <3> DEFINE x == Item("ghost", t)
    <3>1. x \in Thing /\ x.kind = "ghost" /\ x.n = t
      <4>1. t \in Nat /\ "ghost" \in Kinds
        BY <1>1 DEF Kept, Kinds
      <4> QED
        BY <4>1, ItemType
    <3>2. history' = Append(history, x)
      BY <2>3
    <3> HIDE DEF x
    <3>3. GhostSet(history') = GhostSet(history) \union {t}
      BY <3>1, <3>2, AppendAdds, Quietly DEF Adds
    <3> QED
      BY <3>3, SnapshotsAre DEF Accounts
  <2> QED
    BY <2>1, <2>2, <2>3
<1>5. CASE Replace \/ RemoteReplace
  <2>1. GhostSet(history') = GhostSet(copy) /\ GhostSet(copy) \subseteq GhostSet(history)
    BY <1>5, ReplaceWrites, RemoteReplaceWrites, Quietly
  <2> QED
    BY <2>1, SnapshotsAre DEF Accounts
<1>6. CASE Restored
  BY <1>6, RestoredWrites, SnapshotsAre, Quietly DEF Accounts
<1>7. CASE Persist \/ StartGhost \/ TurnEnds \/ AttemptCompletes \/ AttemptTooLong \/ AttemptFails
           \/ RemoteFails \/ RestoreFails \/ StartFlush \/ TaskEnds \/ Compact
  <2>1. history' = history
    BY <1>7 DEF Persist, StartGhost, TurnEnds, AttemptCompletes, AttemptTooLong, AttemptFails, RemoteFails,
                RestoreFails, StartFlush, TaskEnds, Compact
  <2> QED
    BY <2>1, SameAccounts
<1>8. CASE StartUndo \/ GhostSent \/ Abort \/ Shutdown \/ Writer \/ Fault \/ UNCHANGED vars
  <2>1. history' = history
    BY <1>8 DEF StartUndo, GhostSent, Abort, Shutdown, Writer, Fault, vars, local
  <2> QED
    BY <2>1, SameAccounts
<1>9. CASE Exit \/ Crash \/ Resume
  <2>1. session # "live" \/ session' # "live"
    BY <1>9 DEF Exit, Crash, Resume, ProcessGone
  <2> QED
    BY <2>1, SameAccounts
<1> QED
  BY <1>2, <1>3, <1>4, <1>5, <1>6, <1>7, <1>8, <1>9 DEF Next, Step

\* While a session lasts, a snapshot leaves the history by its undo, or because
\* it came after the copy that replaces the history (undo.rs, compact_remote.rs,
\* compact.rs); and only one that is being taken enters it.
THEOREM SnapshotsStay == Spec => SnapshotsAccounted
<1>1. Accounted /\ [Next]_vars => Accounts
  BY SnapshotStep
<1>2. Accounted /\ [Next]_vars =>
        [session = "live" /\ session' = "live" =>
           /\ \A t \in (Snapshots \ Snapshots') \intersect CopiedSnapshots :
                 pc = "restore" /\ copy[LastGhost(copy)].n = t
           /\ \A t \in Snapshots' \ Snapshots : t \in taking]_vars
  BY <1>1 DEF Accounts
<1> QED
  BY <1>2, ConversationAccounted, PTL DEF Spec, SnapshotsAccounted

=============================================================================
