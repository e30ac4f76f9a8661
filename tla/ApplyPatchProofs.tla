-------------------------- MODULE ApplyPatchProofs --------------------------
(***************************************************************************)
(* For every set of paths, every patch, every content of the files and     *)
(* every mode: what is reported as applied by the only attempt is what was *)
(* shown, and a move that is cut off leaves the file in one of its places. *)
(*                                                                         *)
(* And for every text and every list of chunks: what is replaced are the   *)
(* old lines of the chunks, one behind the other, and the replacements,    *)
(* sorted and applied from the last to the first, are the edit read place  *)
(* by place. For the rest the text an Update hunk derives is opaque: both  *)
(* readings of a file derive the same from the same text.                  *)
(***************************************************************************)
EXTENDS ApplyPatch, FiniteSetTheorems, WellFoundedInduction, SequenceTheorems, TLAPS

-----------------------------------------------------------------------------
(* Induction, and sequences joined                                          *)

\* A set of positions has a first one: below it there is the fewest.
LEMMA Least ==
  ASSUME NEW n \in Nat, NEW T \in SUBSET (1 .. n), T # {}
  PROVE  \E x \in T : \A y \in T : x <= y
<1> DEFINE Below(x) == {y \in T : y < x}
           All == {Below(x) : x \in T}
<1>1. IsWellFoundedOn(StrictSubsetOrdering(1 .. n), FiniteSubsetsOf(1 .. n))
  BY FS_StrictSubsetOrderingWellFounded
<1>2. All \subseteq FiniteSubsetsOf(1 .. n) /\ All # {}
  <2>1. FiniteSubsetsOf(1 .. n) = SUBSET (1 .. n)
    <3>1. IsFiniteSet(1 .. n)
      BY FS_Interval
    <3> QED
      BY <3>1, FS_FiniteSubsetsOfFinite
  <2>2. ASSUME NEW Y \in All PROVE Y \in SUBSET (1 .. n)
    <3>1. PICK x \in T : Y = Below(x)
      OBVIOUS
    <3> QED
      BY <3>1
  <2>3. All # {}
    OBVIOUS
  <2> HIDE DEF All
  <2> QED
    BY <2>1, <2>2, <2>3
<1>3. PICK X \in All : \A Y \in All : ~(<<Y, X>> \in StrictSubsetOrdering(1 .. n))
  <2> HIDE DEF All
  <2> QED
    BY <1>1, <1>2, WFMin
<1>4. PICK x \in T : X = Below(x)
  OBVIOUS
<1>5. ASSUME NEW y \in T, y < x PROVE FALSE
  <2>1. y \in Below(x) /\ y \notin Below(y) /\ \A z \in Below(y) : z \in Below(x)
    BY <1>5
  <2>2. <<Below(y), X>> \in StrictSubsetOrdering(1 .. n)
    BY <2>1, <1>4 DEF StrictSubsetOrdering
  <2> QED
    BY <2>2, <1>3
<1> QED
  BY <1>5

\* Induction, with the numbers a formula holds for as a set.
LEMMA Induction ==
  ASSUME NEW S \in SUBSET Nat, 0 \in S, \A n \in S : n + 1 \in S
  PROVE  \A n \in Nat : n \in S
<1> SUFFICES ASSUME NEW n \in Nat, n \notin S PROVE FALSE
  OBVIOUS
<1> DEFINE T == {m \in 1 .. n : m \notin S}
<1>1. n \in T
  OBVIOUS
<1>2. PICK x \in T : \A y \in T : x <= y
  BY <1>1, Least
<1>3. x - 1 \in Nat /\ x - 1 \notin T
  BY <1>2
<1>4. x - 1 \in S
  BY <1>2, <1>3
<1>5. (x - 1) + 1 \in S
  BY <1>4
<1> QED
  BY <1>2, <1>5

\* The function FlattenSeq is defined by, up to the n-th sequence.
Flattens(g, s, n) == g = [i \in 1 .. n |-> IF i = 1 THEN s[i] ELSE g[i-1] \o s[i]]

LEMMA FlattenIs ==
  ASSUME NEW s, Len(s) # 0
  PROVE  FlattenSeq(s) = (CHOOSE g : Flattens(g, s, Len(s)))[Len(s)]
BY Zenon DEF FlattenSeq, Flattens

LEMMA FlattenExists ==
  ASSUME NEW s
  PROVE  \A n \in Nat : \E g : Flattens(g, s, n)
<1> DEFINE S == {n \in Nat : \E g : Flattens(g, s, n)}
<1>1. 0 \in S
  <2>1. Flattens([i \in 1 .. 0 |-> s], s, 0)
    BY DEF Flattens
  <2> QED
    BY <2>1
<1>2. ASSUME NEW n \in S PROVE n + 1 \in S
  <2>1. PICK g : Flattens(g, s, n)
    OBVIOUS
  <2> DEFINE f == [i \in 1 .. n + 1 |-> IF i = n + 1
                                        THEN IF i = 1 THEN s[i] ELSE g[i-1] \o s[i]
                                        ELSE g[i]]
  <2>2. \A i \in 1 .. n : g[i] = IF i = 1 THEN s[i] ELSE g[i-1] \o s[i]
    BY <2>1 DEF Flattens
  <2>3. \A i \in 1 .. n : f[i] = g[i]
    OBVIOUS
  <2>4. \A i \in 1 .. n + 1 : f[i] = IF i = 1 THEN s[i] ELSE f[i-1] \o s[i]
    <3>1. ASSUME NEW i \in 1 .. n + 1 PROVE f[i] = IF i = 1 THEN s[i] ELSE f[i-1] \o s[i]
      <4>1. i # 1 => i - 1 \in 1 .. n
        OBVIOUS
      <4>2. i # 1 => f[i-1] = g[i-1]
        BY <4>1, <2>3
      <4>3. CASE i = n + 1
        <5>1. f[i] = IF i = 1 THEN s[i] ELSE g[i-1] \o s[i]
          BY <4>3
        <5> HIDE DEF f
        <5> QED
          BY <4>2, <5>1
      <4>4. CASE i # n + 1
        <5>1. i \in 1 .. n
          BY <4>4
        <5>2. f[i] = g[i]
          BY <5>1, <2>3
        <5> HIDE DEF f
        <5> QED
          BY <4>2, <5>1, <5>2, <2>2
      <4> QED
        BY <4>3, <4>4
    <3> QED
      BY <3>1
  <2>5. f = [i \in 1 .. n + 1 |-> f[i]]
    OBVIOUS
  <2>6. Flattens(f, s, n + 1)
    <3> HIDE DEF f
    <3> QED
      BY <2>4, <2>5 DEF Flattens
  <2> HIDE DEF f
  <2> QED
    BY <2>6
<1>3. S \in SUBSET Nat
  OBVIOUS
<1> HIDE DEF S
<1>4. \A n \in Nat : n \in S
  BY <1>1, <1>2, <1>3, Induction
<1> QED
  BY <1>4 DEF S

LEMMA FlattensAt ==
  ASSUME NEW s, NEW n \in Nat, NEW g, Flattens(g, s, n), NEW i \in 1 .. n
  PROVE  g[i] = IF i = 1 THEN s[i] ELSE g[i-1] \o s[i]
<1> DEFINE Turn(k) == IF k = 1 THEN s[k] ELSE g[k-1] \o s[k]
<1>1. g = [k \in 1 .. n |-> Turn(k)]
  BY DEF Flattens
<1> HIDE DEF Turn
<1>2. g[i] = Turn(i)
  BY <1>1
<1> QED
  BY <1>2 DEF Turn

LEMMA FlattensLast ==
  ASSUME NEW s, NEW n \in Nat, n # 0, NEW k \in Nat, k = n + 1, NEW g, Flattens(g, s, k)
  PROVE  g[k] = g[n] \o s[k]
<1>1. k \in 1 .. k /\ k # 1 /\ k - 1 = n
  OBVIOUS
<1> DEFINE Turn(i) == IF i = 1 THEN s[i] ELSE g[i-1] \o s[i]
<1>2. g = [i \in 1 .. k |-> Turn(i)]
  BY DEF Flattens
<1> HIDE DEF Turn
<1>3. g[k] = Turn(k)
  BY ONLY <1>1, <1>2
<1> QED
  BY ONLY <1>1, <1>3 DEF Turn

\* Sequences that begin alike are flattened alike.
LEMMA FlattenUnique ==
  ASSUME NEW s, NEW t, NEW n \in Nat, NEW m \in Nat, n <= m,
         \A i \in 1 .. n : s[i] = t[i],
         NEW f, NEW g, Flattens(f, s, n), Flattens(g, t, m)
  PROVE  \A i \in 1 .. n : f[i] = g[i]
<1> DEFINE S == {i \in Nat : i \in 1 .. n => f[i] = g[i]}
<1>1. 0 \in S
  OBVIOUS
<1>2. \A i \in 1 .. n : /\ f[i] = IF i = 1 THEN s[i] ELSE f[i-1] \o s[i]
                        /\ g[i] = IF i = 1 THEN t[i] ELSE g[i-1] \o t[i]
  <2>1. \A i \in 1 .. n : i \in 1 .. m
    OBVIOUS
  <2> QED
    BY <2>1, FlattensAt
<1>3. ASSUME NEW i \in S PROVE i + 1 \in S
  <2> SUFFICES ASSUME i + 1 \in 1 .. n PROVE f[i+1] = g[i+1]
    OBVIOUS
  <2>1. (i + 1) - 1 = i /\ (i + 1 # 1 => f[i] = g[i])
    OBVIOUS
  <2>2. /\ f[i+1] = IF i + 1 = 1 THEN s[i+1] ELSE f[i] \o s[i+1]
        /\ g[i+1] = IF i + 1 = 1 THEN t[i+1] ELSE g[i] \o t[i+1]
    BY <1>2, <2>1
  <2>3. s[i+1] = t[i+1]
    OBVIOUS
  <2> QED
    BY <2>1, <2>2, <2>3
<1>4. S \in SUBSET Nat
  OBVIOUS
<1> HIDE DEF S
<1>5. \A i \in Nat : i \in S
  BY <1>1, <1>3, <1>4, Induction
<1> QED
  BY <1>5 DEF S

LEMMA FlattenTo ==
  ASSUME NEW s, Len(s) \in Nat, Len(s) # 0, NEW t, NEW m \in Nat, Len(s) <= m,
         \A i \in 1 .. Len(s) : s[i] = t[i], NEW g, Flattens(g, t, m)
  PROVE  FlattenSeq(s) = g[Len(s)]
<1> DEFINE n == Len(s)
           f == CHOOSE f : Flattens(f, s, n)
<1>1. n \in Nat /\ Len(s) = n /\ n # 0 /\ n <= m /\ \A i \in 1 .. n : s[i] = t[i]
  OBVIOUS
<1> HIDE DEF n
<1>2. FlattenSeq(s) = f[n]
  BY <1>1, FlattenIs
<1>3. Flattens(f, s, n)
  BY <1>1, FlattenExists
<1> HIDE DEF f
<1>4. n \in 1 .. n
  BY <1>1
<1>5. \A i \in 1 .. n : f[i] = g[i]
  <2>1. /\ n \in Nat /\ m \in Nat /\ n <= m /\ \A i \in 1 .. n : s[i] = t[i]
        /\ Flattens(f, s, n) /\ Flattens(g, t, m)
    BY <1>1, <1>3
  <2> QED
    BY ONLY <2>1, FlattenUnique
<1>6. FlattenSeq(s) = g[n]
  BY ONLY <1>2, <1>4, <1>5
<1> QED
  BY ONLY Zenon, <1>6 DEF n

LEMMA FlattenSelf ==
  ASSUME NEW t, Len(t) \in Nat, Len(t) # 0, NEW g, Flattens(g, t, Len(t))
  PROVE  FlattenSeq(t) = g[Len(t)]
<1>1. Len(t) <= Len(t) /\ \A i \in 1 .. Len(t) : t[i] = t[i]
  OBVIOUS
<1>2. Len(t) \in Nat /\ Len(t) # 0 /\ Flattens(g, t, Len(t))
  OBVIOUS
<1> QED
  BY ONLY <1>1, <1>2, FlattenTo

\* A sequence of sequences that becomes longer by one.
LEMMA FlattenOneMore ==
  ASSUME NEW s, NEW t, Len(s) \in Nat, Len(s) # 0, Len(t) = Len(s) + 1,
         \A i \in 1 .. Len(s) : s[i] = t[i]
  PROVE  FlattenSeq(t) = FlattenSeq(s) \o t[Len(t)]
<1>1. Len(t) \in Nat /\ Len(t) # 0
  OBVIOUS
<1>2. PICK g : Flattens(g, t, Len(t))
  BY <1>1, FlattenExists
<1>3. FlattenSeq(t) = g[Len(t)]
  BY ONLY <1>1, <1>2, FlattenSelf
<1>4. Len(s) \in Nat /\ Len(s) # 0 /\ Len(t) = Len(s) + 1
  OBVIOUS
<1>5. g[Len(t)] = g[Len(s)] \o t[Len(t)]
  BY ONLY Zenon, <1>1, <1>2, <1>4, FlattensLast
<1>6. FlattenSeq(s) = g[Len(s)]
  <2>1. Len(s) \in Nat /\ Len(s) # 0 /\ Len(s) <= Len(t) /\ \A i \in 1 .. Len(s) : s[i] = t[i]
    OBVIOUS
  <2> QED
    BY ONLY <1>1, <1>2, <2>1, FlattenTo
<1> QED
  BY ONLY Zenon, <1>3, <1>5, <1>6

LEMMA FlattenOne ==
  ASSUME NEW t, Len(t) = 1
  PROVE  FlattenSeq(t) = t[1]
<1>1. Len(t) \in Nat /\ Len(t) # 0 /\ 1 \in 1 .. Len(t) /\ Len(t) = 1
  OBVIOUS
<1>2. PICK g : Flattens(g, t, Len(t))
  BY <1>1, FlattenExists
<1>3. FlattenSeq(t) = g[Len(t)]
  BY ONLY <1>1, <1>2, FlattenSelf
<1>4. g[1] = IF 1 = 1 THEN t[1] ELSE g[1 - 1] \o t[1]
  BY ONLY <1>1, <1>2, FlattensAt
<1> QED
  BY ONLY <1>1, <1>3, <1>4

\* A sequence of sequences that becomes longer by one.
LEMMA FlattenAppend ==
  ASSUME NEW S, NEW s \in Seq(Seq(S)), NEW x \in Seq(S)
  PROVE  FlattenSeq(Append(s, x)) = FlattenSeq(s) \o x
<1> DEFINE t == Append(s, x)
           n == Len(s)
           k == n + 1
<1>1. /\ n \in Nat /\ k = n + 1 /\ Len(s) = n /\ Len(t) = k
      /\ \A i \in 1 .. n : s[i] = t[i]
  OBVIOUS
<1>2. t[k] = x
  OBVIOUS
<1>3. n = 0 => s = <<>> /\ FlattenSeq(s) = s
  <2>1. n = 0 => s = <<>>
    OBVIOUS
  <2>2. n = 0 => FlattenSeq(s) = s
    BY Zenon DEF FlattenSeq, n
  <2> QED
    BY <2>1, <2>2
<1>4. <<>> \o x = x
  BY ConcatEmptySeq
<1> HIDE DEF t, n, k
<1>5. ASSUME n = 0 PROVE FlattenSeq(t) = FlattenSeq(s) \o x
  <2>1. k = 1 /\ Len(t) = 1
    BY <1>1, <1>5
  <2>2. FlattenSeq(t) = t[k]
    BY ONLY <2>1, FlattenOne
  <2>3. s = <<>> /\ FlattenSeq(s) = s
    BY Zenon, <1>3, <1>5
  <2>4. FlattenSeq(s) \o x = x
    BY ONLY Zenon, <2>3, <1>4
  <2> QED
    BY ONLY Zenon, <2>2, <2>4, <1>2
<1>6. ASSUME n # 0 PROVE FlattenSeq(t) = FlattenSeq(s) \o x
  <2>1. /\ Len(s) \in Nat /\ Len(s) # 0 /\ Len(t) = Len(s) + 1
        /\ \A i \in 1 .. Len(s) : s[i] = t[i]
    BY ONLY <1>1, <1>6
  <2>2. FlattenSeq(t) = FlattenSeq(s) \o t[Len(t)]
    BY ONLY <2>1, FlattenOneMore
  <2>3. t[Len(t)] = x
    BY ONLY <1>1, <1>2
  <2> QED
    BY ONLY Zenon, <2>2, <2>3
<1>7. FlattenSeq(t) = FlattenSeq(s) \o x
  BY ONLY Zenon, <1>5, <1>6
<1> QED
  BY ONLY Zenon, <1>7 DEF t

LEMMA FlattenType ==
  ASSUME NEW S
  PROVE  \A s \in Seq(Seq(S)) : FlattenSeq(s) \in Seq(S)
<1> DEFINE N == {n \in Nat : \A s \in Seq(Seq(S)) : Len(s) = n => FlattenSeq(s) \in Seq(S)}
<1>1. 0 \in N
  <2>1. ASSUME NEW s \in Seq(Seq(S)), Len(s) = 0 PROVE FlattenSeq(s) \in Seq(S)
    <3>1. FlattenSeq(s) = s
      BY <2>1, Zenon DEF FlattenSeq
    <3>2. s = <<>>
      BY <2>1
    <3> QED
      BY <3>1, <3>2
  <2> QED
    BY <2>1
<1>2. ASSUME NEW n \in N PROVE n + 1 \in N
  <2>1. ASSUME NEW s \in Seq(Seq(S)), Len(s) = n + 1 PROVE FlattenSeq(s) \in Seq(S)
    <3>1. PICK t \in Seq(Seq(S)), x \in Seq(S) : s = Append(t, x) /\ Len(t) = n
      <4>1. /\ s = Append(SubSeq(s, 1, n), s[n+1])
            /\ SubSeq(s, 1, n) \in Seq(Seq(S)) /\ Len(SubSeq(s, 1, n)) = n
        BY <2>1
      <4>2. s[n+1] \in Seq(S)
        BY <2>1
      <4> QED
        BY <4>1, <4>2
    <3>2. FlattenSeq(t) \in Seq(S)
      BY <3>1
    <3>3. FlattenSeq(t) \o x \in Seq(S)
      BY <3>2, ConcatProperties
    <3> QED
      BY <3>1, <3>3, FlattenAppend
  <2> QED
    BY <2>1
<1>3. N \in SUBSET Nat
  OBVIOUS
<1> HIDE DEF N
<1>4. \A n \in Nat : n \in N
  BY <1>1, <1>2, <1>3, Induction
<1> QED
  BY <1>4 DEF N

-----------------------------------------------------------------------------
(* The function ApplyReplacements is defined by                             *)

\* The replacements of a text of n lines.
Edits(n) == {r \in [at : 0..n, len : Nat, new : Seq(Lines)] : r.at + r.len <= n}

Applied(g, lines, sorted, m) ==
  g = [k \in 0..m |-> IF k = 0 THEN lines ELSE Replace(sorted[m + 1 - k], g[k - 1])]

LEMMA AppliedExists ==
  ASSUME NEW lines, NEW sorted, NEW m \in Nat
  PROVE  \E g : Applied(g, lines, sorted, m)
<1> DEFINE Turn(k, x) == IF k = 0 THEN lines ELSE Replace(sorted[m + 1 - k], x)
           S == {n \in Nat : \E g : \A k \in 0..n : g[k] = Turn(k, g[k - 1])}
<1> HIDE DEF Turn
<1>1. 0 \in S
  <2>2. Turn(0, 0) = lines /\ \A x : Turn(0, x) = lines
    BY DEF Turn
  <2>3. \A k \in 0..0 : [i \in 0..0 |-> lines][k] = Turn(k, [i \in 0..0 |-> lines][k - 1])
    BY <2>2
  <2> QED
    BY <2>3
<1>2. ASSUME NEW n \in S PROVE n + 1 \in S
  <2>1. PICK g : \A k \in 0..n : g[k] = Turn(k, g[k - 1])
    OBVIOUS
  <2> DEFINE f == [k \in 0..n + 1 |-> IF k = n + 1 THEN Turn(k, g[n]) ELSE g[k]]
  <2>2. \A k \in 0..n : f[k] = g[k]
    OBVIOUS
  <2>3. f[n + 1] = Turn(n + 1, g[n])
    OBVIOUS
  <2>4. n \in Nat
    OBVIOUS
  <2> HIDE DEF f
  <2>5. ASSUME NEW k \in 0..n + 1 PROVE f[k] = Turn(k, f[k - 1])
    <3>1. CASE k = n + 1
      <4>1. k - 1 = n /\ n \in 0..n
        BY <3>1, <2>4
      <4> QED
        BY <4>1, <3>1, <2>2, <2>3
    <3>2. CASE k = 0
      <4>1. \A x, y : Turn(0, x) = Turn(0, y)
        BY DEF Turn
      <4> QED
        BY <4>1, <3>2, <2>1, <2>2, <2>4
    <3>3. CASE k # 0 /\ k # n + 1
      <4>1. k \in 0..n /\ k - 1 \in 0..n
        BY <3>3, <2>4
      <4> QED
        BY <4>1, <2>1, <2>2
    <3> QED
      BY <3>1, <3>2, <3>3
  <2> QED
    BY <2>4, <2>5
<1>3. S \in SUBSET Nat
  OBVIOUS
<1> HIDE DEF S
<1>4. m \in S
  BY <1>1, <1>2, <1>3, Induction
<1>5. PICK g : \A k \in 0..m : g[k] = Turn(k, g[k - 1])
  BY <1>4 DEF S
<1> DEFINE f == [k \in 0..m |-> g[k]]
<1>6. \A k \in 0..m : f[k] = g[k]
  OBVIOUS
<1>7. \A k \in 0..m : f[k] = Turn(k, f[k - 1])
  <2>1. ASSUME NEW k \in 0..m PROVE f[k] = Turn(k, f[k - 1])
    <3>1. CASE k = 0
      <4>1. \A x, y : Turn(0, x) = Turn(0, y)
        BY DEF Turn
      <4> QED
        BY <4>1, <3>1, <1>5, <1>6
    <3>2. CASE k # 0
      <4>1. k - 1 \in 0..m
        BY <3>2
      <4> QED
        BY <4>1, <1>5, <1>6
    <3> QED
      BY <3>1, <3>2
  <2> QED
    BY <2>1
<1>8. f = [k \in 0..m |-> Turn(k, f[k - 1])]
  <2>1. f = [k \in 0..m |-> f[k]]
    OBVIOUS
  <2> HIDE DEF f
  <2> QED
    BY <2>1, <1>7
<1>9. Applied(f, lines, sorted, m)
  <2> HIDE DEF f
  <2> QED
    BY <1>8 DEF Applied, Turn
<1> QED
  BY <1>9

LEMMA AppliedAt ==
  ASSUME NEW lines, NEW sorted, NEW m \in Nat, NEW g, Applied(g, lines, sorted, m)
  PROVE  /\ g[0] = lines
         /\ \A k \in 1..m : g[k] = Replace(sorted[m + 1 - k], g[k - 1])
<1> DEFINE Turn(k, x) == IF k = 0 THEN lines ELSE Replace(sorted[m + 1 - k], x)
<1>1. g = [k \in 0..m |-> Turn(k, g[k - 1])]
  BY DEF Applied
<1>2. Turn(0, g[0 - 1]) = lines
  OBVIOUS
<1>3. \A k \in 1..m : Turn(k, g[k - 1]) = Replace(sorted[m + 1 - k], g[k - 1])
  OBVIOUS
<1> HIDE DEF Turn
<1>4. \A k \in 0..m : g[k] = Turn(k, g[k - 1])
  BY <1>1
<1>5. 0 \in 0..m /\ \A k \in 1..m : k \in 0..m
  OBVIOUS
<1> QED
  BY <1>2, <1>3, <1>4, <1>5

LEMMA ApplyReplacementsIs ==
  ASSUME NEW lines, NEW rs, Len(rs) \in Nat
  PROVE  \E g : Applied(g, lines, Sorted(rs), Len(rs)) /\ ApplyReplacements(lines, rs) = g[Len(rs)]
<1> DEFINE g == CHOOSE g : Applied(g, lines, Sorted(rs), Len(rs))
<1>1. Applied(g, lines, Sorted(rs), Len(rs))
  BY AppliedExists
<1>2. ApplyReplacements(lines, rs) = g[Len(rs)]
  BY Zenon DEF ApplyReplacements, Applied
<1> QED
  BY <1>1, <1>2
-----------------------------------------------------------------------------
(* The order of the replacements                                            *)

Count(rs, at, k) == Cardinality(UpTo(rs, at, k))

LEMMA Interval ==
  ASSUME NEW n \in Nat
  PROVE  IsFiniteSet(1..n) /\ Cardinality(1..n) = n
<1>1. 1 \in Int /\ n \in Int /\ (IF 1 > n THEN 0 ELSE n - 1 + 1) = n
  OBVIOUS
<1>2. IsFiniteSet(1..n) /\ Cardinality(1..n) = IF 1 > n THEN 0 ELSE n - 1 + 1
  BY ONLY <1>1, FS_Interval
<1> QED
  BY ONLY <1>1, <1>2

LEMMA EditsAre ==
  ASSUME NEW n, NEW rs \in Seq(Edits(n))
  PROVE  /\ Len(rs) \in Nat /\ DOMAIN rs = 1..Len(rs)
         /\ \A j \in 1..Len(rs) : /\ rs[j].at \in 0..n /\ rs[j].at \in Nat /\ rs[j].len \in Nat
                                  /\ rs[j].new \in Seq(Lines) /\ rs[j].at + rs[j].len <= n
<1>1. Len(rs) \in Nat /\ DOMAIN rs = 1..Len(rs) /\ \A j \in 1..Len(rs) : rs[j] \in Edits(n)
  OBVIOUS
<1>2. ASSUME NEW r \in Edits(n)
      PROVE  /\ r.at \in 0..n /\ r.at \in Nat /\ r.len \in Nat
             /\ r.new \in Seq(Lines) /\ r.at + r.len <= n
  BY DEF Edits
<1> QED
  BY ONLY <1>1, <1>2

LEMMA UpToFinite ==
  ASSUME NEW rs, Len(rs) \in Nat, DOMAIN rs = 1..Len(rs), NEW at, NEW k
  PROVE  /\ IsFiniteSet(UpTo(rs, at, k)) /\ Count(rs, at, k) \in 0..Len(rs)
         /\ UpTo(rs, at, k) \subseteq 1..Len(rs)
<1>1. UpTo(rs, at, k) \in SUBSET (1..Len(rs))
  BY DEF UpTo
<1>2. IsFiniteSet(1..Len(rs)) /\ Cardinality(1..Len(rs)) = Len(rs)
  BY Interval
<1>3. IsFiniteSet(UpTo(rs, at, k)) /\ Count(rs, at, k) <= Len(rs)
  BY <1>1, <1>2, FS_Subset DEF Count
<1>4. Count(rs, at, k) \in Nat
  BY <1>3, FS_CardinalityType DEF Count
<1> QED
  BY <1>1, <1>3, <1>4

\* One more chunk is one more replacement, if it is for this place.
LEMMA CountStep ==
  ASSUME NEW n \in Nat, NEW rs \in Seq(Edits(n)), NEW at \in Nat, NEW k \in 1..Len(rs)
  PROVE  Count(rs, at, k) = Count(rs, at, k - 1) + (IF rs[k].at = at THEN 1 ELSE 0)
<1>1. Len(rs) \in Nat /\ DOMAIN rs = 1..Len(rs)
  BY EditsAre
<1>2. \A j \in 1..Len(rs) : rs[j].at \in Nat
  BY EditsAre
<1>3. IsFiniteSet(UpTo(rs, at, k - 1)) /\ Count(rs, at, k - 1) \in Nat
  BY <1>1, UpToFinite
<1>4. CASE rs[k].at = at
  <2>1. UpTo(rs, at, k) = UpTo(rs, at, k - 1) \cup {k} /\ k \notin UpTo(rs, at, k - 1)
    BY <1>1, <1>2, <1>4 DEF UpTo
  <2> QED
    BY <2>1, <1>3, <1>4, FS_AddElement DEF Count
<1>5. CASE rs[k].at # at
  <2>1. UpTo(rs, at, k) = UpTo(rs, at, k - 1)
    BY <1>1, <1>2, <1>5 DEF UpTo
  <2> QED
    BY <2>1, <1>3, <1>5 DEF Count
<1> QED
  BY <1>4, <1>5

LEMMA CountEnds ==
  ASSUME NEW n \in Nat, NEW rs \in Seq(Edits(n))
  PROVE  /\ Count(rs, 0, 0) = 0
         /\ Count(rs, n, Len(rs)) = Len(rs)
         /\ \A at \in 1..n : UpTo(rs, at, 0) = UpTo(rs, at - 1, Len(rs))
<1>1. Len(rs) \in Nat /\ DOMAIN rs = 1..Len(rs)
  BY EditsAre
<1>2. \A j \in 1..Len(rs) : rs[j].at \in 0..n
  BY EditsAre
<1>3. UpTo(rs, 0, 0) = {}
  BY <1>1, <1>2 DEF UpTo
<1>4. UpTo(rs, n, Len(rs)) = 1..Len(rs)
  BY <1>1, <1>2 DEF UpTo
<1>5. ASSUME NEW at \in 1..n PROVE UpTo(rs, at, 0) = UpTo(rs, at - 1, Len(rs))
  <2>1. ASSUME NEW j \in 1..Len(rs)
        PROVE  j \in UpTo(rs, at, 0) <=> j \in UpTo(rs, at - 1, Len(rs))
    <3>1. rs[j].at \in Int /\ at \in Int /\ j \in Int /\ 1 <= j /\ j <= Len(rs)
      BY <1>2
    <3>2. (rs[j].at < at \/ (rs[j].at = at /\ j <= 0))
            <=> (rs[j].at < at - 1 \/ (rs[j].at = at - 1 /\ j <= Len(rs)))
      BY ONLY <3>1
    <3> QED
      BY <3>2, <1>1 DEF UpTo
  <2>2. UpTo(rs, at, 0) \subseteq 1..Len(rs) /\ UpTo(rs, at - 1, Len(rs)) \subseteq 1..Len(rs)
    BY <1>1 DEF UpTo
  <2> QED
    BY <2>1, <2>2
<1>6. Count(rs, 0, 0) = 0
  BY <1>3, FS_EmptySet DEF Count
<1>7. Count(rs, n, Len(rs)) = Len(rs)
  BY <1>1, <1>4, Interval DEF Count
<1> QED
  BY <1>5, <1>6, <1>7

\* The replacement that is the c-th in the order is the c-th of Sorted.
LEMMA SortedAt ==
  ASSUME NEW n \in Nat, NEW rs \in Seq(Edits(n)), NEW i \in 1..Len(rs)
  PROVE  Count(rs, rs[i].at, i) \in 1..Len(rs) /\ Sorted(rs)[Count(rs, rs[i].at, i)] = rs[i]
<1> DEFINE rank(j) == Count(rs, rs[j].at, j)
<1>1. Len(rs) \in Nat /\ DOMAIN rs = 1..Len(rs)
  BY EditsAre
<1>2. \A j \in 1..Len(rs) : rs[j].at \in Nat
  BY EditsAre
<1>3. ASSUME NEW j \in 1..Len(rs), NEW k \in 1..Len(rs), j # k, rs[j].at <= rs[k].at,
             rs[j].at = rs[k].at => j < k
      PROVE  rank(j) # rank(k)
  <2>1. UpTo(rs, rs[j].at, j) \subseteq UpTo(rs, rs[k].at, k)
    BY <1>1, <1>2, <1>3 DEF UpTo
  <2>2. k \in UpTo(rs, rs[k].at, k) /\ k \notin UpTo(rs, rs[j].at, j)
    BY <1>1, <1>2, <1>3 DEF UpTo
  <2>3. IsFiniteSet(UpTo(rs, rs[k].at, k))
    BY <1>1, UpToFinite
  <2> QED
    BY <2>1, <2>2, <2>3, FS_Subset DEF Count
<1>4. \A j, k \in 1..Len(rs) : j # k => rank(j) # rank(k)
  <2> SUFFICES ASSUME NEW j \in 1..Len(rs), NEW k \in 1..Len(rs), j # k PROVE rank(j) # rank(k)
    OBVIOUS
  <2>1. \/ rs[j].at <= rs[k].at /\ (rs[j].at = rs[k].at => j < k)
        \/ rs[k].at <= rs[j].at /\ (rs[k].at = rs[j].at => k < j)
    BY <1>2
  <2> HIDE DEF rank
  <2> QED
    BY <2>1, <1>3
<1>5. rank(i) \in 1..Len(rs)
  <2>1. i \in UpTo(rs, rs[i].at, i)
    BY <1>1, <1>2 DEF UpTo
  <2>2. IsFiniteSet(UpTo(rs, rs[i].at, i)) /\ rank(i) \in 0..Len(rs)
    BY <1>1, UpToFinite
  <2>3. rank(i) # 0
    BY <2>1, <2>2, FS_EmptySet DEF Count
  <2> QED
    BY <2>2, <2>3
<1>6. (CHOOSE j \in 1..Len(rs) : rank(j) = rank(i)) = i
  <2> HIDE DEF rank
  <2>1. (CHOOSE j \in 1..Len(rs) : rank(j) = rank(i)) \in 1..Len(rs)
    OBVIOUS
  <2>2. rank(CHOOSE j \in 1..Len(rs) : rank(j) = rank(i)) = rank(i)
    OBVIOUS
  <2> QED
    BY <2>1, <2>2, <1>4
<1>7. Sorted(rs)[rank(i)] = rs[CHOOSE j \in 1..Len(rs) : rank(j) = rank(i)]
  BY <1>1, <1>5 DEF Sorted, Count
<1> QED
  BY <1>5, <1>6, <1>7
-----------------------------------------------------------------------------
(* What a replacement does to a text                                        *)

LEMMA Prefixed ==
  ASSUME NEW S, NEW s \in Seq(S), NEW t \in Seq(S), NEW e \in 0..Len(s), NEW a \in 0..e
  PROVE  /\ SubSeq(s, 1, e) \in Seq(S) /\ Len(SubSeq(s, 1, e)) = e
         /\ SubSeq(SubSeq(s, 1, e) \o t, 1, a) = SubSeq(s, 1, a)
         /\ SubSeq(SubSeq(s, 1, e) \o t, e + 1, Len(SubSeq(s, 1, e) \o t)) = t
<1> DEFINE p == SubSeq(s, 1, e)
           c == p \o t
<1>1. \A i \in 1..e : s[i] \in S
  OBVIOUS
<1>2. p \in Seq(S) /\ Len(p) = e /\ \A i \in 1..e : p[i] = s[i]
  BY <1>1, SubSeqProperties
<1> HIDE DEF p
<1>3. /\ c \in Seq(S) /\ Len(c) = e + Len(t)
      /\ \A i \in 1..e + Len(t) : c[i] = IF i <= e THEN p[i] ELSE t[i - e]
  BY <1>2, ConcatProperties
<1> HIDE DEF c
<1>4. \A i \in 1..e + Len(t) : c[i] \in S
  BY <1>3
<1>5. SubSeq(c, 1, a) = SubSeq(s, 1, a)
  <2>1. \A i \in 1..a : c[i] = s[i] /\ c[i] \in S /\ s[i] \in S
    BY <1>1, <1>2, <1>3, <1>4
  <2>2. /\ SubSeq(c, 1, a) \in Seq(S) /\ Len(SubSeq(c, 1, a)) = a
        /\ \A i \in 1..a : SubSeq(c, 1, a)[i] = c[i]
    BY <2>1, SubSeqProperties
  <2>3. /\ SubSeq(s, 1, a) \in Seq(S) /\ Len(SubSeq(s, 1, a)) = a
        /\ \A i \in 1..a : SubSeq(s, 1, a)[i] = s[i]
    BY <2>1, SubSeqProperties
  <2> QED
    BY <2>1, <2>2, <2>3, SeqEqual
<1>6. SubSeq(c, e + 1, Len(c)) = t
  <2> DEFINE q == SubSeq(c, e + 1, Len(c))
  <2>1. \A i \in e + 1..Len(c) : c[i] \in S
    BY <1>3, <1>4
  <2>2. e + 1 \in Int /\ Len(c) \in Int /\ Len(t) \in Nat /\ Len(c) - (e + 1) + 1 = Len(t)
    BY <1>3
  <2>3. /\ q \in Seq(S) /\ Len(q) = (IF e + 1 <= Len(c) THEN Len(c) - (e + 1) + 1 ELSE 0)
        /\ \A i \in 1..Len(c) - (e + 1) + 1 : q[i] = c[(e + 1) + i - 1]
    BY ONLY <2>1, <2>2, SubSeqProperties
  <2>4. Len(q) = Len(t)
    BY <2>2, <2>3, <1>3
  <2>5. ASSUME NEW i \in 1..Len(t) PROVE q[i] = t[i]
    <3>1. q[i] = c[(e + 1) + i - 1]
      BY <2>2, <2>3
    <3>2. (e + 1) + i - 1 \in 1..e + Len(t) /\ ~((e + 1) + i - 1 <= e) /\ ((e + 1) + i - 1) - e = i
      OBVIOUS
    <3> QED
      BY <3>1, <3>2, <1>3
  <2> HIDE DEF q
  <2>6. q \in Seq(S) /\ t \in Seq(S) /\ \A i \in 1..Len(q) : q[i] = t[i]
    BY <2>3, <2>4, <2>5
  <2>7. q = t
    BY ONLY <2>4, <2>6, SeqEqual
  <2> QED
    BY <2>7 DEF q
<1> QED
  BY <1>2, <1>5, <1>6 DEF c, p

LEMMA ReplaceType ==
  ASSUME NEW t \in Seq(Lines), NEW r, r.at \in Nat, r.len \in Nat, r.new \in Seq(Lines),
         r.at <= Len(t)
  PROVE  Replace(r, t) \in Seq(Lines) /\ Len(Replace(r, t)) >= r.at
<1>1. \A i \in 1..Len(t) : t[i] \in Lines
  OBVIOUS
<1>2. SubSeq(t, 1, r.at) \in Seq(Lines) /\ Len(SubSeq(t, 1, r.at)) = r.at
  <2>1. \A i \in 1..r.at : t[i] \in Lines
    BY <1>1
  <2> QED
    BY <2>1, SubSeqProperties
<1>3. SubSeq(t, r.at + r.len + 1, Len(t)) \in Seq(Lines)
  <2>1. \A i \in r.at + r.len + 1..Len(t) : t[i] \in Lines
    BY <1>1
  <2> QED
    BY <2>1, SubSeqProperties
<1> DEFINE x == SubSeq(t, 1, r.at)
           y == SubSeq(t, r.at + r.len + 1, Len(t))
<1>4. Replace(r, t) = (x \o r.new) \o y
  BY DEF Replace
<1>5. x \in Seq(Lines) /\ Len(x) = r.at /\ y \in Seq(Lines)
  BY <1>2, <1>3
<1> HIDE DEF x, y
<1>6. x \o r.new \in Seq(Lines) /\ Len(x \o r.new) = r.at + Len(r.new)
  BY ONLY SMTT(30), <1>5, r.new \in Seq(Lines), ConcatProperties
<1>7. (x \o r.new) \o y \in Seq(Lines) /\ Len((x \o r.new) \o y) = r.at + Len(r.new) + Len(y)
  BY ONLY SMTT(30), <1>5, <1>6, ConcatProperties
<1>8. Len(r.new) \in Nat /\ Len(y) \in Nat
  BY <1>5
<1> QED
  BY <1>4, <1>7, <1>8

\* A region that ends where the rest begins gives way to the new lines.
LEMMA ReplaceRegion ==
  ASSUME NEW s \in Seq(Lines), NEW t \in Seq(Lines), NEW e \in 0..Len(s),
         NEW r, r.at \in Nat, r.len \in Nat, r.new \in Seq(Lines), r.at + r.len = e
  PROVE  Replace(r, SubSeq(s, 1, e) \o t) = SubSeq(s, 1, r.at) \o (r.new \o t)
<1> DEFINE c == SubSeq(s, 1, e) \o t
<1>1. r.at \in 0..e /\ r.at \in 0..Len(s)
  OBVIOUS
<1>2. /\ SubSeq(c, 1, r.at) = SubSeq(s, 1, r.at)
      /\ SubSeq(c, e + 1, Len(c)) = t
  BY <1>1, Prefixed
<1>3. SubSeq(s, 1, r.at) \in Seq(Lines)
  BY <1>1, Prefixed
<1> HIDE DEF c
<1>4. Replace(r, c) = (SubSeq(s, 1, r.at) \o r.new) \o t
  BY <1>2 DEF Replace
<1> DEFINE x == SubSeq(s, 1, r.at)
           y == r.new
<1>5. x \in Seq(Lines) /\ y \in Seq(Lines) /\ t \in Seq(Lines)
  BY <1>3
<1> HIDE DEF x, y
<1>6. (x \o y) \o t = x \o (y \o t)
  BY ONLY SMTT(30), <1>5, ConcatAssociative
<1> QED
  BY <1>4, <1>6 DEF c, x, y

-----------------------------------------------------------------------------
(* Joining pieces                                                           *)

Joined(f, k) == FlattenSeq([i \in 1..k |-> f[i]])

LEMMA FlattenNext ==
  ASSUME NEW S, NEW f, NEW k \in Nat, NEW l \in Nat, k = l + 1, \A i \in 1..k : f[i] \in Seq(S)
  PROVE  Joined(f, k) = Joined(f, l) \o f[k] /\ Joined(f, k) \in Seq(S)
<1> DEFINE s == [i \in 1..l |-> f[i]]
           t == [i \in 1..k |-> f[i]]
<1>1. s \in Seq(Seq(S)) /\ t \in Seq(Seq(S)) /\ f[k] \in Seq(S)
  OBVIOUS
<1>2. t = Append(s, f[k])
  <2>1. Len(s) = l /\ Len(t) = k
    OBVIOUS
  <2>2. /\ Append(s, f[k]) \in Seq(Seq(S)) /\ Len(Append(s, f[k])) = k
        /\ \A i \in 1..l : Append(s, f[k])[i] = f[i]
        /\ Append(s, f[k])[k] = f[k]
    BY <1>1, <2>1, AppendProperties
  <2>3. \A i \in 1..k : t[i] = f[i]
    OBVIOUS
  <2>4. \A i \in 1..k : t[i] = Append(s, f[k])[i]
    BY <2>2, <2>3
  <2> HIDE DEF s, t
  <2> QED
    BY <1>1, <2>1, <2>2, <2>4, SeqEqual
<1> HIDE DEF s, t
<1>3. FlattenSeq(s) \in Seq(S) /\ FlattenSeq(t) \in Seq(S)
  BY <1>1, FlattenType
<1>4. FlattenSeq(t) = FlattenSeq(s) \o f[k]
  BY <1>1, <1>2, FlattenAppend
<1> QED
  BY <1>3, <1>4 DEF s, t, Joined

LEMMA FlattenNone ==
  ASSUME NEW f
  PROVE  Joined(f, 0) = <<>>
<1>1. [i \in 1..0 |-> f[i]] = <<>>
  OBVIOUS
<1>2. FlattenSeq(<<>>) = <<>>
  BY DEF FlattenSeq
<1> QED
  BY <1>1, <1>2 DEF Joined
Regrouped(p, y, x, r) == (p \o y) \o (x \o r) = (p \o (y \o x)) \o r

LEMMA Regroup ==
  ASSUME NEW S
  PROVE  \A p, y, x, r \in Seq(S) : Regrouped(p, y, x, r)
<1> SUFFICES ASSUME NEW p \in Seq(S), NEW y \in Seq(S), NEW x \in Seq(S), NEW r \in Seq(S)
             PROVE  Regrouped(p, y, x, r)
  OBVIOUS
<1>1. p \o y \in Seq(S) /\ y \o x \in Seq(S)
  BY ConcatProperties
<1>2. (p \o y) \o (x \o r) = ((p \o y) \o x) \o r
  BY ONLY SMTT(30), <1>1, x \in Seq(S), r \in Seq(S), ConcatAssociative
<1>3. (p \o y) \o x = p \o (y \o x)
  BY ONLY SMTT(30), p \in Seq(S), y \in Seq(S), x \in Seq(S), ConcatAssociative
<1> QED
  BY ONLY Zenon, <1>2, <1>3 DEF Regrouped
-----------------------------------------------------------------------------
(* The edit, place by place                                                 *)

NewOf(rs, i) == [k \in DOMAIN rs |-> IF rs[k].at = i THEN rs[k].new ELSE <<>>]
PlaceOf(lines, rs) == [i \in 1..Len(lines) + 1 |-> NewAt(rs, i - 1) \o Kept(lines, rs, i)]

\* What the first k chunks put at a place, and what the first i places become.
FirstNew(rs, at, k) == Joined(NewOf(rs, at), k)
FirstPlaces(lines, rs, i) == Joined(PlaceOf(lines, rs), i)

LEMMA NewSteps ==
  ASSUME NEW n, NEW rs \in Seq(Edits(n)), NEW at
  PROVE  /\ FirstNew(rs, at, 0) = <<>>
         /\ FirstNew(rs, at, Len(rs)) = NewAt(rs, at)
         /\ \A k \in 0..Len(rs) : FirstNew(rs, at, k) \in Seq(Lines)
         /\ \A k \in 1..Len(rs) :
              FirstNew(rs, at, k) = FirstNew(rs, at, k - 1) \o (IF rs[k].at = at THEN rs[k].new ELSE <<>>)
<1> DEFINE f == NewOf(rs, at)
           m == Len(rs)
<1>1. m \in Nat /\ DOMAIN rs = 1..m /\ \A j \in 1..m : rs[j].new \in Seq(Lines)
  BY EditsAre
<1>2. \A j \in 1..m : f[j] = (IF rs[j].at = at THEN rs[j].new ELSE <<>>) /\ f[j] \in Seq(Lines)
  BY <1>1 DEF NewOf
<1>3. f = [j \in 1..m |-> f[j]]
  BY <1>1 DEF NewOf
<1>4. FlattenSeq(f) = NewAt(rs, at)
  BY DEF NewOf, NewAt
<1> HIDE DEF f, m
<1>5. Joined(f, 0) = <<>>
  BY FlattenNone
<1>6. ASSUME NEW k \in 1..m
      PROVE  /\ Joined(f, k) = Joined(f, k - 1) \o f[k]
             /\ Joined(f, k) \in Seq(Lines)
  <2> DEFINE l == k - 1
  <2>1. l \in Nat /\ k \in Nat /\ k = l + 1 /\ \A i \in 1..k : f[i] \in Seq(Lines)
    BY <1>1, <1>2
  <2> HIDE DEF l
  <2>2. /\ Joined(f, k) = Joined(f, l) \o f[k]
        /\ Joined(f, k) \in Seq(Lines)
    BY ONLY <2>1, FlattenNext
  <2> QED
    BY <2>2 DEF l
<1>7. ASSUME NEW k \in 0..m PROVE Joined(f, k) \in Seq(Lines)
  <2>1. CASE k = 0
    <3>1. <<>> \in Seq(Lines)
      OBVIOUS
    <3> QED
      BY ONLY Zenon, <2>1, <3>1, <1>5
  <2>2. CASE k # 0
    <3>1. k \in 1..m
      BY <2>2, <1>1
    <3> QED
      BY ONLY Zenon, <3>1, <1>6
  <2> QED
    BY <2>1, <2>2
<1>8. Joined(f, m) = NewAt(rs, at)
  BY <1>3, <1>4 DEF Joined
<1>9. \A k : FirstNew(rs, at, k) = Joined(f, k)
  BY DEF FirstNew, f
<1>10. \A k \in 1..m : FirstNew(rs, at, k) = FirstNew(rs, at, k - 1) \o f[k]
  BY ONLY <1>6, <1>9
<1>11. \A k \in 1..m : FirstNew(rs, at, k) =
         FirstNew(rs, at, k - 1) \o (IF rs[k].at = at THEN rs[k].new ELSE <<>>)
  BY ONLY <1>2, <1>10
<1>12. FirstNew(rs, at, 0) = <<>> /\ FirstNew(rs, at, m) = NewAt(rs, at)
  BY ONLY <1>5, <1>8, <1>9
<1>13. \A k \in 0..m : FirstNew(rs, at, k) \in Seq(Lines)
  BY ONLY <1>7, <1>9
<1> QED
  BY <1>11, <1>12, <1>13 DEF m

LEMMA PlaceSteps ==
  ASSUME NEW lines \in Seq(Lines), NEW rs \in Seq(Edits(Len(lines)))
  PROVE  /\ FirstPlaces(lines, rs, 0) = <<>>
         /\ FirstPlaces(lines, rs, Len(lines) + 1) = Spliced(lines, rs)
         /\ \A i \in 0..Len(lines) + 1 : FirstPlaces(lines, rs, i) \in Seq(Lines)
         /\ \A i \in 1..Len(lines) + 1 :
              /\ NewAt(rs, i - 1) \in Seq(Lines) /\ Kept(lines, rs, i) \in Seq(Lines)
              /\ FirstPlaces(lines, rs, i) =
                   FirstPlaces(lines, rs, i - 1) \o (NewAt(rs, i - 1) \o Kept(lines, rs, i))
<1> DEFINE f == PlaceOf(lines, rs)
           m == Len(lines) + 1
<1>1. Len(lines) \in Nat /\ m \in Nat /\ m = Len(lines) + 1
  OBVIOUS
<1>2. \A i : NewAt(rs, i) \in Seq(Lines)
  <2>1. \A i : FirstNew(rs, i, Len(rs)) = NewAt(rs, i) /\ FirstNew(rs, i, Len(rs)) \in Seq(Lines)
    <3>1. Len(rs) \in 0..Len(rs)
      BY EditsAre
    <3> QED
      BY <3>1, NewSteps
  <2> QED
    BY <2>1
<1>3. ASSUME NEW i PROVE Kept(lines, rs, i) \in Seq(Lines)
  <2>1. i \in DOMAIN lines => <<lines[i]>> \in Seq(Lines)
    OBVIOUS
  <2>2. <<>> \in Seq(Lines)
    OBVIOUS
  <2> QED
    BY ONLY Zenon, <2>1, <2>2 DEF Kept
<1>4. \A i \in 1..m : f[i] = NewAt(rs, i - 1) \o Kept(lines, rs, i)
  BY DEF PlaceOf
<1>5. f = [i \in 1..m |-> f[i]]
  BY DEF PlaceOf
<1>6. FlattenSeq(f) = Spliced(lines, rs)
  BY DEF PlaceOf, Spliced
<1> HIDE DEF f, m
<1>7. ASSUME NEW i \in 1..m PROVE f[i] \in Seq(Lines)
  <2>1. NewAt(rs, i - 1) \in Seq(Lines) /\ Kept(lines, rs, i) \in Seq(Lines)
    BY <1>2, <1>3
  <2>2. NewAt(rs, i - 1) \o Kept(lines, rs, i) \in Seq(Lines)
    BY ONLY <2>1, ConcatProperties
  <2> QED
    BY ONLY Zenon, <2>2, <1>4
<1>8. Joined(f, 0) = <<>>
  BY FlattenNone
<1>9. ASSUME NEW k \in 1..m
      PROVE  /\ Joined(f, k) = Joined(f, k - 1) \o f[k]
             /\ Joined(f, k) \in Seq(Lines)
  <2> DEFINE l == k - 1
  <2>1. l \in Nat /\ k \in Nat /\ k = l + 1 /\ \A i \in 1..k : f[i] \in Seq(Lines)
    BY <1>1, <1>7
  <2> HIDE DEF l
  <2>2. /\ Joined(f, k) = Joined(f, l) \o f[k]
        /\ Joined(f, k) \in Seq(Lines)
    BY ONLY <2>1, FlattenNext
  <2> QED
    BY <2>2 DEF l
<1>10. ASSUME NEW k \in 0..m PROVE Joined(f, k) \in Seq(Lines)
  <2>1. CASE k = 0
    <3>1. <<>> \in Seq(Lines)
      OBVIOUS
    <3> QED
      BY ONLY Zenon, <2>1, <3>1, <1>8
  <2>2. CASE k # 0
    <3>1. k \in 1..m
      BY <2>2, <1>1
    <3> QED
      BY ONLY Zenon, <3>1, <1>9
  <2> QED
    BY <2>1, <2>2
<1>11. Joined(f, m) = Spliced(lines, rs)
  BY <1>5, <1>6 DEF Joined
<1>12. \A k : FirstPlaces(lines, rs, k) = Joined(f, k)
  BY DEF FirstPlaces, f
<1>13. \A k \in 1..m : FirstPlaces(lines, rs, k) = FirstPlaces(lines, rs, k - 1) \o f[k]
  BY ONLY <1>9, <1>12
<1>14. \A k \in 1..m : FirstPlaces(lines, rs, k) =
                       FirstPlaces(lines, rs, k - 1) \o (NewAt(rs, k - 1) \o Kept(lines, rs, k))
  BY ONLY <1>4, <1>13
<1>15. FirstPlaces(lines, rs, 0) = <<>> /\ FirstPlaces(lines, rs, m) = Spliced(lines, rs)
  BY ONLY <1>8, <1>11, <1>12
<1>16. \A k \in 0..m : FirstPlaces(lines, rs, k) \in Seq(Lines)
  BY ONLY <1>10, <1>12
<1> QED
  BY <1>2, <1>3, <1>14, <1>15, <1>16 DEF m
-----------------------------------------------------------------------------
(* The text once the replacements behind a place, and those there behind the *)
(* k-th chunk, are made; it is the edit behind a prefix of the lines.        *)

After(g, rs, at, k) == g[Len(rs) - Count(rs, at, k)]

End(r) == r.at + r.len

\* In the order of Sorted, no region reaches into the next.
Disjoint(rs) ==
  \A i, j \in DOMAIN rs :
    rs[i].at < rs[j].at \/ (rs[i].at = rs[j].at /\ i < j) => End(rs[i]) <= rs[j].at

\* How many lines the replacements not yet made are among.
Prefix(rs, at, k, e) ==
  /\ \A j \in UpTo(rs, at, k) : End(rs[j]) <= e
  /\ e = at \/ \E j \in UpTo(rs, at, k) : End(rs[j]) = e

Left(g, lines, rs, at, k, e, rest) ==
  /\ Prefix(rs, at, k, e)
  /\ After(g, rs, at, k) = SubSeq(lines, 1, e) \o rest
  /\ (FirstPlaces(lines, rs, at) \o FirstNew(rs, at, k)) \o rest = Spliced(lines, rs)

Reached(g, lines, rs, at, k) ==
  /\ After(g, rs, at, k) \in Seq(Lines) /\ Len(After(g, rs, at, k)) >= at
  /\ Disjoint(rs) => \E e \in at..Len(lines), rest \in Seq(Lines) : Left(g, lines, rs, at, k, e, rest)

LEMMA AfterStep ==
  ASSUME NEW lines \in Seq(Lines), NEW rs \in Seq(Edits(Len(lines))),
         NEW g, Applied(g, lines, Sorted(rs), Len(rs)),
         NEW at \in 0..Len(lines), NEW k \in 1..Len(rs)
  PROVE  After(g, rs, at, k - 1) = IF rs[k].at = at THEN Replace(rs[k], After(g, rs, at, k))
                                   ELSE After(g, rs, at, k)
<1> DEFINE m == Len(rs)
           c == Count(rs, at, k)
           d == Count(rs, at, k - 1)
<1>1. m \in Nat /\ DOMAIN rs = 1..m /\ Len(lines) \in Nat /\ at \in Nat
  BY EditsAre
<1>2. c = d + (IF rs[k].at = at THEN 1 ELSE 0)
  BY <1>1, CountStep
<1>3. c \in 0..m /\ d \in 0..m
  BY <1>1, UpToFinite
<1>4. \A i \in 1..m : g[i] = Replace(Sorted(rs)[m + 1 - i], g[i - 1])
  BY <1>1, AppliedAt
<1>5. rs[k].at = at => Sorted(rs)[c] = rs[k]
  BY <1>1, SortedAt
<1>6. After(g, rs, at, k - 1) = g[m - d] /\ After(g, rs, at, k) = g[m - c]
  BY DEF After
<1> HIDE DEF m, c, d
<1>7. CASE rs[k].at = at
  <2>1. d = c - 1 /\ m - d \in 1..m /\ m + 1 - (m - d) = c /\ (m - d) - 1 = m - c
    <3>1. c = d + 1 /\ m \in Nat /\ c \in 0..m /\ d \in 0..m
      BY <1>1, <1>2, <1>3, <1>7
    <3> QED
      BY ONLY <3>1
  <2>2. g[m - d] = Replace(Sorted(rs)[c], g[m - c])
    BY <2>1, <1>4
  <2> QED
    BY <2>2, <1>5, <1>6, <1>7
<1>8. CASE rs[k].at # at
  <2>1. d = c
    BY <1>2, <1>3, <1>8
  <2> QED
    BY <2>1, <1>6, <1>8
<1> QED
  BY <1>7, <1>8

\* One replacement more is made at the place, or none.
LEMMA ReachedStep ==
  ASSUME NEW lines \in Seq(Lines), NEW rs \in Seq(Edits(Len(lines))),
         NEW g, Applied(g, lines, Sorted(rs), Len(rs)),
         NEW at \in 0..Len(lines), NEW k \in 1..Len(rs), Reached(g, lines, rs, at, k)
  PROVE  Reached(g, lines, rs, at, k - 1)
<1> DEFINE t == After(g, rs, at, k)
           u == After(g, rs, at, k - 1)
           r == rs[k]
           n == Len(lines)
<1>1. /\ Len(rs) \in Nat /\ DOMAIN rs = 1..Len(rs) /\ n \in Nat /\ at \in Nat /\ k \in Nat
      /\ \A j \in 1..Len(rs) : rs[j].at \in Nat /\ rs[j].len \in Nat
      /\ r.at \in Nat /\ r.len \in Nat /\ r.new \in Seq(Lines) /\ r.at + r.len <= n
  BY EditsAre
<1>2. u = IF r.at = at THEN Replace(r, t) ELSE t
  BY AfterStep
<1>3. t \in Seq(Lines) /\ Len(t) >= at
  BY DEF Reached
<1>4. u \in Seq(Lines) /\ Len(u) >= at
  <2>1. CASE r.at = at
    <3>1. Replace(r, t) \in Seq(Lines) /\ Len(Replace(r, t)) >= r.at
      <4> HIDE DEF t, r
      <4> QED
        BY <1>1, <1>3, <2>1, ReplaceType
    <3> QED
      BY <3>1, <2>1, <1>2
  <2>2. CASE r.at # at
    BY <2>2, <1>2, <1>3
  <2> QED
    BY <2>1, <2>2
<1> DEFINE p == FirstPlaces(lines, rs, at)
           y == FirstNew(rs, at, k - 1)
           z == FirstNew(rs, at, k)
<1>5. /\ z = y \o (IF r.at = at THEN r.new ELSE <<>>)
      /\ y \in Seq(Lines) /\ z \in Seq(Lines) /\ p \in Seq(Lines)
  <2>1. k - 1 \in 0..Len(rs) /\ k \in 0..Len(rs) /\ at \in 0..n + 1
    BY <1>1
  <2>2. z = y \o (IF r.at = at THEN r.new ELSE <<>>)
    BY NewSteps
  <2>3. y \in Seq(Lines) /\ z \in Seq(Lines)
    BY <2>1, NewSteps
  <2>4. p \in Seq(Lines)
    BY <2>1, PlaceSteps
  <2> QED
    BY <2>2, <2>3, <2>4
<1>6. ASSUME Disjoint(rs)
      PROVE  \E e \in at..n, rest \in Seq(Lines) : Left(g, lines, rs, at, k - 1, e, rest)
  <2>1. PICK e \in at..n, rest \in Seq(Lines) : Left(g, lines, rs, at, k, e, rest)
    BY <1>6 DEF Reached
  <2>2. Prefix(rs, at, k, e) /\ t = SubSeq(lines, 1, e) \o rest /\ (p \o z) \o rest = Spliced(lines, rs)
    BY <2>1 DEF Left
  <2> HIDE DEF t, u, p, y, z, n
  <2>3. CASE r.at = at
    <3>1. UpTo(rs, at, k) = UpTo(rs, at, k - 1) \cup {k}
      BY <1>1, <2>3 DEF UpTo
    <3>2. \A j \in UpTo(rs, at, k - 1) : End(rs[j]) <= at
      <4>1. \A j \in UpTo(rs, at, k - 1) :
              j \in DOMAIN rs /\ (rs[j].at < rs[k].at \/ (rs[j].at = rs[k].at /\ j < k))
        BY <1>1, <2>3 DEF UpTo
      <4>2. k \in DOMAIN rs
        BY <1>1
      <4> QED
        BY <4>1, <4>2, <1>6, <2>3 DEF Disjoint
    <3>3. End(r) = e
      <4>1. End(r) <= e /\ (e = at \/ e = End(r) \/ \E j \in UpTo(rs, at, k - 1) : End(rs[j]) = e)
        BY <2>2, <3>1 DEF Prefix
      <4>2. End(r) \in Nat /\ End(r) >= at /\ e \in Nat /\ e >= at
        BY <1>1, <2>3 DEF End
      <4>3. (\E j \in UpTo(rs, at, k - 1) : End(rs[j]) = e) => e <= at
        BY <3>2
      <4> HIDE DEF r
      <4> QED
        BY ONLY <4>1, <4>2, <4>3, <1>1
    <3>4. Prefix(rs, at, k - 1, at)
      BY <3>2 DEF Prefix
    <3>5. u = SubSeq(lines, 1, at) \o (r.new \o rest)
      <4>1. e \in 0..Len(lines) /\ r.at + r.len = e
        BY <1>1, <3>3 DEF End, n
      <4>2. Replace(r, SubSeq(lines, 1, e) \o rest) = SubSeq(lines, 1, r.at) \o (r.new \o rest)
        <5>1. r.at \in Nat /\ r.len \in Nat /\ r.new \in Seq(Lines)
          BY <1>1
        <5>2. lines \in Seq(Lines) /\ rest \in Seq(Lines)
          OBVIOUS
        <5> HIDE DEF r
        <5> QED
          BY ONLY ZenonT(40), <4>1, <5>1, <5>2, ReplaceRegion
      <4> QED
        BY <4>2, <1>2, <2>2, <2>3
    <3>6. (p \o y) \o (r.new \o rest) = Spliced(lines, rs)
      <4> DEFINE x == r.new
      <4>1. x \in Seq(Lines) /\ z = y \o x
        BY <1>1, <1>5, <2>3
      <4> HIDE DEF x
      <4>2. (p \o y) \o (x \o rest) = (p \o (y \o x)) \o rest
        <5>1. p \in Seq(Lines) /\ y \in Seq(Lines) /\ x \in Seq(Lines) /\ rest \in Seq(Lines)
          BY <4>1, <1>5
        <5>2. Regrouped(p, y, x, rest)
          BY ONLY Zenon, <5>1, Regroup
        <5> QED
          BY ONLY Zenon, <5>2 DEF Regrouped
      <4> QED
        BY <4>1, <4>2, <2>2 DEF x
    <3>7. r.new \o rest \in Seq(Lines) /\ at \in at..n
      BY <1>1, ConcatProperties DEF n
    <3>8. Left(g, lines, rs, at, k - 1, at, r.new \o rest)
      BY <3>4, <3>5, <3>6 DEF Left, u, p, y
    <3> QED
      BY <3>7, <3>8
  <2>4. CASE r.at # at
    <3>1. UpTo(rs, at, k) = UpTo(rs, at, k - 1)
      BY <1>1, <2>4 DEF UpTo
    <3>2. Prefix(rs, at, k - 1, e)
      BY <2>2, <3>1 DEF Prefix
    <3>3. z = y
      BY <1>5, <2>4, ConcatEmptySeq
    <3>4. Left(g, lines, rs, at, k - 1, e, rest)
      BY <3>2, <3>3, <1>2, <2>2, <2>4 DEF Left, t, u, p, y
    <3> QED
      BY <3>4 DEF n
  <2> QED
    BY <2>3, <2>4
<1> QED
  BY <1>4, <1>6 DEF Reached
\* From a place to the one before it: a line is kept, or it is in a region.
LEMMA ReachedPlace ==
  ASSUME NEW lines \in Seq(Lines), NEW rs \in Seq(Edits(Len(lines))), NEW g,
         NEW at \in 1..Len(lines), Reached(g, lines, rs, at, 0)
  PROVE  Reached(g, lines, rs, at - 1, Len(rs))
<1> DEFINE n == Len(lines)
           m == Len(rs)
           t == After(g, rs, at, 0)
           b == at - 1
<1>1. /\ m \in Nat /\ DOMAIN rs = 1..m /\ n \in Nat /\ at \in Nat /\ b \in Nat /\ b + 1 = at
      /\ \A j \in 1..m : /\ rs[j].at \in Nat /\ rs[j].len \in Nat /\ End(rs[j]) \in Nat
                         /\ rs[j].at <= End(rs[j]) /\ End(rs[j]) <= n
  BY EditsAre DEF End
<1>2. UpTo(rs, at, 0) = UpTo(rs, b, m)
  BY CountEnds
<1>3. After(g, rs, b, m) = t
  BY <1>2 DEF After, Count
<1>4. t \in Seq(Lines) /\ Len(t) \in Nat /\ Len(t) >= b
  BY <1>1 DEF Reached
<1> DEFINE p == FirstPlaces(lines, rs, at)
           q == FirstPlaces(lines, rs, b)
           z == NewAt(rs, b)
           l == Kept(lines, rs, at)
<1>5. /\ FirstNew(rs, at, 0) = <<>> /\ FirstNew(rs, b, m) = z
      /\ p = q \o (z \o l)
      /\ p \in Seq(Lines) /\ q \in Seq(Lines) /\ z \in Seq(Lines) /\ l \in Seq(Lines)
  <2>1. at \in 0..n + 1 /\ b \in 0..n + 1 /\ at \in 1..n + 1
    BY <1>1
  <2>2. FirstNew(rs, at, 0) = <<>> /\ FirstNew(rs, b, m) = z
    BY NewSteps
  <2> HIDE DEF m
  <2>3. p = q \o (z \o l) /\ z \in Seq(Lines) /\ l \in Seq(Lines)
    BY <2>1, PlaceSteps
  <2>4. p \in Seq(Lines) /\ q \in Seq(Lines)
    BY <2>1, PlaceSteps
  <2> QED
    BY <2>2, <2>3, <2>4
<1>6. l = IF \E j \in UpTo(rs, b, m) : at <= End(rs[j]) THEN <<>> ELSE <<lines[at]>>
  <2>1. at \in DOMAIN lines
    BY <1>1
  <2>2. \A j \in DOMAIN rs : rs[j].at < at <=> j \in UpTo(rs, b, m)
    BY <1>1 DEF UpTo
  <2>3. UpTo(rs, b, m) \subseteq DOMAIN rs
    BY DEF UpTo
  <2> QED
    BY <2>1, <2>2, <2>3 DEF Kept, End
<1>7. ASSUME Disjoint(rs)
      PROVE  \E e \in b..n, rest \in Seq(Lines) : Left(g, lines, rs, b, m, e, rest)
  <2>1. PICK e \in at..n, rest \in Seq(Lines) : Left(g, lines, rs, at, 0, e, rest)
    BY <1>7 DEF Reached
  <2>2. /\ Prefix(rs, at, 0, e) /\ t = SubSeq(lines, 1, e) \o rest
        /\ (p \o FirstNew(rs, at, 0)) \o rest = Spliced(lines, rs)
    BY <2>1 DEF Left
  <2> HIDE DEF t, p, q, z, l, m, n
  <2>3. p \o rest = Spliced(lines, rs)
    BY <2>2, <1>5, ConcatEmptySeq
  <2>4. /\ \A j \in UpTo(rs, b, m) : End(rs[j]) <= e /\ End(rs[j]) \in Nat
        /\ e = at \/ \E j \in UpTo(rs, b, m) : End(rs[j]) = e
    BY <2>2, <1>1, <1>2 DEF Prefix, UpTo
  <2>5. CASE \E j \in UpTo(rs, b, m) : at <= End(rs[j])
    <3>1. \E j \in UpTo(rs, b, m) : End(rs[j]) = e
      <4>1. PICK j \in UpTo(rs, b, m) : at <= End(rs[j])
        BY <2>5
      <4>2. e = at => End(rs[j]) = e
        BY <4>1, <2>4, <1>1
      <4> QED
        BY <4>2, <2>4
    <3>2. Prefix(rs, b, m, e) /\ e \in b..n
      BY <3>1, <2>4, <1>1 DEF Prefix
    <3>3. q \o z = p
      BY <2>5, <1>5, <1>6, ConcatEmptySeq
    <3>4. Left(g, lines, rs, b, m, e, rest)
      BY <3>2, <3>3, <2>2, <2>3, <1>3, <1>5 DEF Left, q
    <3> QED
      BY <3>2, <3>4
  <2>6. CASE \A j \in UpTo(rs, b, m) : ~(at <= End(rs[j]))
    <3>1. e = at
      BY <2>4, <2>6
    <3>2. \A j \in UpTo(rs, b, m) : End(rs[j]) <= b
      BY <2>4, <2>6, <1>1
    <3>3. Prefix(rs, b, m, b) /\ b \in b..n
      BY <3>2, <1>1 DEF Prefix
    <3>4. l = <<lines[at]>>
      BY <2>6, <1>6
    <3>5. t = SubSeq(lines, 1, b) \o (l \o rest)
      <4>1. at \in 1..Len(lines) /\ b = at - 1
        OBVIOUS
      <4>2. SubSeq(lines, 1, at) = SubSeq(lines, 1, b) \o <<lines[at]>>
        <5>1. 1 \in 1..Len(lines) /\ at \in 1..Len(lines)
          BY <4>1
        <5> QED
          BY <5>1, SubSeqRecursiveSecond
      <4>3. SubSeq(lines, 1, b) \in Seq(Lines)
        <5>1. \A i \in 1..b : lines[i] \in Lines
          BY <4>1
        <5> QED
          BY <5>1, <1>1, SubSeqProperties
      <4> DEFINE s == SubSeq(lines, 1, b)
      <4>4. s \in Seq(Lines) /\ l \in Seq(Lines) /\ rest \in Seq(Lines)
        BY <4>3, <1>5
      <4> HIDE DEF s
      <4>5. (s \o l) \o rest = s \o (l \o rest)
        BY ONLY SMTT(30), <4>4, ConcatAssociative
      <4>6. t = (s \o l) \o rest
        BY <4>2, <3>1, <3>4, <2>2 DEF s
      <4> QED
        BY <4>5, <4>6 DEF s
    <3>6. (q \o z) \o (l \o rest) = Spliced(lines, rs)
      <4>1. q \in Seq(Lines) /\ z \in Seq(Lines) /\ l \in Seq(Lines) /\ rest \in Seq(Lines)
        BY <1>5
      <4>2. Regrouped(q, z, l, rest)
        BY ONLY Zenon, <4>1, Regroup
      <4>3. p = q \o (z \o l)
        BY <1>5
      <4> QED
        BY ONLY Zenon, <4>2, <4>3, <2>3 DEF Regrouped
    <3>7. l \o rest \in Seq(Lines)
      BY <1>5, ConcatProperties
    <3>8. Left(g, lines, rs, b, m, b, l \o rest)
      BY <3>3, <3>5, <3>6, <1>3, <1>5 DEF Left, q
    <3> QED
      BY <3>3, <3>7, <3>8
  <2> QED
    BY <2>5, <2>6
<1> QED
  BY <1>3, <1>4, <1>7 DEF Reached

\* Before the first replacement the text is the file.
LEMMA ReachedFirst ==
  ASSUME NEW lines \in Seq(Lines), NEW rs \in Seq(Edits(Len(lines))),
         NEW g, Applied(g, lines, Sorted(rs), Len(rs))
  PROVE  Reached(g, lines, rs, Len(lines), Len(rs))
<1> DEFINE n == Len(lines)
           m == Len(rs)
<1>1. /\ m \in Nat /\ DOMAIN rs = 1..m /\ n \in Nat
      /\ \A j \in 1..m : /\ rs[j].at \in 0..n /\ rs[j].at \in Nat /\ rs[j].len \in Nat
                         /\ rs[j].at + rs[j].len <= n
  BY EditsAre
<1>2. After(g, rs, n, m) = lines
  <2>1. Count(rs, n, m) = m
    BY <1>1, CountEnds
  <2>2. g[0] = lines
    <3>1. Len(rs) \in Nat /\ Applied(g, lines, Sorted(rs), Len(rs))
      BY <1>1
    <3> QED
      BY ONLY Zenon, <3>1, AppliedAt
  <2>3. m - m = 0
    BY <1>1
  <2> QED
    BY <2>1, <2>2, <2>3 DEF After
<1>3. Prefix(rs, n, m, n)
  BY <1>1 DEF Prefix, UpTo, End
<1>4. lines = SubSeq(lines, 1, n) \o <<>>
  <2>1. SubSeq(lines, 1, n) = lines
    BY SubSeqFull
  <2> QED
    BY <2>1, ConcatEmptySeq
<1>5. (FirstPlaces(lines, rs, n) \o FirstNew(rs, n, m)) \o <<>> = Spliced(lines, rs)
  <2> DEFINE q == FirstPlaces(lines, rs, n)
             z == NewAt(rs, n)
             k == n + 1
             l == Kept(lines, rs, k)
  <2>1. FirstNew(rs, n, m) = z
    BY NewSteps
  <2>2. k \in 1..n + 1 /\ n \in 0..n + 1 /\ k - 1 = n /\ k \notin DOMAIN lines
    BY <1>1
  <2>3. l = <<>>
    BY <2>2 DEF Kept
  <2>4. q \in Seq(Lines)
    BY <2>2, PlaceSteps
  <2>5. NewAt(rs, k - 1) \in Seq(Lines) /\ Spliced(lines, rs) = FirstPlaces(lines, rs, k)
    BY <2>2, PlaceSteps
  <2>6. FirstPlaces(lines, rs, k) = FirstPlaces(lines, rs, k - 1) \o (NewAt(rs, k - 1) \o l)
    BY <2>2, PlaceSteps
  <2>7. z \in Seq(Lines) /\ Spliced(lines, rs) = q \o (z \o l)
    BY <2>2, <2>5, <2>6
  <2> HIDE DEF q, z, l
  <2>8. z \o l = z
    BY <2>3, <2>7, ConcatEmptySeq
  <2>9. q \o z \in Seq(Lines)
    BY <2>4, <2>7, ConcatProperties
  <2>10. (q \o z) \o <<>> = q \o z
    BY ONLY <2>9, ConcatEmptySeq
  <2> QED
    BY <2>1, <2>7, <2>8, <2>10 DEF q
<1>6. <<>> \in Seq(Lines) /\ n \in n..n
  BY <1>1
<1>7. Left(g, lines, rs, n, m, n, <<>>)
  BY <1>2, <1>3, <1>4, <1>5 DEF Left
<1>8. Len(lines) >= n
  BY <1>1
<1> QED
  BY <1>2, <1>6, <1>7, <1>8 DEF Reached

\* ... and behind the last it is the edit.
LEMMA ReachedLast ==
  ASSUME NEW lines \in Seq(Lines), NEW rs \in Seq(Edits(Len(lines))),
         NEW g, Applied(g, lines, Sorted(rs), Len(rs))
  PROVE  Reached(g, lines, rs, 0, 0)
<1> DEFINE n == Len(lines)
           m == Len(rs)
<1>1. m \in Nat /\ n \in Nat
  BY EditsAre
<1>2. ASSUME NEW at \in 0..n, Reached(g, lines, rs, at, m)
      PROVE  Reached(g, lines, rs, at, 0)
  <2> DEFINE S == {i \in Nat : i <= m => Reached(g, lines, rs, at, m - i)}
  <2>1. 0 \in S
    <3>1. m - 0 = m
      BY <1>1
    <3> QED
      BY <3>1, <1>2
  <2>2. ASSUME NEW i \in S PROVE i + 1 \in S
    <3> SUFFICES ASSUME i + 1 <= m PROVE Reached(g, lines, rs, at, m - (i + 1))
      OBVIOUS
    <3> DEFINE k == m - i
    <3>1. k \in 1..m /\ k - 1 = m - (i + 1) /\ Reached(g, lines, rs, at, k)
      BY <1>1
    <3> HIDE DEF k
    <3>2. Reached(g, lines, rs, at, k - 1)
      BY <3>1, ReachedStep
    <3> QED
      BY <3>1, <3>2
  <2>3. S \in SUBSET Nat
    OBVIOUS
  <2> HIDE DEF S
  <2>4. m \in S
    BY <2>1, <2>2, <2>3, <1>1, Induction
  <2>5. m - m = 0 /\ m <= m
    BY <1>1
  <2> QED
    BY <2>4, <2>5 DEF S
<1> DEFINE S == {i \in Nat : i <= n => Reached(g, lines, rs, n - i, 0)}
<1>3. 0 \in S
  <2>1. n - 0 = n /\ n \in 0..n
    BY <1>1
  <2> QED
    BY <2>1, <1>2, ReachedFirst
<1>4. ASSUME NEW i \in S PROVE i + 1 \in S
  <2> SUFFICES ASSUME i + 1 <= n PROVE Reached(g, lines, rs, n - (i + 1), 0)
    OBVIOUS
  <2> DEFINE at == n - i
  <2>1. at \in 1..n /\ at - 1 = n - (i + 1) /\ at - 1 \in 0..n /\ Reached(g, lines, rs, at, 0)
    BY <1>1
  <2> HIDE DEF at
  <2>2. Reached(g, lines, rs, at - 1, m)
    BY <2>1, ReachedPlace
  <2>3. Reached(g, lines, rs, at - 1, 0)
    BY <2>1, <2>2, <1>2
  <2> QED
    BY <2>1, <2>3
<1>5. S \in SUBSET Nat
  OBVIOUS
<1> HIDE DEF S
<1>6. n \in S
  BY <1>1, <1>3, <1>4, <1>5, Induction
<1>7. n - n = 0 /\ n <= n
  BY <1>1
<1> QED
  BY <1>6, <1>7 DEF S

\* Regions in order, replaced from the last to the first, give the edit.
LEMMA AppliedInPlace ==
  ASSUME NEW lines \in Seq(Lines), NEW rs \in Seq(Edits(Len(lines)))
  PROVE  /\ ApplyReplacements(lines, rs) \in Seq(Lines)
         /\ Disjoint(rs) => ApplyReplacements(lines, rs) = Spliced(lines, rs)
<1>1. Len(rs) \in Nat /\ Len(lines) \in Nat
  BY EditsAre
<1>2. PICK g : Applied(g, lines, Sorted(rs), Len(rs)) /\ ApplyReplacements(lines, rs) = g[Len(rs)]
  BY <1>1, ApplyReplacementsIs
<1>3. Reached(g, lines, rs, 0, 0)
  BY <1>2, ReachedLast
<1>4. After(g, rs, 0, 0) = ApplyReplacements(lines, rs)
  <2>1. Count(rs, 0, 0) = 0 /\ Len(rs) - 0 = Len(rs)
    BY <1>1, CountEnds
  <2> QED
    BY <2>1, <1>2 DEF After
<1>5. ASSUME Disjoint(rs) PROVE ApplyReplacements(lines, rs) = Spliced(lines, rs)
  <2>1. PICK e \in 0..Len(lines), rest \in Seq(Lines) : Left(g, lines, rs, 0, 0, e, rest)
    BY <1>3, <1>5 DEF Reached
  <2>2. UpTo(rs, 0, 0) = {}
    <3>1. \A j \in DOMAIN rs : rs[j].at \in Nat /\ j \in 1..Len(rs)
      BY EditsAre
    <3> QED
      BY <3>1 DEF UpTo
  <2>3. e = 0
    BY <2>1, <2>2 DEF Left, Prefix
  <2>4. FirstPlaces(lines, rs, 0) = <<>> /\ FirstNew(rs, 0, 0) = <<>>
    BY NewSteps, PlaceSteps
  <2>5. SubSeq(lines, 1, 0) = <<>> /\ \A x \in Seq(Lines) : <<>> \o x = x
    BY SubSeqEmpty, ConcatEmptySeq
  <2>6. /\ After(g, rs, 0, 0) = SubSeq(lines, 1, 0) \o rest
        /\ (<<>> \o <<>>) \o rest = Spliced(lines, rs)
    BY <2>1, <2>3, <2>4 DEF Left
  <2>7. rest \in Seq(Lines) /\ <<>> \in Seq(Lines)
    OBVIOUS
  <2> QED
    BY <2>5, <2>6, <2>7, <1>4
<1> QED
  BY <1>3, <1>4, <1>5 DEF Reached
-----------------------------------------------------------------------------
(* Where the chunks are found                                               *)

LEMMA MinIn ==
  ASSUME NEW n \in Nat, NEW T \in SUBSET (0..n), T # {}
  PROVE  Min(T) \in T
<1>1. \E x \in T : \A y \in T : x <= y
  <2>1. CASE 0 \in T
    BY <2>1
  <2>2. CASE 0 \notin T
    <3>1. T \in SUBSET (1..n)
      BY <2>2
    <3> QED
      BY <3>1, Least
  <2> QED
    BY <2>1, <2>2
<1> QED
  BY <1>1 DEF Min

\* What is found fits and, without an end-of-file mark, is not before the start.
LEMMA Found ==
  ASSUME NEW lines \in Seq(Lines), NEW pattern \in Seq(Lines), NEW start \in 0..Len(lines),
         NEW eof \in BOOLEAN, Seek(lines, pattern, start, eof) # NotFound
  PROVE  /\ Seek(lines, pattern, start, eof) \in 0..Len(lines)
         /\ Seek(lines, pattern, start, eof) + Len(pattern) <= Len(lines)
         /\ ~eof => start <= Seek(lines, pattern, start, eof)
<1> DEFINE end == Len(lines) - Len(pattern)
           Hits(pass) == {i \in (IF eof THEN end ELSE start)..end : Matches(lines, pattern, i, pass)}
           passes == {p \in 1..4 : Hits(p) # {}}
           at == Seek(lines, pattern, start, eof)
<1>1. Len(lines) \in Nat /\ Len(pattern) \in Nat /\ end \in Int /\ start \in Nat
  OBVIOUS
<1>2. CASE pattern = <<>>
  <2>1. ~(end < 0) /\ Len(pattern) = 0
    BY <1>2
  <2>2. at = start
    BY <2>1, <1>2 DEF Seek
  <2> QED
    BY <2>1, <2>2, <1>1
<1>3. CASE pattern # <<>> /\ end < 0
  <2>1. at = NotFound
    BY <1>3 DEF Seek
  <2> QED
    BY <2>1
<1>4. CASE pattern # <<>> /\ ~(end < 0)
  <2>1. at = IF passes = {} THEN NotFound ELSE Min(Hits(Min(passes)))
    BY <1>4 DEF Seek
  <2>2. passes # {} /\ at = Min(Hits(Min(passes)))
    BY <2>1
  <2>3. passes \in SUBSET (0..4)
    OBVIOUS
  <2>4. Min(passes) \in passes
    <3> HIDE DEF passes
    <3> QED
      BY <2>2, <2>3, MinIn
  <2> DEFINE H == Hits(Min(passes))
  <2>5. H # {}
    BY <2>4
  <2>6. H \subseteq 0..end /\ end \in Nat /\ \A i \in H : ~eof => start <= i
    BY <1>1, <1>4
  <2> HIDE DEF H, end, at
  <2>7. at \in H
    BY <2>2, <2>5, <2>6, MinIn DEF H
  <2>8. at \in 0..end /\ (~eof => start <= at)
    BY <2>6, <2>7
  <2> QED
    BY <2>8, <2>6, <1>1 DEF at, end
<1> QED
  BY <1>2, <1>3, <1>4

LEMMA DropBlankType ==
  ASSUME NEW lines \in Seq(Lines)
  PROVE  /\ DropBlank(lines) \in Seq(Lines) /\ Len(DropBlank(lines)) \in 0..Len(lines)
         /\ ~EndsBlank(lines) => DropBlank(lines) = lines
<1>1. CASE EndsBlank(lines)
  <2>1. lines # <<>> /\ Len(lines) \in Nat \ {0}
    BY <1>1 DEF EndsBlank
  <2>2. Front(lines) = SubSeq(lines, 1, Len(lines) - 1)
    BY DEF Front
  <2>3. \A i \in 1..Len(lines) - 1 : lines[i] \in Lines
    OBVIOUS
  <2>4. /\ SubSeq(lines, 1, Len(lines) - 1) \in Seq(Lines)
        /\ Len(SubSeq(lines, 1, Len(lines) - 1)) = Len(lines) - 1
    <3> DEFINE k == Len(lines) - 1
    <3>1. k \in Nat /\ \A i \in 1..k : lines[i] \in Lines
      BY <2>1, <2>3
    <3> HIDE DEF k
    <3>2. /\ SubSeq(lines, 1, k) \in Seq(Lines)
          /\ Len(SubSeq(lines, 1, k)) = IF 1 <= k THEN k - 1 + 1 ELSE 0
      BY ONLY <3>1, SubSeqProperties
    <3>3. (IF 1 <= k THEN k - 1 + 1 ELSE 0) = k
      BY <3>1
    <3> QED
      BY <3>2, <3>3 DEF k
  <2> QED
    BY <2>1, <2>2, <2>4, <1>1 DEF DropBlank
<1>2. CASE ~EndsBlank(lines)
  BY <1>2 DEF DropBlank
<1> QED
  BY <1>1, <1>2

\* A line found, or from where the chunk before left it.
ContextOf(lines, plan, chunk) ==
  IF chunk.context = NoContext THEN plan.from - 1 ELSE Seek(lines, <<chunk.context>>, plan.from, FALSE)

RegionOf(lines, plan, chunk) ==
  IF chunk.old = <<>> THEN Added(lines, chunk) ELSE Located(lines, chunk, ContextOf(lines, plan, chunk) + 1)

NotPlanned(lines, plan, chunk) ==
  \/ ~plan.ok
  \/ chunk.context # NoContext /\ ContextOf(lines, plan, chunk) = NotFound
  \/ RegionOf(lines, plan, chunk).at = NotFound

LEMMA PlannedIs ==
  ASSUME NEW lines, NEW plan, NEW chunk
  PROVE  Planned(lines, plan, chunk) =
           IF NotPlanned(lines, plan, chunk) THEN [plan EXCEPT !.ok = FALSE]
           ELSE [ok |-> TRUE,
                 from |-> IF chunk.old = <<>> THEN ContextOf(lines, plan, chunk) + 1
                          ELSE Behind(RegionOf(lines, plan, chunk)),
                 replacements |-> Append(plan.replacements, RegionOf(lines, plan, chunk))]
BY Zenon DEF Planned, NotPlanned, RegionOf, ContextOf

Plans(n) == [ok : BOOLEAN, from : 0..n, replacements : Seq(Edits(n))]

LEMMA ContextFound ==
  ASSUME NEW lines \in Seq(Lines), NEW plan \in Plans(Len(lines)), NEW chunk \in UpdateFileChunk,
         ~NotPlanned(lines, plan, chunk)
  PROVE  ContextOf(lines, plan, chunk) + 1 \in plan.from..Len(lines)
<1>1. plan.from \in 0..Len(lines) /\ plan.from \in Nat /\ Len(lines) \in Nat
  BY DEF Plans
<1>2. CASE chunk.context = NoContext
  BY <1>1, <1>2 DEF ContextOf
<1>3. CASE chunk.context # NoContext
  <2>1. chunk.context \in Lines
    BY <1>3 DEF UpdateFileChunk
  <2> DEFINE pattern == <<chunk.context>>
             c == Seek(lines, pattern, plan.from, FALSE)
  <2>2. pattern \in Seq(Lines) /\ Len(pattern) = 1
    BY <2>1
  <2>3. ContextOf(lines, plan, chunk) = c /\ c # NotFound
    BY <1>3 DEF ContextOf, NotPlanned
  <2>4. FALSE \in BOOLEAN
    OBVIOUS
  <2> HIDE DEF pattern
  <2>5. c \in 0..Len(lines) /\ c + Len(pattern) <= Len(lines) /\ plan.from <= c
    BY <2>2, <2>3, <2>4, <1>1, Found
  <2> HIDE DEF c
  <2> QED
    BY <2>2, <2>3, <2>5, <1>1
<1> QED
  BY <1>2, <1>3

LEMMA RegionFound ==
  ASSUME NEW lines \in Seq(Lines), NEW plan \in Plans(Len(lines)), NEW chunk \in UpdateFileChunk,
         ~NotPlanned(lines, plan, chunk)
  PROVE  LET r == RegionOf(lines, plan, chunk)
         IN  /\ r \in Edits(Len(lines))
             /\ chunk.old = <<>> => r.len = 0 /\ r.at = Len(DropBlank(lines))
             /\ chunk.old # <<>> /\ ~chunk.eof => plan.from <= r.at
<1> DEFINE r == RegionOf(lines, plan, chunk)
           from == ContextOf(lines, plan, chunk) + 1
           n == Len(lines)
<1>1. from \in plan.from..n
  BY ContextFound
<1>2. plan.from \in Nat /\ n \in Nat
  BY DEF Plans
<1>3. chunk.old \in Seq(Lines) /\ chunk.new \in Seq(Lines) /\ chunk.eof \in BOOLEAN
  BY DEF UpdateFileChunk
<1>4. r.at # NotFound
  BY DEF NotPlanned
<1>5. CASE chunk.old = <<>>
  <2>1. r = [at |-> Len(DropBlank(lines)), len |-> 0, new |-> chunk.new]
    BY <1>5 DEF RegionOf, Added, Replacement
  <2>2. Len(DropBlank(lines)) \in 0..n
    BY DropBlankType
  <2> HIDE DEF r
  <2>3. r \in Edits(n)
    BY <2>1, <2>2, <1>2, <1>3 DEF Edits
  <2> QED
    BY <2>1, <2>3, <1>5 DEF r
<1>6. CASE chunk.old # <<>>
  <2> DEFINE final == EndsBlank(chunk.old) /\ Seek(lines, chunk.old, from, chunk.eof) = NotFound
             old == IF final THEN Front(chunk.old) ELSE chunk.old
             new == IF final THEN DropBlank(chunk.new) ELSE chunk.new
             at == Seek(lines, old, from, chunk.eof)
  <2>1. r = [at |-> at, len |-> Len(old), new |-> new]
    BY <1>6 DEF RegionOf, Located, Replacement
  <2>2. old \in Seq(Lines)
    <3>1. final => Front(chunk.old) = DropBlank(chunk.old)
      BY DEF DropBlank
    <3>2. DropBlank(chunk.old) \in Seq(Lines)
      BY <1>3, DropBlankType
    <3> QED
      BY ONLY <1>3, <3>1, <3>2
  <2>3. new \in Seq(Lines)
    <3>1. DropBlank(chunk.new) \in Seq(Lines)
      BY <1>3, DropBlankType
    <3> QED
      BY ONLY <1>3, <3>1
  <2> HIDE DEF final, old, new, r
  <2>4. at # NotFound
    BY <1>4, <2>1
  <2>5. from \in 0..n
    BY <1>1, <1>2
  <2> HIDE DEF from
  <2>6. at \in 0..n /\ at + Len(old) <= n /\ (~chunk.eof => from <= at)
    BY <1>3, <2>2, <2>4, <2>5, Found
  <2>7. r \in Edits(n)
    BY <2>1, <2>2, <2>3, <2>6 DEF Edits
  <2>8. ~chunk.eof => plan.from <= r.at
    BY <2>1, <2>5, <2>6, <1>1, <1>2
  <2> QED
    BY <2>7, <2>8, <1>6 DEF r
<1> QED
  BY <1>5, <1>6
\* The chunks a reader would call in place: no end-of-file mark, and lines are added
\* at the very end.
Plain(lines, chunk) == ~chunk.eof /\ (chunk.old = <<>> => ~EndsBlank(lines))

\* The regions found so far are in order, and none but those at the end reaches
\* behind the place the search goes on from.
InOrder(lines, plan) ==
  plan.ok => /\ Disjoint(plan.replacements)
             /\ \A j \in DOMAIN plan.replacements :
                  LET r == plan.replacements[j]
                  IN (r.at = Len(lines) /\ r.len = 0) \/ End(r) <= plan.from

LEMMA PlannedType ==
  ASSUME NEW lines \in Seq(Lines), NEW plan \in Plans(Len(lines)), NEW chunk \in UpdateFileChunk
  PROVE  Planned(lines, plan, chunk) \in Plans(Len(lines))
<1> DEFINE n == Len(lines)
           r == RegionOf(lines, plan, chunk)
           from == ContextOf(lines, plan, chunk) + 1
           q == Planned(lines, plan, chunk)
<1>1. CASE NotPlanned(lines, plan, chunk)
  <2>1. q = [plan EXCEPT !.ok = FALSE]
    BY <1>1, PlannedIs
  <2> QED
    BY <2>1 DEF Plans
<1>2. CASE ~NotPlanned(lines, plan, chunk)
  <2>1. q = [ok |-> TRUE, from |-> IF chunk.old = <<>> THEN from ELSE Behind(r),
             replacements |-> Append(plan.replacements, r)]
    BY <1>2, PlannedIs
  <2>2. r \in Edits(n)
    BY <1>2, RegionFound
  <2>3. from \in 0..n
    <3>1. from \in plan.from..n /\ plan.from \in Nat
      BY <1>2, ContextFound DEF Plans
    <3> HIDE DEF from
    <3> QED
      BY <3>1
  <2>4. Behind(r) \in 0..n
    <3>1. r.at \in Nat /\ r.len \in Nat /\ r.at + r.len <= n
      BY <2>2 DEF Edits
    <3> QED
      BY <3>1 DEF Behind
  <2>5. Append(plan.replacements, r) \in Seq(Edits(n))
    <3>1. plan.replacements \in Seq(Edits(n))
      BY DEF Plans
    <3> QED
      BY <2>2, <3>1, AppendProperties
  <2> HIDE DEF r, from, n, q
  <2>6. (IF chunk.old = <<>> THEN from ELSE Behind(r)) \in 0..n
    BY <2>3, <2>4
  <2>7. q \in Plans(n)
    BY <2>1, <2>5, <2>6 DEF Plans
  <2> QED
    BY <2>7 DEF q, n
<1> QED
  BY <1>1, <1>2

LEMMA PlannedInOrder ==
  ASSUME NEW lines \in Seq(Lines), NEW plan \in Plans(Len(lines)), NEW chunk \in UpdateFileChunk,
         InOrder(lines, plan), Plain(lines, chunk)
  PROVE  InOrder(lines, Planned(lines, plan, chunk))
<1> DEFINE n == Len(lines)
           r == RegionOf(lines, plan, chunk)
           q == Planned(lines, plan, chunk)
           rs == plan.replacements
           ss == Append(rs, r)
           m == Len(rs)
<1>1. CASE NotPlanned(lines, plan, chunk)
  <2>1. q = [plan EXCEPT !.ok = FALSE]
    BY <1>1, PlannedIs
  <2>2. ~q.ok
    BY <2>1 DEF Plans
  <2> QED
    BY <2>2 DEF InOrder
<1>2. CASE ~NotPlanned(lines, plan, chunk)
  <2> DEFINE from == ContextOf(lines, plan, chunk) + 1
  <2>1. /\ q.replacements = ss
        /\ q.from = IF chunk.old = <<>> THEN from ELSE Behind(r)
    BY <1>2, PlannedIs
  <2>2. plan.ok
    BY <1>2 DEF NotPlanned
  <2>3. /\ r.at \in Nat /\ r.len \in Nat /\ End(r) \in Nat /\ End(r) <= n /\ r.at <= End(r)
        /\ r.at <= n /\ n \in Nat
    <3>1. r \in Edits(n)
      BY <1>2, RegionFound
    <3> HIDE DEF r
    <3> QED
      BY <3>1 DEF Edits, End
  <2>4. \/ chunk.old = <<>> /\ r.at = n /\ r.len = 0 /\ q.from = from
        \/ chunk.old # <<>> /\ plan.from <= r.at /\ q.from = End(r)
    <3>1. CASE chunk.old = <<>>
      <4>1. r.len = 0 /\ r.at = Len(DropBlank(lines))
        BY <1>2, <3>1, RegionFound
      <4>2. DropBlank(lines) = lines
        BY <3>1, DropBlankType DEF Plain
      <4> QED
        BY <4>1, <4>2, <3>1, <2>1
    <3>2. CASE chunk.old # <<>>
      <4>1. plan.from <= r.at
        BY <1>2, <3>2, RegionFound DEF Plain
      <4> QED
        BY <4>1, <3>2, <2>1 DEF Behind, End
    <3> QED
      BY <3>1, <3>2
  <2>5. from \in Nat /\ plan.from \in Nat /\ plan.from <= from
    <3>1. from \in plan.from..n /\ plan.from \in Nat
      BY <1>2, ContextFound DEF Plans
    <3> HIDE DEF from
    <3> QED
      BY <3>1
  <2>6. /\ m \in Nat /\ DOMAIN rs = 1..m /\ DOMAIN ss = 1..m + 1
        /\ \A j \in 1..m : ss[j] = rs[j]
        /\ ss[m + 1] = r
    <3>1. rs \in Seq(Edits(n)) /\ r \in Edits(n)
      BY <1>2, RegionFound DEF Plans
    <3> HIDE DEF r, rs
    <3> QED
      BY <3>1
  <2>7. \A j \in 1..m : /\ rs[j].at \in Nat /\ rs[j].len \in Nat
                        /\ End(rs[j]) \in Nat /\ End(rs[j]) <= n /\ rs[j].at <= End(rs[j])
    <3>1. rs \in Seq(Edits(n))
      BY DEF Plans
    <3> HIDE DEF rs
    <3>2. \A j \in 1..Len(rs) : rs[j].at \in Nat /\ rs[j].len \in Nat /\ rs[j].at + rs[j].len <= n
      BY <3>1, EditsAre
    <3> QED
      BY <3>2, <2>3 DEF End
  <2>8. /\ Disjoint(rs)
        /\ \A j \in 1..m : (rs[j].at = n /\ rs[j].len = 0) \/ End(rs[j]) <= plan.from
    BY <2>2, <2>6 DEF InOrder
  <2> HIDE DEF r, rs, m, n, q, from, ss
  <2>9. ASSUME NEW j \in 1..m
        PROVE  /\ rs[j].at <= r.at => End(rs[j]) <= r.at
               /\ r.at < rs[j].at => End(r) <= rs[j].at
    <3>1. CASE rs[j].at = n /\ rs[j].len = 0
      <4>1. End(rs[j]) = n
        BY <3>1, <2>3 DEF End
      <4> QED
        BY <4>1, <3>1, <2>3
    <3>2. CASE End(rs[j]) <= plan.from
      <4>1. plan.from <= r.at \/ r.at = n
        BY <2>4
      <4> QED
        BY ONLY <4>1, <3>2, <2>3, <2>5, <2>7
    <3> QED
      BY <3>1, <3>2, <2>8
  <2>10. ASSUME NEW i \in DOMAIN ss, NEW j \in DOMAIN ss,
                ss[i].at < ss[j].at \/ (ss[i].at = ss[j].at /\ i < j)
         PROVE  End(ss[i]) <= ss[j].at
    <3>1. CASE i \in 1..m /\ j \in 1..m
      BY <3>1, <2>6, <2>8, <2>10 DEF Disjoint
    <3>2. CASE i \in 1..m /\ j = m + 1
      <4>1. rs[i].at <= r.at
        BY <3>2, <2>3, <2>6, <2>7, <2>10
      <4> QED
        BY <4>1, <3>2, <2>6, <2>9
    <3>3. CASE i = m + 1 /\ j \in 1..m
      <4>1. r.at < rs[j].at
        BY <3>3, <2>6, <2>10
      <4> QED
        BY <4>1, <3>3, <2>6, <2>9
    <3>4. CASE i = m + 1 /\ j = m + 1
      BY <3>4, <2>3, <2>6, <2>10
    <3> QED
      BY <3>1, <3>2, <3>3, <3>4, <2>6
  <2>11. ASSUME NEW j \in DOMAIN ss
         PROVE  (ss[j].at = n /\ ss[j].len = 0) \/ End(ss[j]) <= q.from
    <3>1. CASE j \in 1..m
      <4>1. plan.from <= q.from
        BY <2>3, <2>4, <2>5
      <4>2. q.from \in Nat
        BY <2>3, <2>4, <2>5
      <4> QED
        BY <4>1, <4>2, <3>1, <2>5, <2>6, <2>7, <2>8
    <3>2. CASE j = m + 1
      BY <3>2, <2>3, <2>4, <2>6
    <3> QED
      BY <3>1, <3>2, <2>6
  <2>12. Disjoint(ss)
    BY <2>10 DEF Disjoint
  <2> QED
    BY <2>1, <2>11, <2>12 DEF InOrder, q, n
<1> QED
  BY <1>1, <1>2

Begins == [ok |-> TRUE, from |-> 0, replacements |-> <<>>]

Folds(g, lines, chunks, m) ==
  g = [k \in 0..m |-> IF k = 0 THEN Begins ELSE Planned(lines, g[k - 1], chunks[k])]
LEMMA FoldsExists ==
  ASSUME NEW lines, NEW chunks, NEW m \in Nat
  PROVE  \E g : Folds(g, lines, chunks, m)
<1> DEFINE Turn(k, x) == IF k = 0 THEN Begins ELSE Planned(lines, x, chunks[k])
           S == {n \in Nat : \E g : \A k \in 0..n : g[k] = Turn(k, g[k - 1])}
<1> HIDE DEF Turn
<1>1. 0 \in S
  <2>2. Turn(0, 0) = Begins /\ \A x : Turn(0, x) = Begins
    BY DEF Turn
  <2>3. \A k \in 0..0 : [i \in 0..0 |-> Begins][k] = Turn(k, [i \in 0..0 |-> Begins][k - 1])
    BY <2>2
  <2> QED
    BY <2>3
<1>2. ASSUME NEW n \in S PROVE n + 1 \in S
  <2>1. PICK g : \A k \in 0..n : g[k] = Turn(k, g[k - 1])
    OBVIOUS
  <2> DEFINE f == [k \in 0..n + 1 |-> IF k = n + 1 THEN Turn(k, g[n]) ELSE g[k]]
  <2>2. \A k \in 0..n : f[k] = g[k]
    OBVIOUS
  <2>3. f[n + 1] = Turn(n + 1, g[n])
    OBVIOUS
  <2>4. n \in Nat
    OBVIOUS
  <2> HIDE DEF f
  <2>5. ASSUME NEW k \in 0..n + 1 PROVE f[k] = Turn(k, f[k - 1])
    <3>1. CASE k = n + 1
      <4>1. k - 1 = n /\ n \in 0..n
        BY <3>1, <2>4
      <4> QED
        BY <4>1, <3>1, <2>2, <2>3
    <3>2. CASE k = 0
      <4>1. \A x, y : Turn(0, x) = Turn(0, y)
        BY DEF Turn
      <4> QED
        BY <4>1, <3>2, <2>1, <2>2, <2>4
    <3>3. CASE k # 0 /\ k # n + 1
      <4>1. k \in 0..n /\ k - 1 \in 0..n
        BY <3>3, <2>4
      <4> QED
        BY <4>1, <2>1, <2>2
    <3> QED
      BY <3>1, <3>2, <3>3
  <2> QED
    BY <2>4, <2>5
<1>3. S \in SUBSET Nat
  OBVIOUS
<1> HIDE DEF S
<1>4. m \in S
  BY <1>1, <1>2, <1>3, Induction
<1>5. PICK g : \A k \in 0..m : g[k] = Turn(k, g[k - 1])
  BY <1>4 DEF S
<1> DEFINE f == [k \in 0..m |-> g[k]]
<1>6. \A k \in 0..m : f[k] = g[k]
  OBVIOUS
<1>7. \A k \in 0..m : f[k] = Turn(k, f[k - 1])
  <2>1. ASSUME NEW k \in 0..m PROVE f[k] = Turn(k, f[k - 1])
    <3>1. CASE k = 0
      <4>1. \A x, y : Turn(0, x) = Turn(0, y)
        BY DEF Turn
      <4> QED
        BY <4>1, <3>1, <1>5, <1>6
    <3>2. CASE k # 0
      <4>1. k - 1 \in 0..m
        BY <3>2
      <4> QED
        BY <4>1, <1>5, <1>6
    <3> QED
      BY <3>1, <3>2
  <2> QED
    BY <2>1
<1>8. f = [k \in 0..m |-> Turn(k, f[k - 1])]
  <2>1. f = [k \in 0..m |-> f[k]]
    OBVIOUS
  <2> HIDE DEF f
  <2> QED
    BY <2>1, <1>7
<1>9. Folds(f, lines, chunks, m)
  <2> HIDE DEF f
  <2> QED
    BY <1>8 DEF Folds, Turn
<1> QED
  BY <1>9

LEMMA FoldsAt ==
  ASSUME NEW lines, NEW chunks, NEW m \in Nat, NEW g, Folds(g, lines, chunks, m)
  PROVE  /\ g[0] = Begins
         /\ \A k \in 1..m : g[k] = Planned(lines, g[k - 1], chunks[k])
<1> DEFINE Turn(k, x) == IF k = 0 THEN Begins ELSE Planned(lines, x, chunks[k])
<1>1. g = [k \in 0..m |-> Turn(k, g[k - 1])]
  BY DEF Folds
<1>2. Turn(0, g[0 - 1]) = Begins
  OBVIOUS
<1>3. \A k \in 1..m : Turn(k, g[k - 1]) = Planned(lines, g[k - 1], chunks[k])
  OBVIOUS
<1> HIDE DEF Turn
<1>4. \A k \in 0..m : g[k] = Turn(k, g[k - 1])
  BY <1>1
<1>5. 0 \in 0..m /\ \A k \in 1..m : k \in 0..m
  OBVIOUS
<1> QED
  BY <1>2, <1>3, <1>4, <1>5

LEMMA ComputeReplacementsIs ==
  ASSUME NEW lines, NEW chunks, Len(chunks) \in Nat
  PROVE  \E g : Folds(g, lines, chunks, Len(chunks)) /\ ComputeReplacements(lines, chunks) = g[Len(chunks)]
<1> DEFINE g == CHOOSE g : Folds(g, lines, chunks, Len(chunks))
<1>1. Folds(g, lines, chunks, Len(chunks))
  BY FoldsExists
<1>2. ComputeReplacements(lines, chunks) = g[Len(chunks)]
  BY Zenon DEF ComputeReplacements, Folds, Begins
<1> QED
  BY <1>1, <1>2

\* Regions that are found in the file, in order if the chunks are plain.
LEMMA ComputedInOrder ==
  ASSUME NEW lines \in Seq(Lines), NEW chunks \in Seq(UpdateFileChunk)
  PROVE  /\ ComputeReplacements(lines, chunks) \in Plans(Len(lines))
         /\ (\A k \in DOMAIN chunks : Plain(lines, chunks[k]))
              => InOrder(lines, ComputeReplacements(lines, chunks))
<1> DEFINE n == Len(lines)
           m == Len(chunks)
           plain == \A k \in DOMAIN chunks : Plain(lines, chunks[k])
<1>1. n \in Nat /\ m \in Nat /\ DOMAIN chunks = 1..m /\ \A k \in 1..m : chunks[k] \in UpdateFileChunk
  OBVIOUS
<1>2. PICK g : Folds(g, lines, chunks, m) /\ ComputeReplacements(lines, chunks) = g[m]
  BY <1>1, ComputeReplacementsIs
<1>3. g[0] = Begins /\ \A k \in 1..m : g[k] = Planned(lines, g[k - 1], chunks[k])
  <2>1. m \in Nat /\ Folds(g, lines, chunks, m)
    BY <1>1, <1>2
  <2> HIDE DEF m
  <2> QED
    BY ONLY <2>1, FoldsAt
<1> DEFINE S == {k \in Nat : k <= m => g[k] \in Plans(n) /\ (plain => InOrder(lines, g[k]))}
<1>4. 0 \in S
  <2>1. Begins \in Plans(n)
    <3>1. <<>> \in Seq(Edits(n)) /\ 0 \in 0..n
      BY <1>1
    <3> QED
      BY <3>1 DEF Begins, Plans
  <2>2. InOrder(lines, Begins)
    BY DEF Begins, InOrder, Disjoint
  <2> QED
    BY <2>1, <2>2, <1>3
<1>5. ASSUME NEW k \in S PROVE k + 1 \in S
  <2> SUFFICES ASSUME k + 1 <= m
               PROVE  g[k + 1] \in Plans(n) /\ (plain => InOrder(lines, g[k + 1]))
    OBVIOUS
  <2> DEFINE l == k + 1
  <2>1. l \in 1..m /\ l - 1 = k /\ g[k] \in Plans(n) /\ (plain => InOrder(lines, g[k]))
    BY <1>1
  <2> HIDE DEF l, plain
  <2>2. g[l] = Planned(lines, g[k], chunks[l]) /\ chunks[l] \in UpdateFileChunk
    BY <2>1, <1>1, <1>3
  <2>3. g[l] \in Plans(n)
    BY <2>1, <2>2, PlannedType
  <2>4. plain => InOrder(lines, g[l])
    <3>1. plain => Plain(lines, chunks[l])
      BY <2>1, <1>1 DEF plain
    <3> QED
      BY <3>1, <2>1, <2>2, PlannedInOrder
  <2> QED
    BY <2>3, <2>4 DEF l
<1>6. S \in SUBSET Nat
  OBVIOUS
<1> HIDE DEF S
<1>7. m \in S
  BY <1>1, <1>4, <1>5, <1>6, Induction
<1>8. m <= m
  BY <1>1
<1> QED
  BY <1>2, <1>7, <1>8 DEF S

\* What compute_replacements finds and apply_replacements makes of it.
LEMMA ChunksInPlace ==
  ASSUME NEW lines \in Seq(Lines), NEW chunks \in Seq(UpdateFileChunk),
         ComputeReplacements(lines, chunks).ok
  PROVE  LET rs == ComputeReplacements(lines, chunks).replacements
         IN  /\ ApplyReplacements(lines, rs) \in Seq(Lines)
             /\ (\A k \in DOMAIN chunks : Plain(lines, chunks[k]))
                  => ApplyReplacements(lines, rs) = Spliced(lines, rs)
<1> DEFINE plan == ComputeReplacements(lines, chunks)
           rs == plan.replacements
<1>1. plan \in Plans(Len(lines))
  BY ComputedInOrder
<1>2. (\A k \in DOMAIN chunks : Plain(lines, chunks[k])) => InOrder(lines, plan)
  BY ComputedInOrder
<1> HIDE DEF plan
<1>3. rs \in Seq(Edits(Len(lines)))
  BY <1>1 DEF Plans
<1>4. (\A k \in DOMAIN chunks : Plain(lines, chunks[k])) => Disjoint(rs)
  BY <1>2 DEF InOrder, plan
<1> HIDE DEF rs
<1>5. /\ ApplyReplacements(lines, rs) \in Seq(Lines)
      /\ Disjoint(rs) => ApplyReplacements(lines, rs) = Spliced(lines, rs)
  BY <1>3, AppliedInPlace
<1> QED
  BY <1>4, <1>5 DEF rs, plan

-----------------------------------------------------------------------------
(* What is found                                                            *)

LEMMA FoundThere ==
  ASSUME NEW lines \in Seq(Lines), NEW pattern \in Seq(Lines), NEW start \in 0..Len(lines),
         NEW eof \in BOOLEAN, Seek(lines, pattern, start, eof) # NotFound
  PROVE  IsThere(lines, pattern, Seek(lines, pattern, start, eof))
<1> DEFINE end == Len(lines) - Len(pattern)
           Hits(pass) == {i \in (IF eof THEN end ELSE start)..end : Matches(lines, pattern, i, pass)}
           passes == {p \in 1..4 : Hits(p) # {}}
           at == Seek(lines, pattern, start, eof)
<1>1. CASE pattern = <<>>
  <2>1. DOMAIN pattern = {}
    BY <1>1
  <2>2. 1 \in 1..4 /\ Matches(lines, pattern, at, 1)
    BY <2>1 DEF Matches
  <2> QED
    BY <2>2 DEF IsThere
<1>2. CASE pattern # <<>>
  <2>1. end \in Int /\ start \in Nat /\ end <= Len(lines) /\ Len(lines) \in Nat
    OBVIOUS
  <2>2. ~(end < 0)
    BY <1>2 DEF Seek
  <2>3. at = IF passes = {} THEN NotFound ELSE Min(Hits(Min(passes)))
    BY <1>2, <2>2 DEF Seek
  <2>4. passes # {} /\ at = Min(Hits(Min(passes)))
    BY <2>3
  <2>5. passes \in SUBSET (0..4)
    OBVIOUS
  <2>6. Min(passes) \in passes
    <3> HIDE DEF passes
    <3> QED
      BY <2>4, <2>5, MinIn
  <2>7. \A p \in passes : /\ p \in 1..4 /\ Hits(p) # {} /\ Hits(p) \subseteq 0..Len(lines)
                         /\ \A i \in Hits(p) : Matches(lines, pattern, i, p)
    BY <2>1, <2>2
  <2> HIDE DEF passes, Hits
  <2> DEFINE pass == Min(passes)
             H == Hits(pass)
  <2>8. at = Min(H)
    BY <2>4
  <2> HIDE DEF H, at, pass
  <2>9. pass \in 1..4 /\ H # {} /\ H \subseteq 0..Len(lines) /\ \A i \in H : Matches(lines, pattern, i, pass)
    BY <2>6, <2>7 DEF pass, H
  <2>10. at \in H
    BY <2>1, <2>8, <2>9, MinIn
  <2>11. IsThere(lines, pattern, at)
    BY <2>9, <2>10 DEF IsThere
  <2> QED
    BY <2>11 DEF at
<1> QED
  BY <1>1, <1>2

\* A chunk's old lines, without a blank last one if need be, are where it is planned.
LEMMA OldFound ==
  ASSUME NEW lines \in Seq(Lines), NEW plan \in Plans(Len(lines)), NEW chunk \in UpdateFileChunk,
         ~NotPlanned(lines, plan, chunk), chunk.old # <<>>, ~chunk.eof
  PROVE  LET r == RegionOf(lines, plan, chunk)
         IN  /\ r.len = Len(chunk.old) \/ (EndsBlank(chunk.old) /\ r.len = Len(chunk.old) - 1)
             /\ IsThere(lines, SubSeq(chunk.old, 1, r.len), r.at)
             /\ ContextOf(lines, plan, chunk) + 1 <= r.at
<1> DEFINE r == RegionOf(lines, plan, chunk)
           from == ContextOf(lines, plan, chunk) + 1
           final == EndsBlank(chunk.old) /\ Seek(lines, chunk.old, from, chunk.eof) = NotFound
           old == IF final THEN Front(chunk.old) ELSE chunk.old
           at == Seek(lines, old, from, chunk.eof)
<1>1. r.at = at /\ r.len = Len(old)
  BY DEF RegionOf, Located, Replacement
<1>2. at # NotFound
  BY <1>1 DEF NotPlanned
<1>3. from \in 0..Len(lines)
  <2>1. from \in plan.from..Len(lines) /\ plan.from \in Nat
    BY ContextFound DEF Plans
  <2> HIDE DEF from
  <2> QED
    BY <2>1
<1>4. chunk.old \in Seq(Lines) /\ chunk.eof \in BOOLEAN /\ Len(chunk.old) \in Nat
  BY DEF UpdateFileChunk
<1>5. Len(chunk.old) # 0
  BY <1>4
<1>6. /\ old \in Seq(Lines) /\ old = SubSeq(chunk.old, 1, Len(old))
      /\ Len(old) = Len(chunk.old) \/ (EndsBlank(chunk.old) /\ Len(old) = Len(chunk.old) - 1)
  <2>1. CASE final
    <3> DEFINE k == Len(chunk.old) - 1
    <3>1. old = SubSeq(chunk.old, 1, k)
      BY <2>1 DEF Front
    <3>2. k \in Nat /\ \A i \in 1..k : chunk.old[i] \in Lines
      BY <1>4, <1>5
    <3> HIDE DEF k, old
    <3>3. /\ SubSeq(chunk.old, 1, k) \in Seq(Lines)
          /\ Len(SubSeq(chunk.old, 1, k)) = IF 1 <= k THEN k - 1 + 1 ELSE 0
      BY ONLY <3>2, SubSeqProperties
    <3>4. Len(old) = k /\ old \in Seq(Lines)
      BY <3>1, <3>2, <3>3
    <3> QED
      BY <2>1, <3>1, <3>4 DEF k
  <2>2. CASE ~final
    <3>1. old = chunk.old
      BY <2>2
    <3> HIDE DEF old
    <3> QED
      BY <3>1, <1>4, SubSeqFull
  <2> QED
    BY <2>1, <2>2
<1> HIDE DEF old, from, r
<1>7. IsThere(lines, old, at) /\ from <= at
  BY <1>2, <1>3, <1>4, <1>6, Found, FoundThere
<1> HIDE DEF at
<1>8. IsThere(lines, SubSeq(chunk.old, 1, r.len), r.at)
  BY <1>1, <1>6, <1>7
<1> QED
  BY <1>1, <1>6, <1>7, <1>8 DEF r, from

\* The context of a chunk is a line behind the place the search goes on from.
LEMMA ContextThere ==
  ASSUME NEW lines \in Seq(Lines), NEW plan \in Plans(Len(lines)), NEW chunk \in UpdateFileChunk,
         ~NotPlanned(lines, plan, chunk), chunk.context # NoContext
  PROVE  LET c == ContextOf(lines, plan, chunk)
         IN  c \in Nat /\ plan.from <= c /\ IsThere(lines, <<chunk.context>>, c)
<1> DEFINE pattern == <<chunk.context>>
           c == ContextOf(lines, plan, chunk)
<1>1. plan.from \in 0..Len(lines) /\ FALSE \in BOOLEAN
  BY DEF Plans
<1>2. pattern \in Seq(Lines)
  BY DEF UpdateFileChunk
<1>3. c = Seek(lines, pattern, plan.from, FALSE) /\ c # NotFound
  BY DEF ContextOf, NotPlanned
<1> HIDE DEF pattern, c
<1>4. c \in 0..Len(lines) /\ plan.from <= c
  BY <1>1, <1>2, <1>3, Found
<1>5. IsThere(lines, pattern, c)
  BY <1>1, <1>2, <1>3, FoundThere
<1> QED
  BY <1>4, <1>5 DEF pattern, c

\* What is said of a chunk is about it and those before it.
LEMMA FoundKept ==
  ASSUME NEW lines, NEW chunks, NEW rs, NEW ss, NEW k \in Nat, NEW j \in 1..k,
         \A i \in 1..k : rs[i] = ss[i], FoundAt(lines, chunks, rs, j)
  PROVE  FoundAt(lines, chunks, ss, j)
<1>1. rs[j] = ss[j]
  OBVIOUS
<1>2. \A i \in 1..j - 1 : rs[i] = ss[i]
  OBVIOUS
<1>3. \A at : Clear(chunks, rs, j, at) => Clear(chunks, ss, j, at)
  BY <1>2 DEF Clear
<1> QED
  BY <1>1, <1>3 DEF FoundAt

\* The first k chunks are found, and the search goes on behind them.
FoundTo(lines, chunks, plan, k) ==
  plan.ok => /\ Len(plan.replacements) = k
             /\ Clear(chunks, plan.replacements, k + 1, plan.from)
             /\ \A j \in 1..k : chunks[j].old # <<>> => FoundAt(lines, chunks, plan.replacements, j)

LEMMA FoundStep ==
  ASSUME NEW lines \in Seq(Lines), NEW chunks \in Seq(UpdateFileChunk), NEW plan \in Plans(Len(lines)),
         NEW k \in Nat, NEW l \in 1..Len(chunks), l = k + 1, ~chunks[l].eof,
         FoundTo(lines, chunks, plan, k)
  PROVE  FoundTo(lines, chunks, Planned(lines, plan, chunks[l]), l)
<1> DEFINE chunk == chunks[l]
           n == Len(lines)
           r == RegionOf(lines, plan, chunk)
           c == ContextOf(lines, plan, chunk)
           q == Planned(lines, plan, chunk)
           rs == plan.replacements
           ss == Append(rs, r)
<1>1. chunk \in UpdateFileChunk /\ ~chunk.eof
  OBVIOUS
<1>2. CASE NotPlanned(lines, plan, chunk)
  <2>1. q = [plan EXCEPT !.ok = FALSE]
    BY <1>2, PlannedIs
  <2>2. ~q.ok
    BY <2>1 DEF Plans
  <2> QED
    BY <2>2 DEF FoundTo
<1>3. CASE ~NotPlanned(lines, plan, chunk)
  <2> HIDE DEF chunk
  <2>1. q.replacements = ss /\ q.from = IF chunk.old = <<>> THEN c + 1 ELSE Behind(r)
    BY <1>3, PlannedIs
  <2>2. plan.ok
    BY <1>3 DEF NotPlanned
  <2>3. /\ Len(rs) = k /\ Clear(chunks, rs, l, plan.from)
        /\ \A j \in 1..k : chunks[j].old # <<>> => FoundAt(lines, chunks, rs, j)
    BY <2>2 DEF FoundTo
  <2>4. /\ r.at \in Nat /\ r.len \in Nat /\ r.at + r.len <= n /\ n \in Nat
        /\ r \in Edits(n) /\ rs \in Seq(Edits(n))
    <3>1. r \in Edits(n)
      BY <1>1, <1>3, RegionFound
    <3> HIDE DEF r
    <3> QED
      BY <3>1 DEF Edits, Plans
  <2>5. Len(ss) = l /\ ss[l] = r /\ \A j \in 1..k : rs[j] = ss[j]
    <3> HIDE DEF r, rs
    <3> QED
      BY <2>3, <2>4
  <2>6. c \in Int /\ plan.from \in Nat /\ plan.from <= c + 1
    <3>1. c + 1 \in plan.from..n /\ plan.from \in Nat
      BY <1>1, <1>3, ContextFound DEF Plans
    <3>2. c \in Int
      <4>1. chunk.context = NoContext => c = plan.from - 1
        BY DEF ContextOf
      <4>2. chunk.context # NoContext => c \in Nat
        BY <1>1, <1>3, ContextThere
      <4> HIDE DEF c
      <4> QED
        BY <3>1, <4>1, <4>2
    <3> HIDE DEF c
    <3> QED
      BY <3>1, <3>2
  <2>7. chunk.old # <<>> =>
          /\ r.len = Len(chunk.old) \/ (EndsBlank(chunk.old) /\ r.len = Len(chunk.old) - 1)
          /\ IsThere(lines, SubSeq(chunk.old, 1, r.len), r.at)
          /\ c + 1 <= r.at
    BY <1>1, <1>3, OldFound
  <2>8. chunk.context # NoContext => c \in Nat /\ plan.from <= c /\ IsThere(lines, <<chunk.context>>, c)
    BY <1>1, <1>3, ContextThere
  <2>9. \A j \in 1..k : ss[j].at + ss[j].len \in Nat
    <3>1. \A j \in 1..Len(rs) : rs[j].at \in Nat /\ rs[j].len \in Nat
      BY <2>4, EditsAre
    <3> HIDE DEF ss, rs
    <3> QED
      BY <2>3, <2>5, <3>1
  <2> HIDE DEF r, c, q, rs, ss, n
  <2>10. ASSUME NEW at \in Int, plan.from <= at
         PROVE  Clear(chunks, ss, l, at)
    <3>1. ASSUME NEW j \in 1..l - 1, chunks[j].old # <<>>
          PROVE  ss[j].at + ss[j].len <= at
      <4>1. rs[j].at + rs[j].len <= plan.from
        BY <2>3, <3>1 DEF Clear
      <4>2. j \in 1..k
        OBVIOUS
      <4>3. ss[j].at + ss[j].len \in Nat /\ ss[j].at + ss[j].len <= plan.from
        BY <2>5, <2>9, <4>1, <4>2
      <4> QED
        BY <2>6, <2>10, <4>3
    <3> QED
      BY <3>1 DEF Clear
  <2>11. chunk.old # <<>> => FoundAt(lines, chunks, ss, l)
    <3> SUFFICES ASSUME chunk.old # <<>> PROVE FoundAt(lines, chunks, ss, l)
      OBVIOUS
    <3>1. Clear(chunks, ss, l, r.at)
      BY <2>4, <2>6, <2>7, <2>10
    <3>2. chunk.context # NoContext =>
            \E b \in 0..r.at - 1 : IsThere(lines, <<chunk.context>>, b) /\ Clear(chunks, ss, l, b)
      <4>1. chunk.context # NoContext => c \in 0..r.at - 1 /\ Clear(chunks, ss, l, c)
        BY <2>4, <2>7, <2>8, <2>10
      <4> QED
        BY <2>8, <4>1
    <3> QED
      BY <2>4, <2>5, <2>7, <3>1, <3>2 DEF FoundAt, chunk, n
  <2>12. Clear(chunks, ss, l + 1, q.from)
    <3>1. q.from \in Int /\ plan.from <= q.from
      BY <2>1, <2>4, <2>6, <2>7 DEF Behind
    <3>2. Clear(chunks, ss, l, q.from)
      BY <2>10, <3>1
    <3>3. chunk.old # <<>> => ss[l].at + ss[l].len <= q.from
      BY <2>1, <2>4, <2>5 DEF Behind
    <3>4. ASSUME NEW j \in 1..l + 1 - 1, chunks[j].old # <<>>
          PROVE  ss[j].at + ss[j].len <= q.from
      <4>1. CASE j = l
        BY <3>3, <3>4, <4>1 DEF chunk
      <4>2. CASE j # l
        <5>1. j \in 1..l - 1
          BY <4>2
        <5> QED
          BY <5>1, <3>2, <3>4 DEF Clear
      <4> QED
        BY <4>1, <4>2
    <3> QED
      BY <3>4 DEF Clear
  <2>13. ASSUME NEW j \in 1..l, chunks[j].old # <<>>
         PROVE  FoundAt(lines, chunks, ss, j)
    <3>1. CASE j = l
      BY <2>11, <2>13, <3>1 DEF chunk
    <3>2. CASE j # l
      <4>1. j \in 1..k
        BY <3>2
      <4>2. FoundAt(lines, chunks, rs, j)
        BY <2>3, <2>13, <4>1
      <4> QED
        BY <2>5, <4>1, <4>2, FoundKept
    <3> QED
      BY <3>1, <3>2
  <2> QED
    BY <2>1, <2>5, <2>12, <2>13 DEF FoundTo, q, chunk
<1> QED
  BY <1>2, <1>3

\* All chunks are found where FoundAt says.
LEMMA ComputedFound ==
  ASSUME NEW lines \in Seq(Lines), NEW chunks \in Seq(UpdateFileChunk),
         \A k \in DOMAIN chunks : ~chunks[k].eof
  PROVE  FoundTo(lines, chunks, ComputeReplacements(lines, chunks), Len(chunks))
<1> DEFINE n == Len(lines)
           m == Len(chunks)
<1>1. n \in Nat /\ m \in Nat /\ DOMAIN chunks = 1..m /\ \A k \in 1..m : chunks[k] \in UpdateFileChunk
  OBVIOUS
<1>2. PICK g : Folds(g, lines, chunks, m) /\ ComputeReplacements(lines, chunks) = g[m]
  BY <1>1, ComputeReplacementsIs
<1>3. g[0] = Begins /\ \A k \in 1..m : g[k] = Planned(lines, g[k - 1], chunks[k])
  <2>1. m \in Nat /\ Folds(g, lines, chunks, m)
    BY <1>1, <1>2
  <2> HIDE DEF m
  <2> QED
    BY ONLY <2>1, FoldsAt
<1> DEFINE S == {k \in Nat : k <= m => g[k] \in Plans(n) /\ FoundTo(lines, chunks, g[k], k)}
<1>4. 0 \in S
  <2>1. Begins \in Plans(n)
    <3>1. <<>> \in Seq(Edits(n)) /\ 0 \in 0..n
      BY <1>1
    <3> QED
      BY <3>1 DEF Begins, Plans
  <2>2. FoundTo(lines, chunks, Begins, 0)
    BY DEF Begins, FoundTo, Clear
  <2> QED
    BY <2>1, <2>2, <1>3
<1>5. ASSUME NEW k \in S PROVE k + 1 \in S
  <2> SUFFICES ASSUME k + 1 <= m
               PROVE  g[k + 1] \in Plans(n) /\ FoundTo(lines, chunks, g[k + 1], k + 1)
    OBVIOUS
  <2> DEFINE l == k + 1
  <2>1. l \in 1..m /\ l = k + 1 /\ l - 1 = k /\ k \in Nat
        /\ g[k] \in Plans(n) /\ FoundTo(lines, chunks, g[k], k)
    BY <1>1
  <2> HIDE DEF l
  <2>2. g[l] = Planned(lines, g[k], chunks[l]) /\ chunks[l] \in UpdateFileChunk /\ ~chunks[l].eof
    BY <2>1, <1>1, <1>3
  <2>3. g[l] \in Plans(n)
    BY <2>1, <2>2, PlannedType
  <2>4. FoundTo(lines, chunks, g[l], l)
    BY <2>1, <2>2, FoundStep
  <2> QED
    BY <2>3, <2>4 DEF l
<1>6. S \in SUBSET Nat
  OBVIOUS
<1> HIDE DEF S
<1>7. m \in S
  BY <1>1, <1>4, <1>5, <1>6, Induction
<1>8. m <= m
  BY <1>1
<1> QED
  BY <1>2, <1>7, <1>8 DEF S

-----------------------------------------------------------------------------
(* The inductive invariant                                                  *)

Places == 1 .. Len(patch)
Moves(i) == patch[i].kind = "update" /\ patch[i].dest # NoPath

Parsed ==
  /\ Len(patch) \in Nat /\ DOMAIN patch = Places
  /\ \A i \in Places : /\ patch[i].kind \in Kinds /\ patch[i].path \in Paths
                       /\ patch[i].kind = "update" => patch[i].dest \in Paths \cup {NoPath}

Typed ==
  /\ Parsed
  /\ disk = [p \in Paths |-> disk[p]]
  /\ edits \in Nat /\ attempt \in Nat /\ moving \in BOOLEAN
  /\ next \in 1 .. Len(patch) + 1
  /\ phase = "run" => attempt # 0

\* What a hunk makes of the text it finds.
TextIn(d, p) == IF d[p] = Missing THEN <<>> ELSE d[p][1]
NewText(d, i) == File(Derived(TextIn(d, patch[i].path), patch[i].chunks).content)

\* Nobody writes before the process runs. Between its two steps a move is at its
\* hunk, and the copy is there.
Waiting == phase \in {"called", "asked", "cleared"}

MovingInv ==
  /\ moving => /\ ~Waiting
               /\ next <= Len(patch) /\ Moves(next)
               /\ edits = 0 => disk[patch[next].dest] # Missing
  /\ Waiting /\ edits = 0 => disk = begun

\* A change is what its hunk would make of the files as the call began.
ChangeIs(i, c) ==
  /\ c.kind = patch[i].kind
  /\ c.dest = IF patch[i].kind = "update" THEN patch[i].dest ELSE NoPath
  /\ patch[i].kind = "add" => c.content = File(Terminated(patch[i].lines))
  /\ patch[i].kind = "update" => c.content = NewText(begun, i)

ShownInv ==
  phase \in {"asked", "cleared", "run", "applied"} /\ Untouched =>
    /\ DOMAIN changes = {patch[i].path : i \in Places}
    /\ \A i \in Places : ChangeIs(i, changes[patch[i].path])

\* The hunks before the one the process is at are done, the files of the others
\* are as they were, and so is what no hunk names.
Done(i) ==
  /\ patch[i].kind = "add" => disk[patch[i].path] = File(Terminated(patch[i].lines))
  /\ patch[i].kind = "delete" \/ Moves(i) => disk[patch[i].path] = Missing
  /\ patch[i].kind = "update" /\ ~Moves(i) => disk[patch[i].path] = NewText(begun, i)
  /\ Moves(i) => disk[patch[i].dest] = NewText(begun, i)

Names(i, p) == patch[i].path = p \/ (Moves(i) /\ patch[i].dest = p)

FirstRun == (phase = "applied" \/ (phase = "run" /\ stage # "refused")) /\ attempt = 1

Progress ==
  /\ \A i \in Places : /\ i < next => Done(i)
                       /\ i >= next => disk[patch[i].path] = begun[patch[i].path]
  /\ moving => disk[patch[next].dest] = NewText(begun, next)
  /\ \A p \in Paths : (\A i \in Places : ~Names(i, p)) => disk[p] = begun[p]

ProgressInv ==
  /\ FirstRun /\ Untouched => Progress
  /\ phase = "applied" => next = Len(patch) + 1

\* Files and hunks are made of lines.
TextInv ==
  /\ \A p \in Paths : IsFile(disk[p])
  /\ \A i \in Places : /\ patch[i].kind = "add" => patch[i].lines \in Seq(Lines)
                       /\ patch[i].kind = "update" => patch[i].chunks \in Seq(UpdateFileChunk)

IInv == Typed /\ TextInv /\ MovingInv /\ ShownInv /\ ProgressInv /\ MoveLosesNothing

-----------------------------------------------------------------------------
(* What NamedOnce says of two hunks                                         *)

Apart ==
  /\ \A i, j \in Places : i # j => patch[i].path # patch[j].path
  /\ \A i, j \in Places : Moves(i) => patch[i].dest # patch[j].path
  /\ \A i, j \in Places : Moves(i) /\ Moves(j) /\ i # j => patch[i].dest # patch[j].dest

\* A set of places has as many elements as can be told apart.
LEMMA Counted ==
  ASSUME NEW n \in Nat, NEW S \in SUBSET (1..n)
  PROVE  /\ Cardinality(S) \in Nat
         /\ \A x \in S : Cardinality(S) >= 1
         /\ \A x, y \in S : x # y => Cardinality(S) >= 2
<1>1. IsFiniteSet(1..n)
  BY FS_Interval
<1>2. IsFiniteSet(S) /\ Cardinality(S) \in Nat
  BY <1>1, FS_Subset, FS_CardinalityType
<1>3. ASSUME NEW x \in S
      PROVE  Cardinality(S) >= 1
  <2>1. Cardinality({x}) = 1 /\ {x} \subseteq S
    BY FS_Singleton
  <2>2. QED
    BY <2>1, <1>2, FS_Subset
<1>4. ASSUME NEW x \in S, NEW y \in S, x # y
      PROVE  Cardinality(S) >= 2
  <2>1. Cardinality({x}) = 1 /\ IsFiniteSet({x})
    BY FS_Singleton
  <2>2. Cardinality({x} \cup {y}) = Cardinality({x}) + 1
    BY <2>1, <1>4, FS_AddElement
  <2>3. {x} \cup {y} \subseteq S
    OBVIOUS
  <2>4. Cardinality({x} \cup {y}) <= Cardinality(S)
    BY <2>3, <1>2, FS_Subset
  <2>5. QED
    BY <2>1, <2>2, <2>4, <1>2
<1>5. QED
  BY <1>2, <1>3, <1>4

\* No file and no destination of a move is another hunk's file or destination.
LEMMA NamedApart ==
  ASSUME Parsed, NamedOnce
  PROVE  Apart
<1> DEFINE Of(p) == {i \in DOMAIN patch : patch[i].path = p}
           To(p) == {i \in DOMAIN patch : patch[i].kind = "update" /\ patch[i].dest = p}
<1>1. \A p \in Paths : Cardinality(Of(p)) + Cardinality(To(p)) <= 1
  BY DEF NamedOnce
<1>2. Len(patch) \in Nat /\ \A p : Of(p) \in SUBSET (1..Len(patch)) /\ To(p) \in SUBSET (1..Len(patch))
  BY DEF Parsed, Places
<1>3. \A p : /\ Cardinality(Of(p)) \in Nat
             /\ \A x \in Of(p) : Cardinality(Of(p)) >= 1
             /\ \A x, y \in Of(p) : x # y => Cardinality(Of(p)) >= 2
  BY <1>2, Counted
<1>4. \A p : /\ Cardinality(To(p)) \in Nat
             /\ \A x \in To(p) : Cardinality(To(p)) >= 1
             /\ \A x, y \in To(p) : x # y => Cardinality(To(p)) >= 2
  BY <1>2, Counted
<1>5. \A i \in Places : /\ patch[i].path \in Paths /\ i \in Of(patch[i].path)
                        /\ Moves(i) => patch[i].dest \in Paths /\ i \in To(patch[i].dest)
  BY DEF Parsed, Moves
<1> HIDE DEF Of, To
<1>6. ASSUME NEW i \in Places, NEW j \in Places, i # j, patch[i].path = patch[j].path
      PROVE  FALSE
  BY <1>1, <1>3, <1>4, <1>5, <1>6
<1>7. ASSUME NEW i \in Places, NEW j \in Places, Moves(i), patch[i].dest = patch[j].path
      PROVE  FALSE
  BY <1>1, <1>3, <1>4, <1>5, <1>7
<1>8. ASSUME NEW i \in Places, NEW j \in Places, Moves(i), Moves(j), i # j,
             patch[i].dest = patch[j].dest
      PROVE  FALSE
  BY <1>1, <1>3, <1>4, <1>5, <1>8
<1>9. QED
  BY <1>6, <1>7, <1>8 DEF Apart

LEMMA FileIsThere ==
  ASSUME NEW content
  PROVE  File(content) # Missing
BY DEF File, Missing

\* What is shown of a file is what its hunk would do.
LEMMA ShownOf ==
  ASSUME Parsed, Apart
  PROVE  /\ DOMAIN Shown = {patch[i].path : i \in Places}
         /\ \A i \in Places : Shown[patch[i].path] = Verified(patch[i])
<1>1. DOMAIN Shown = {patch[i].path : i \in Places}
  BY DEF Shown, Parsed
<1>2. ASSUME NEW i \in Places
      PROVE  Shown[patch[i].path] = Verified(patch[i])
  <2> DEFINE p == patch[i].path
             S == {j \in DOMAIN patch : patch[j].path = p}
  <2>1. S = {i}
    BY DEF Apart, Parsed
  <2>2. i \in Int
    BY DEF Places
  <2>3. Max({i}) = i
    BY <2>2 DEF Max
  <2>4. p \in {patch[j].path : j \in DOMAIN patch}
    BY DEF Parsed
  <2>5. Shown[p] = Verified(patch[Max(S)])
    BY <2>4 DEF Shown
  <2>6. QED
    BY <2>1, <2>3, <2>5
<1>3. QED
  BY <1>1, <1>2

-----------------------------------------------------------------------------
(* Every step                                                               *)

\* The steps of the process that change a file.
Writes == AddFile \/ DeleteFile \/ UpdateFile \/ RemoveOriginal

LEMMA InitHolds == Init => IInv
<1> SUFFICES ASSUME Init PROVE IInv
  OBVIOUS
<1>1. PICK c \in Cases[mode] : disk = c.disk /\ patch = c.patch /\ editLimit = c.edits
  BY DEF Init
<1>2. mode \in Modes
  BY DEF Init, OrchestratorInit
<1>3. /\ c.disk = [p \in Paths |-> c.disk[p]] /\ \A p \in Paths : IsFile(c.disk[p])
      /\ Len(c.patch) \in Nat /\ DOMAIN c.patch = 1..Len(c.patch)
      /\ \A i \in DOMAIN c.patch :
           /\ c.patch[i].kind \in Kinds /\ c.patch[i].path \in Paths
           /\ c.patch[i].kind = "add" => c.patch[i].lines \in Seq(Lines)
           /\ c.patch[i].kind = "update" => /\ c.patch[i].dest \in Paths \cup {NoPath}
                                            /\ c.patch[i].chunks \in Seq(UpdateFileChunk)
  BY <1>1, <1>2, CasesAssumption
<1>4. Parsed
  BY <1>1, <1>3 DEF Parsed, Places
<1>5. next = 1 /\ moving = FALSE /\ edits = 0 /\ attempt = 0 /\ phase = "called" /\ begun = disk
  BY DEF Init
<1>6. disk = [p \in Paths |-> disk[p]]
  BY <1>1, <1>3
<1>7. Typed
  <2>1. Len(patch) \in Nat
    BY <1>4 DEF Parsed
  <2>2. next \in 1 .. Len(patch) + 1
    BY <2>1, <1>5
  <2>3. QED
    BY <1>4, <1>5, <1>6, <2>2 DEF Typed
<1>8. MovingInv
  BY <1>5 DEF MovingInv
<1>9. ShownInv
  BY <1>5 DEF ShownInv
<1>10. ProgressInv
  BY <1>5 DEF ProgressInv, FirstRun
<1>11. MoveLosesNothing
  BY <1>5 DEF MoveLosesNothing
<1>12. TextInv
  BY <1>1, <1>3 DEF TextInv, Places
<1>13. QED
  BY <1>7, <1>8, <1>9, <1>10, <1>11, <1>12 DEF IInv

\* Types.
LEMMA TypedStep ==
  ASSUME Typed, MovingInv, [Next]_vars
  PROVE  Typed'
<1>1. CASE Handle
  BY <1>1 DEF Typed, Parsed, Places, Handle, Assessed
<1>2. CASE Answer
  BY <1>2 DEF Typed, Parsed, Places, Answer
<1>3. CASE Begin
  BY <1>3 DEF Typed, Parsed, Places, Begin
<1>4. CASE UNCHANGED call
  BY <1>4 DEF Typed, Parsed, Places, call
<1>5. CASE Writes
  <2>1. UNCHANGED <<patch, edits, phase, attempt>>
    BY <1>5 DEF Writes, AddFile, DeleteFile, UpdateFile, RemoveOriginal, Did
  <2>2. disk' = [p \in Paths |-> disk'[p]]
    BY <1>5 DEF Writes, AddFile, DeleteFile, UpdateFile, RemoveOriginal, Did, Typed
  <2>3. next <= Len(patch)
    BY <1>5 DEF Writes, AddFile, DeleteFile, UpdateFile, RemoveOriginal, AtHunk, Updates, MovingInv
  <2>4. moving' \in BOOLEAN
    BY <1>5 DEF Writes, AddFile, DeleteFile, UpdateFile, RemoveOriginal, Typed
  <2>5. next' = next + 1 \/ next' = next
    BY <1>5 DEF Writes, AddFile, DeleteFile, UpdateFile, RemoveOriginal
  <2>6. next' \in 1 .. Len(patch) + 1
    BY <2>3, <2>5 DEF Typed, Parsed
  <2>7. QED
    BY <2>1, <2>2, <2>4, <2>6 DEF Typed, Parsed, Places
<1>6. CASE Denial
  <2>1. Running
    BY <1>6 DEF Denial, CannotWrite, CannotRemove, CannotUpdate, Updates, AtHunk
  <2>2. attempt' \in Nat /\ attempt' # 0
    BY <1>6, <2>1 DEF Denial, Typed, Running
  <2>3. next' \in 1 .. Len(patch) + 1
    BY <1>6 DEF Denial, Typed, Parsed
  <2>4. QED
    BY <1>6, <2>2, <2>3 DEF Denial, Typed, Parsed, Places
<1>7. CASE Finish
  BY <1>7 DEF Typed, Parsed, Places, Finish
<1>8. CASE Edit
  BY <1>8 DEF Typed, Parsed, Places, Edit
<1>9. QED
  BY <1>1, <1>2, <1>3, <1>4, <1>5, <1>6, <1>7, <1>8
     DEF Next, Writes, vars, Reuse, AnswerRetry, Failure

\* The text of a file.
LEMMA TextType ==
  ASSUME TextInv, NEW p \in Paths
  PROVE  Text(p) \in Seq(Lines)
<1>1. disk[p] \in Seq(Seq(Lines)) /\ (disk[p] # Missing => 1 \in 1..Len(disk[p]))
  BY DEF TextInv, IsFile, Missing
<1>2. QED
  BY <1>1 DEF Text

LEMMA LineType ==
  ASSUME NEW text \in Texts, NEW look \in DOMAIN Looks
  PROVE  Line(text, look) \in Lines
BY DEF Line, Lines

LEMMA FileType ==
  ASSUME NEW lines \in Seq(Lines)
  PROVE  IsFile(File(Terminated(lines)))
<1>1. Blank \in Lines
  <2>1. "plain" \in DOMAIN Looks
    BY DEF Looks
  <2>2. QED
    BY Zenon, <2>1, TextsAssumption, LineType DEF Blank
<1>2. Terminated(lines) \in Seq(Lines)
  BY <1>1, AppendProperties DEF Terminated
<1>3. QED
  BY <1>2 DEF IsFile, File

\* What is written is lines with a newline each; a blank last one is no line.
LEMMA ContentIs ==
  ASSUME NEW lines \in Seq(Lines)
  PROVE  ContentOf(lines) = Terminated(DropBlank(lines))
<1>1. CASE EndsBlank(lines)
  <2> DEFINE n == Len(lines)
             front == SubSeq(lines, 1, n - 1)
  <2>1. n \in Nat \ {0} /\ lines[n] = Blank
    BY <1>1 DEF EndsBlank, Last
  <2>2. DropBlank(lines) = front /\ ContentOf(lines) = lines
    BY <1>1 DEF DropBlank, Front, ContentOf
  <2>3. lines = Append(front, lines[n])
    BY <2>1
  <2> QED
    BY ONLY Zenon, <2>1, <2>2, <2>3 DEF Terminated
<1>2. CASE ~EndsBlank(lines)
  BY <1>2 DEF DropBlank, ContentOf, Terminated
<1>3. QED
  BY <1>1, <1>2

LEMMA DerivedType ==
  ASSUME NEW content \in Seq(Lines), NEW chunks \in Seq(UpdateFileChunk), Derived(content, chunks).ok
  PROVE  IsFile(File(Derived(content, chunks).content))
<1> DEFINE lines == LinesOf(content)
           plan == ComputeReplacements(lines, chunks)
<1>1. lines \in Seq(Lines)
  BY DropBlankType DEF LinesOf
<1>2. plan.ok /\ Derived(content, chunks).content = ContentOf(ApplyReplacements(lines, plan.replacements))
  BY DEF Derived
<1> HIDE DEF lines
<1>3. ApplyReplacements(lines, plan.replacements) \in Seq(Lines)
  BY <1>1, <1>2, ChunksInPlace
<1> HIDE DEF plan
<1> DEFINE edited == ApplyReplacements(lines, plan.replacements)
<1>4. DropBlank(edited) \in Seq(Lines) /\ Derived(content, chunks).content = Terminated(DropBlank(edited))
  BY <1>2, <1>3, ContentIs, DropBlankType
<1> HIDE DEF edited
<1>5. QED
  BY <1>4, FileType

\* Whatever is written is made of lines.
LEMMA TextStep ==
  ASSUME Typed, TextInv, MovingInv, [Next]_vars
  PROVE  TextInv'
<1>1. CASE UNCHANGED <<disk, patch>>
  BY <1>1 DEF TextInv, Places
<1>2. ASSUME UNCHANGED patch, NEW t, NEW d, IsFile(d), disk' = [disk EXCEPT ![t] = d]
      PROVE  TextInv'
  <2>1. ASSUME NEW p \in Paths PROVE IsFile(disk'[p])
    <3>1. disk'[p] = d \/ disk'[p] = disk[p]
      BY <1>2 DEF Typed
    <3>2. QED
      BY <3>1, <1>2 DEF TextInv
  <2>2. QED
    BY <2>1, <1>2 DEF TextInv, Places
<1>3. IsFile(Missing)
  BY DEF IsFile, Missing
<1>4. AtHunk("add") \/ AtHunk("update") => next \in Places /\ patch[next].path \in Paths
  <2>1. AtHunk("add") \/ AtHunk("update") => next \in Places
    BY DEF AtHunk, Typed, Parsed, Places
  <2>2. QED
    BY <2>1 DEF Typed, Parsed
<1>5. CASE AddFile
  <2>1. IsFile(File(Terminated(Hunk.lines)))
    BY <1>4, <1>5, FileType DEF AddFile, AtHunk, Hunk, TextInv
  <2>2. UNCHANGED patch /\ disk' = [disk EXCEPT ![Hunk.path] = File(Terminated(Hunk.lines))]
    BY <1>5 DEF AddFile, Did
  <2>3. QED
    BY <1>2, <2>1, <2>2
<1>6. CASE UpdateFile
  <2> DEFINE derived == Derived(Text(Hunk.path), Hunk.chunks)
  <2>1. Text(Hunk.path) \in Seq(Lines) /\ Hunk.chunks \in Seq(UpdateFileChunk) /\ derived.ok
    BY <1>4, <1>6, TextType DEF UpdateFile, Updates, AtHunk, Hunk, TextInv
  <2>2. IsFile(File(derived.content))
    BY <2>1, DerivedType
  <2>3. UNCHANGED patch /\ disk' = [disk EXCEPT ![Target] = File(derived.content)]
    BY <1>6 DEF UpdateFile, Did
  <2> HIDE DEF derived
  <2>4. QED
    BY <1>2, <2>2, <2>3
<1>7. CASE DeleteFile \/ RemoveOriginal
  <2>1. UNCHANGED patch /\ disk' = [disk EXCEPT ![Hunk.path] = Missing]
    BY <1>7 DEF DeleteFile, RemoveOriginal, Did
  <2>2. QED
    BY <1>2, <1>3, <2>1
<1>8. CASE Edit
  <2>1. PICK p \in Paths, c \in EditedTo : disk' = [disk EXCEPT ![p] = c]
    BY <1>8 DEF Edit
  <2>2. UNCHANGED patch /\ IsFile(c)
    BY <1>8, EditedToAssumption DEF Edit
  <2>3. QED
    BY <1>2, <2>1, <2>2
<1>9. QED
  BY <1>1, <1>5, <1>6, <1>7, <1>8
     DEF Next, vars, call, Handle, Answer, Begin, Reuse, AnswerRetry, Denial, Failure, Finish

\* What a write leaves alone.
LEMMA WriteOf ==
  ASSUME Typed, MovingInv, Writes
  PROVE  /\ UNCHANGED <<patch, edits, editLimit, phase, changes, explicit, begun, attempt, orchestrator>>
         /\ Running /\ next \in Places
         /\ \E p, content : /\ disk' = [disk EXCEPT ![p] = content]
                            /\ p = patch[next].path \/ (Moves(next) /\ p = patch[next].dest)
<1>1. UNCHANGED <<patch, edits, editLimit, phase, changes, explicit, begun, attempt, orchestrator>>
  BY DEF Writes, AddFile, DeleteFile, UpdateFile, RemoveOriginal, Did
<1>2. Running
  BY DEF Writes, AddFile, DeleteFile, UpdateFile, RemoveOriginal, AtHunk, Updates
<1>3. next \in Places
  <2>1. next <= Len(patch)
    BY DEF Writes, AddFile, DeleteFile, UpdateFile, RemoveOriginal, AtHunk, Updates, MovingInv
  <2>2. QED
    BY <2>1 DEF Typed, Parsed, Places
<1>4. \E p, content : /\ disk' = [disk EXCEPT ![p] = content]
                      /\ p = patch[next].path \/ (Moves(next) /\ p = patch[next].dest)
  BY DEF Writes, AddFile, DeleteFile, UpdateFile, RemoveOriginal, Did, Hunk, Target, Moves
<1>5. QED
  BY <1>1, <1>2, <1>3, <1>4

\* A move half made is at its hunk.
LEMMA MovingStep ==
  ASSUME Typed, MovingInv, [Next]_vars
  PROVE  MovingInv'
<1>1. CASE Handle
  BY <1>1 DEF MovingInv, Waiting, Handle, Assessed, Moves, Places
<1>2. CASE Answer
  BY <1>2 DEF MovingInv, Waiting, Answer, Moves
<1>3. CASE Begin
  BY <1>3 DEF MovingInv, Waiting, Begin, Moves
<1>4. CASE UNCHANGED call
  BY <1>4 DEF MovingInv, Waiting, call, Moves
<1>5. CASE AddFile \/ DeleteFile
  BY <1>5 DEF MovingInv, Waiting, AddFile, DeleteFile, Did, AtHunk, Running, Hunk, Moves
<1>6. CASE UpdateFile
  <2>1. phase = "run" /\ phase' = phase /\ patch' = patch /\ edits' = edits /\ next <= Len(patch)
    BY <1>6 DEF UpdateFile, Updates, AtHunk, Running, Did
  <2>2. next \in Places
    BY <2>1 DEF Typed, Parsed, Places
  <2>3. moving' => Moves(next) /\ next' = next
    BY <1>6 DEF UpdateFile, Updates, AtHunk, Hunk, Moves
  <2>4. moving' => disk'[patch[next].dest] # Missing
    <3>1. CASE Moves(next)
      <4>1. patch[next].dest \in Paths
        BY <2>2, <3>1 DEF Typed, Parsed, Moves
      <4>2. Target = patch[next].dest
        BY <3>1 DEF Target, Hunk, Moves
      <4>3. disk'[patch[next].dest] = File(Derived(Text(Hunk.path), Hunk.chunks).content)
        BY <1>6, <4>1, <4>2 DEF UpdateFile, Did, Typed
      <4>4. QED
        BY <4>3, FileIsThere
    <3>2. QED
      BY <3>1, <2>3
  <2>5. QED
    BY <2>1, <2>3, <2>4 DEF MovingInv, Waiting, Moves
<1>7. CASE RemoveOriginal
  BY <1>7 DEF MovingInv, Waiting, RemoveOriginal, Running, Did
<1>8. CASE Denial
  BY <1>8 DEF MovingInv, Waiting, Denial, CannotWrite, CannotRemove, CannotUpdate, Updates, AtHunk, Running
<1>9. CASE Finish
  BY <1>9 DEF MovingInv, Waiting, Finish, Moves
<1>10. CASE Edit
  <2>1. edits' # 0
    BY <1>10 DEF Edit, Typed
  <2>2. QED
    BY <1>10, <2>1 DEF MovingInv, Waiting, Edit, Moves
<1>11. QED
  BY <1>1, <1>2, <1>3, <1>4, <1>5, <1>6, <1>7, <1>8, <1>9, <1>10
     DEF Next, vars, Reuse, AnswerRetry, Failure

\* The changes are shown before anything is written.
LEMMA ShownStep ==
  ASSUME Typed, MovingInv, ShownInv, [Next]_vars
  PROVE  ShownInv'
<1>1. CASE Handle
  <2>1. UNCHANGED <<disk, patch, edits, begun>> /\ phase = "called"
    BY <1>1 DEF Handle
  <2> SUFFICES ASSUME phase' # "failed", Untouched'
               PROVE  /\ DOMAIN changes' = {patch[i].path : i \in Places}
                      /\ \A i \in Places : ChangeIs(i, changes[patch[i].path])'
    BY <2>1 DEF ShownInv, Places
  <2>2. Untouched
    BY <2>1 DEF Untouched, NamedOnce
  <2>3. Apart
    BY <2>2, NamedApart DEF Typed, Untouched
  <2>4. changes' = Shown
    BY <1>1 DEF Handle
  <2>5. disk = begun
    BY <2>1, <2>2 DEF MovingInv, Waiting, Untouched
  <2>6. ASSUME NEW i \in Places
        PROVE  ChangeIs(i, changes[patch[i].path])'
    <3>1. changes'[patch[i].path] = Verified(patch[i])
      BY <2>3, <2>4, ShownOf DEF Typed
    <3>2. patch[i].kind \in {"add", "delete", "update"}
      BY DEF Typed, Parsed, Kinds
    <3>3. ChangeIs(i, Verified(patch[i]))
      BY <3>2, <2>5 DEF ChangeIs, Verified, NewText, TextIn, Text
    <3>4. QED
      BY <3>1, <3>3, <2>1 DEF ChangeIs, NewText, TextIn
  <2>7. QED
    BY <2>3, <2>4, <2>6, ShownOf DEF Typed
<1>2. CASE Answer
  BY <1>2 DEF ShownInv, Answer, Untouched, NamedOnce, Places, ChangeIs, NewText, TextIn
<1>3. CASE Begin
  <2>1. edits = 0 => begun' = begun
    BY <1>3 DEF Begin, MovingInv, Waiting
  <2>2. QED
    BY <1>3, <2>1 DEF ShownInv, Begin, Untouched, NamedOnce, Places, ChangeIs, NewText, TextIn
<1>4. CASE UNCHANGED call
  BY <1>4 DEF ShownInv, call, Untouched, NamedOnce, Places, ChangeIs, NewText, TextIn
<1>5. CASE Writes
  BY <1>5, WriteOf DEF ShownInv, Untouched, NamedOnce, Places, ChangeIs, NewText, TextIn
<1>6. CASE Denial
  BY <1>6 DEF ShownInv, Denial, Untouched, NamedOnce, Places, ChangeIs, NewText, TextIn
<1>7. CASE Finish
  BY <1>7 DEF ShownInv, Finish, Untouched, NamedOnce, Places, ChangeIs, NewText, TextIn
<1>8. CASE Edit
  <2>1. edits' # 0
    BY <1>8 DEF Edit, Typed
  <2>2. QED
    BY <2>1 DEF ShownInv, Untouched
<1>9. QED
  BY <1>1, <1>2, <1>3, <1>4, <1>5, <1>6, <1>7, <1>8
     DEF Next, Writes, vars, Reuse, AnswerRetry, Failure

\* A write to a place of the hunk the process is at disturbs no other hunk's.
LEMMA OthersStay ==
  ASSUME Typed, Apart, next \in Places, patch' = patch, begun' = begun,
         NEW t, NEW content,
         t = patch[next].path \/ (Moves(next) /\ t = patch[next].dest),
         disk' = [disk EXCEPT ![t] = content]
  PROVE  /\ disk'[t] = content /\ \A q \in Paths : q # t => disk'[q] = disk[q]
         /\ \A i \in Places : i # next =>
              /\ disk'[patch[i].path] = disk[patch[i].path]
              /\ Moves(i) => disk'[patch[i].dest] = disk[patch[i].dest]
              /\ Done(i) => Done(i)'
         /\ \A q \in Paths : (\A i \in Places : ~Names(i, q)) => disk'[q] = disk[q]
<1>1. t \in Paths
  BY DEF Typed, Parsed, Moves
<1>2. disk'[t] = content /\ \A q \in Paths : q # t => disk'[q] = disk[q]
  BY <1>1 DEF Typed
<1>3. ASSUME NEW i \in Places, i # next
      PROVE  /\ disk'[patch[i].path] = disk[patch[i].path]
             /\ Moves(i) => disk'[patch[i].dest] = disk[patch[i].dest]
  <2>1. patch[i].path # t /\ (Moves(i) => patch[i].dest # t)
    BY <1>3 DEF Apart
  <2>2. patch[i].path \in Paths /\ (Moves(i) => patch[i].dest \in Paths)
    BY DEF Typed, Parsed, Moves
  <2>3. QED
    BY <1>2, <2>1, <2>2
<1>4. ASSUME NEW i \in Places, i # next, Done(i)
      PROVE  Done(i)'
  BY <1>3, <1>4 DEF Done, Moves, NewText, TextIn
<1>5. ASSUME NEW q \in Paths, \A i \in Places : ~Names(i, q)
      PROVE  disk'[q] = disk[q]
  BY <1>2, <1>5 DEF Names
<1>6. QED
  BY <1>2, <1>3, <1>4, <1>5

\* The hunk the process is at is done, and it goes on to the next.
LEMMA OneMoreDone ==
  ASSUME Typed, Progress, next \in Places, patch' = patch, begun' = begun,
         next' = next + 1, ~moving',
         \A i \in Places : i # next =>
           /\ disk'[patch[i].path] = disk[patch[i].path]
           /\ Done(i) => Done(i)',
         \A q \in Paths : (\A i \in Places : ~Names(i, q)) => disk'[q] = disk[q],
         \A i \in Places : i = next => Done(i)'
  PROVE  Progress'
<1>1. next \in Int
  BY DEF Typed
<1>2. ASSUME NEW i \in Places
      PROVE  /\ i < next + 1 => Done(i)'
             /\ i >= next + 1 => disk'[patch[i].path] = begun[patch[i].path]
  <2>1. CASE i < next
    BY <1>1, <2>1 DEF Progress, Places
  <2>2. CASE i = next
    BY <1>1, <2>2 DEF Places
  <2>3. CASE i > next
    BY <1>1, <2>3 DEF Progress, Places
  <2>4. QED
    BY <1>1, <2>1, <2>2, <2>3 DEF Places
<1>3. \A q \in Paths : (\A i \in Places : ~Names(i, q)) => disk'[q] = begun[q]
  BY DEF Progress
<1>4. QED
  BY <1>2, <1>3 DEF Progress, Places, Names, Moves

LEMMA AddProgress ==
  ASSUME Typed, MovingInv, Progress, Apart, AddFile
  PROVE  Progress'
<1> DEFINE p == patch[next].path
<1>1. /\ patch' = patch /\ begun' = begun /\ moving' = moving /\ next' = next + 1
      /\ patch[next].kind = "add" /\ next <= Len(patch)
      /\ disk' = [disk EXCEPT ![p] = File(Terminated(patch[next].lines))]
  BY DEF AddFile, Did, AtHunk, Hunk
<1>2. next \in Places
  BY <1>1 DEF Typed, Parsed, Places
<1>3. ~moving'
  BY <1>1 DEF MovingInv, Moves
<1>4. /\ disk'[p] = File(Terminated(patch[next].lines))
      /\ \A i \in Places : i # next =>
           /\ disk'[patch[i].path] = disk[patch[i].path]
           /\ Done(i) => Done(i)'
      /\ \A q \in Paths : (\A i \in Places : ~Names(i, q)) => disk'[q] = disk[q]
  BY <1>1, <1>2, OthersStay
<1>5. \A i \in Places : i = next => Done(i)'
  BY <1>1, <1>4 DEF Done, Moves
<1>6. QED
  BY <1>1, <1>2, <1>3, <1>4, <1>5, OneMoreDone

LEMMA DeleteProgress ==
  ASSUME Typed, MovingInv, Progress, Apart, DeleteFile
  PROVE  Progress'
<1> DEFINE p == patch[next].path
<1>1. /\ patch' = patch /\ begun' = begun /\ moving' = moving /\ next' = next + 1
      /\ patch[next].kind = "delete" /\ next <= Len(patch)
      /\ disk' = [disk EXCEPT ![p] = Missing]
  BY DEF DeleteFile, Did, AtHunk, Hunk
<1>2. next \in Places
  BY <1>1 DEF Typed, Parsed, Places
<1>3. ~moving'
  BY <1>1 DEF MovingInv, Moves
<1>4. /\ disk'[p] = Missing
      /\ \A i \in Places : i # next =>
           /\ disk'[patch[i].path] = disk[patch[i].path]
           /\ Done(i) => Done(i)'
      /\ \A q \in Paths : (\A i \in Places : ~Names(i, q)) => disk'[q] = disk[q]
  BY <1>1, <1>2, OthersStay
<1>5. \A i \in Places : i = next => Done(i)'
  BY <1>1, <1>4 DEF Done, Moves
<1>6. QED
  BY <1>1, <1>2, <1>3, <1>4, <1>5, OneMoreDone

\* The text an update reads is the one its file had as the call began.
LEMMA UpdateProgress ==
  ASSUME Typed, Progress, Apart, UpdateFile
  PROVE  Progress'
<1>1. /\ patch' = patch /\ begun' = begun /\ moving' = Moves(next)
      /\ next' = IF Moves(next) THEN next ELSE next + 1
      /\ patch[next].kind = "update" /\ next <= Len(patch)
  BY DEF UpdateFile, Updates, Did, AtHunk, Hunk, Moves
<1>2. next \in Places
  BY <1>1 DEF Typed, Parsed, Places
<1>3. disk' = [disk EXCEPT ![Target] = NewText(begun, next)]
  <2>1. disk[patch[next].path] = begun[patch[next].path]
    <3>1. next \in Int /\ next >= next
      BY DEF Typed
    <3>2. QED
      BY <1>2, <3>1 DEF Progress
  <2>2. QED
    BY <2>1 DEF UpdateFile, Did, Hunk, NewText, TextIn, Text
<1>4. Target = IF Moves(next) THEN patch[next].dest ELSE patch[next].path
  BY DEF Target, Hunk, Moves
<1> DEFINE t == Target
           content == NewText(begun, next)
<1>5. t = patch[next].path \/ (Moves(next) /\ t = patch[next].dest)
  BY <1>4
<1>6. disk' = [disk EXCEPT ![t] = content]
  BY <1>3
<1> HIDE DEF t, content
<1>7. /\ disk'[Target] = NewText(begun, next)
      /\ \A i \in Places : i # next =>
           /\ disk'[patch[i].path] = disk[patch[i].path]
           /\ Done(i) => Done(i)'
      /\ \A q \in Paths : (\A i \in Places : ~Names(i, q)) => disk'[q] = disk[q]
  <2>1. /\ disk'[t] = content
        /\ \A i \in Places : i # next =>
             /\ disk'[patch[i].path] = disk[patch[i].path]
             /\ Done(i) => Done(i)'
        /\ \A q \in Paths : (\A i \in Places : ~Names(i, q)) => disk'[q] = disk[q]
    BY <1>1, <1>2, <1>5, <1>6, OthersStay
  <2>2. QED
    BY <2>1 DEF t, content
<1>8. CASE Moves(next)
  <2>1. next' = next /\ next \in Int /\ Target = patch[next].dest
    BY <1>1, <1>4, <1>8 DEF Typed
  <2>2. disk'[patch[next].path] = disk[patch[next].path]
    <3>1. patch[next].path # Target /\ patch[next].path \in Paths
      BY <2>1, <1>2, <1>8 DEF Apart, Typed, Parsed
    <3>2. \A q \in Paths : q # t => disk'[q] = disk[q]
      BY <1>1, <1>2, <1>5, <1>6, OthersStay
    <3>3. QED
      BY <3>1, <3>2 DEF t
  <2>3. ASSUME NEW i \in Places
        PROVE  /\ i < next => Done(i)'
               /\ i >= next => disk'[patch[i].path] = begun[patch[i].path]
    BY <2>1, <2>2, <1>7 DEF Progress, Places
  <2>4. disk'[patch[next].dest] = NewText(begun, next)'
    BY <2>1, <1>1, <1>7 DEF NewText, TextIn
  <2>5. \A q \in Paths : (\A i \in Places : ~Names(i, q)) => disk'[q] = begun[q]
    BY <1>7 DEF Progress
  <2>6. QED
    BY <2>1, <2>3, <2>4, <2>5, <1>1 DEF Progress, Places, Names, Moves
<1>9. CASE ~Moves(next)
  <2>1. \A i \in Places : i = next => Done(i)'
    BY <1>1, <1>4, <1>7, <1>9 DEF Done, Moves, NewText, TextIn
  <2>2. QED
    BY <1>1, <1>2, <1>7, <1>9, <2>1, OneMoreDone
<1>10. QED
  BY <1>8, <1>9

LEMMA RemoveProgress ==
  ASSUME Typed, MovingInv, Progress, Apart, RemoveOriginal
  PROVE  Progress'
<1> DEFINE p == patch[next].path
<1>1. /\ patch' = patch /\ begun' = begun /\ moving' = FALSE /\ next' = next + 1 /\ moving
      /\ disk' = [disk EXCEPT ![p] = Missing]
  BY DEF RemoveOriginal, Did, Hunk
<1>2. next \in Places /\ Moves(next)
  BY <1>1 DEF MovingInv, Typed, Parsed, Places
<1>3. /\ disk'[p] = Missing
      /\ \A q \in Paths : q # p => disk'[q] = disk[q]
      /\ \A i \in Places : i # next =>
           /\ disk'[patch[i].path] = disk[patch[i].path]
           /\ Done(i) => Done(i)'
      /\ \A q \in Paths : (\A i \in Places : ~Names(i, q)) => disk'[q] = disk[q]
  BY <1>1, <1>2, OthersStay
<1>4. disk'[patch[next].dest] = NewText(begun, next)
  <2>1. patch[next].dest # p /\ patch[next].dest \in Paths
    BY <1>2 DEF Apart, Typed, Parsed, Moves
  <2>2. disk[patch[next].dest] = NewText(begun, next)
    BY <1>1 DEF Progress
  <2>3. QED
    BY <1>3, <2>1, <2>2
<1>5. \A i \in Places : i = next => Done(i)'
  BY <1>1, <1>2, <1>3, <1>4 DEF Done, Moves, NewText, TextIn
<1>6. QED
  BY <1>1, <1>2, <1>3, <1>5, OneMoreDone

LEMMA ProgressStays ==
  ASSUME Progress, UNCHANGED <<patch, begun, disk, next, moving>>
  PROVE  Progress'
BY DEF Progress, Done, Names, Moves, Places, NewText, TextIn

LEMMA ProgressStep ==
  ASSUME Typed, MovingInv, ProgressInv, [Next]_vars
  PROVE  ProgressInv'
<1>1. CASE Handle
  BY <1>1 DEF ProgressInv, FirstRun, Handle, Assessed
<1>2. CASE Answer
  BY <1>2 DEF ProgressInv, FirstRun, Answer
<1>3. CASE Begin
  <2>1. next' = 1 /\ begun' = disk /\ disk' = disk /\ patch' = patch /\ phase' = "run"
        /\ ~moving'
    BY <1>3 DEF Begin, MovingInv, Waiting
  <2>2. \A i \in Places : i \in Nat /\ i >= 1 /\ ~(i < 1)
    BY DEF Places
  <2>3. Progress'
    BY <2>1, <2>2 DEF Progress, Places, Names, Moves
  <2>4. QED
    BY <2>1, <2>3 DEF ProgressInv
<1>4. CASE UNCHANGED <<call, stage>> \/ Reuse \/ AnswerRetry \/ Failure
  <2>1. UNCHANGED <<patch, begun, disk, next, moving, edits, phase, attempt>>
    BY <1>4 DEF call, Reuse, AnswerRetry, Failure
  <2>2. FirstRun' => FirstRun
    BY <1>4, <2>1 DEF FirstRun, Reuse, AnswerRetry, Failure, Approval, Fails
  <2>3. QED
    BY <2>1, <2>2, ProgressStays DEF ProgressInv, Untouched, NamedOnce
<1>5. CASE Writes
  <2>1. UNCHANGED <<patch, phase, edits, attempt, stage>> /\ phase = "run"
    BY <1>5, WriteOf DEF orchestrator, Running
  <2>2. ASSUME FirstRun', Untouched'
        PROVE  Progress'
    <3>1. FirstRun /\ Untouched
      BY <2>1, <2>2 DEF FirstRun, Untouched, NamedOnce
    <3>2. Apart
      BY <3>1, NamedApart DEF Untouched, Typed
    <3>3. QED
      BY <3>1, <3>2, <1>5, AddProgress, DeleteProgress, UpdateProgress, RemoveProgress
         DEF Writes, ProgressInv
  <2>3. QED
    BY <2>1, <2>2 DEF ProgressInv
<1>6. CASE Denial
  <2>1. phase = "run" /\ phase' = phase
    BY <1>6 DEF Denial, CannotWrite, CannotRemove, CannotUpdate, Updates, AtHunk, Running
  <2>2. FirstRun' => FALSE
    BY <1>6, <2>1 DEF Denial, FirstRun, Typed
  <2>3. QED
    BY <2>1, <2>2 DEF ProgressInv
<1>7. CASE Finish
  <2>1. UNCHANGED <<patch, begun, disk, next, moving, edits, attempt>> /\ phase = "run"
    BY <1>7 DEF Finish
  <2>2. phase' = "applied" => stage # "refused" /\ next > Len(patch)
    BY <1>7 DEF Finish
  <2>3. phase' = "applied" => next' = Len(patch') + 1
    BY <2>1, <2>2 DEF Typed, Parsed
  <2>4. FirstRun' => FirstRun
    BY <1>7, <2>1, <2>2 DEF FirstRun, Finish
  <2>5. QED
    BY <2>1, <2>3, <2>4, ProgressStays DEF ProgressInv, Untouched, NamedOnce
<1>8. CASE Edit
  <2>1. edits' # 0
    BY <1>8 DEF Edit, Typed
  <2>2. QED
    BY <1>8, <2>1 DEF ProgressInv, Untouched, Edit
<1>9. QED
  BY <1>1, <1>2, <1>3, <1>4, <1>5, <1>6, <1>7, <1>8 DEF Next, Writes, vars, orchestrator

\* Nothing removes one place of a move but the move itself, its copy made.
LEMMA MoveStep ==
  ASSUME Typed, MovingInv, MoveLosesNothing, [Next]_vars
  PROVE  MoveLosesNothing'
<1>1. CASE UNCHANGED <<patch, disk, edits, begun>>
  BY <1>1 DEF MoveLosesNothing, Untouched, NamedOnce
<1>2. CASE Begin
  BY <1>2 DEF Begin, MoveLosesNothing, Untouched, NamedOnce
<1>3. CASE Writes
  <2>1. UNCHANGED <<patch, edits, begun>> /\ next \in Places
    BY <1>3, WriteOf
  <2> SUFFICES ASSUME Untouched, NEW i \in Places, Moves(i), begun[patch[i].path] # Missing
               PROVE  disk'[patch[i].path] # Missing \/ disk'[patch[i].dest] # Missing
    BY <2>1 DEF MoveLosesNothing, Untouched, NamedOnce, Moves, Typed, Parsed
  <2>2. Apart
    BY NamedApart DEF Untouched, Typed
  <2>3. patch[i].path \in Paths /\ patch[i].dest \in Paths
    BY DEF Typed, Parsed, Moves
  <2>4. disk[patch[i].path] # Missing \/ disk[patch[i].dest] # Missing
    BY DEF MoveLosesNothing, Moves, Typed, Parsed
  <2>5. CASE AddFile \/ UpdateFile
    <3>1. PICK t, content : disk' = [disk EXCEPT ![t] = File(content)]
      BY <2>5 DEF AddFile, UpdateFile, Did
    <3>2. \A q \in Paths : disk'[q] = File(content) \/ disk'[q] = disk[q]
      BY <3>1 DEF Typed
    <3>3. QED
      BY <2>3, <2>4, <3>2, FileIsThere
  <2>6. CASE DeleteFile
    <3>1. disk' = [disk EXCEPT ![patch[next].path] = Missing] /\ patch[next].kind = "delete"
      BY <2>6 DEF DeleteFile, Did, AtHunk, Hunk
    <3>2. next # i
      BY <3>1 DEF Moves
    <3>3. patch[next].path # patch[i].path /\ patch[next].path # patch[i].dest
      BY <2>1, <2>2, <3>2 DEF Apart
    <3>4. QED
      BY <2>3, <2>4, <3>1, <3>3 DEF Typed
  <2>7. CASE RemoveOriginal
    <3>1. disk' = [disk EXCEPT ![patch[next].path] = Missing] /\ moving
      BY <2>7 DEF RemoveOriginal, Did, Hunk
    <3>2. patch[next].path # patch[i].dest
      BY <2>1, <2>2 DEF Apart
    <3>3. disk[patch[next].dest] # Missing
      BY <3>1 DEF MovingInv, Untouched
    <3>4. next # i => patch[next].path # patch[i].path
      BY <2>1, <2>2 DEF Apart
    <3>5. disk'[patch[i].dest] = disk[patch[i].dest]
      BY <2>3, <3>1, <3>2 DEF Typed
    <3>6. next # i => disk'[patch[i].path] = disk[patch[i].path]
      BY <2>3, <3>1, <3>4 DEF Typed
    <3>7. QED
      BY <2>4, <3>3, <3>5, <3>6
  <2>8. QED
    BY <1>3, <2>5, <2>6, <2>7 DEF Writes
<1>4. CASE Edit
  <2>1. edits' # 0
    BY <1>4 DEF Edit, Typed
  <2>2. QED
    BY <2>1 DEF MoveLosesNothing, Untouched
<1>5. QED
  BY <1>1, <1>2, <1>3, <1>4
     DEF Next, Writes, vars, call, Handle, Answer, Reuse, AnswerRetry, Denial, Failure, Finish

LEMMA StepHolds ==
  ASSUME IInv, [Next]_vars
  PROVE  IInv'
BY TypedStep, TextStep, MovingStep, ShownStep, ProgressStep, MoveStep DEF IInv

\* What is done hunk by hunk is what the changes promise path by path.
LEMMA DoneIsPromised ==
  ASSUME IInv, phase = "applied", attempt = 1, Untouched
  PROVE  \A p \in Paths : disk[p] = Promised(p)
<1>1. Progress /\ next = Len(patch) + 1 /\ Parsed /\ Apart
  BY NamedApart DEF IInv, ProgressInv, FirstRun, Typed, Untouched
<1>2. \A i \in Places : Done(i)
  <2>1. \A i \in Places : i < Len(patch) + 1
    BY <1>1 DEF Parsed, Places
  <2>2. QED
    BY <1>1, <2>1 DEF Progress
<1>3. /\ DOMAIN changes = {patch[i].path : i \in Places}
      /\ \A i \in Places : ChangeIs(i, changes[patch[i].path])
  BY DEF IInv, ShownInv
<1>4. SUFFICES ASSUME NEW p \in Paths
               PROVE  disk[p] = Promised(p)
  OBVIOUS
<1> DEFINE from == {q \in DOMAIN changes : changes[q].dest = p}
<1>5. p # NoPath
  BY PathsAssumption
<1>6. \A i \in Places : patch[i].path \in from <=> Moves(i) /\ patch[i].dest = p
  BY <1>3, <1>5 DEF ChangeIs, Moves
<1>7. CASE from # {}
  <2> DEFINE q == CHOOSE r \in from : TRUE
  <2>1. q \in from
    BY <1>7
  <2>2. PICK i \in Places : patch[i].path = q
    BY <2>1, <1>3
  <2>3. Moves(i) /\ patch[i].dest = p
    BY <1>6, <2>1, <2>2
  <2>4. disk[p] = NewText(begun, i)
    BY <1>2, <2>3 DEF Done
  <2>5. changes[q].content = NewText(begun, i)
    BY <1>3, <2>2, <2>3 DEF ChangeIs, Moves
  <2>6. Promised(p) = changes[q].content
    BY <1>7 DEF Promised
  <2>7. QED
    BY <2>4, <2>5, <2>6
<1>8. CASE from = {} /\ p \notin DOMAIN changes
  <2>1. \A i \in Places : ~Names(i, p)
    BY <1>3, <1>6, <1>8 DEF Names
  <2>2. disk[p] = begun[p]
    BY <1>1, <2>1 DEF Progress
  <2>3. QED
    BY <1>8, <2>2 DEF Promised
<1>9. CASE from = {} /\ p \in DOMAIN changes
  <2>1. PICK i \in Places : patch[i].path = p
    BY <1>3, <1>9
  <2>2. ChangeIs(i, changes[p]) /\ Done(i) /\ patch[i].kind \in Kinds
    BY <1>1, <1>2, <1>3, <2>1 DEF Parsed
  <2>3. Promised(p) = IF changes[p].kind = "delete" \/ changes[p].dest # NoPath
                      THEN Missing ELSE changes[p].content
    BY <1>9 DEF Promised
  <2>4. CASE patch[i].kind = "add"
    BY <2>1, <2>2, <2>3, <2>4 DEF ChangeIs, Done
  <2>5. CASE patch[i].kind = "delete"
    BY <2>1, <2>2, <2>3, <2>5 DEF ChangeIs, Done
  <2>6. CASE patch[i].kind = "update"
    BY <2>1, <2>2, <2>3, <2>6 DEF ChangeIs, Done, Moves
  <2>7. QED
    BY <2>2, <2>4, <2>5, <2>6 DEF Kinds
<1>10. QED
  BY <1>7, <1>8, <1>9

LEMMA HunkInPlace ==
  ASSUME Parsed, TextInv
  PROVE  EditsInPlace
<1> SUFFICES ASSUME NEW i \in Places, patch[i].kind = "update"
             PROVE  LET text == Text(patch[i].path)
                        lines == LinesOf(text)
                        chunks == patch[i].chunks
                        plan == ComputeReplacements(lines, chunks)
                    IN plan.ok /\ (\A k \in DOMAIN chunks : ~chunks[k].eof) =>
                         /\ \A k \in DOMAIN chunks :
                              chunks[k].old # <<>> => FoundAt(lines, chunks, plan.replacements, k)
                         /\ (\A k \in DOMAIN chunks : chunks[k].old = <<>> => ~EndsBlank(lines))
                              => Derived(text, chunks).content
                                   = Terminated(DropBlank(Spliced(lines, plan.replacements)))
  BY DEF EditsInPlace, Parsed
<1> DEFINE text == Text(patch[i].path)
           lines == LinesOf(text)
           chunks == patch[i].chunks
           plan == ComputeReplacements(lines, chunks)
           edited == ApplyReplacements(lines, plan.replacements)
<1>0. Derived(text, chunks).content = ContentOf(edited)
  BY DEF Derived
<1>1. lines \in Seq(Lines)
  BY TextType, DropBlankType DEF LinesOf, Parsed
<1>2. chunks \in Seq(UpdateFileChunk) /\ DOMAIN chunks = 1..Len(chunks)
  BY DEF TextInv
<1> HIDE DEF lines, chunks
<1>3. (\A k \in DOMAIN chunks : ~chunks[k].eof) => FoundTo(lines, chunks, plan, Len(chunks))
  BY <1>1, <1>2, ComputedFound
<1>4. plan.ok /\ (\A k \in DOMAIN chunks : Plain(lines, chunks[k]))
        => edited = Spliced(lines, plan.replacements)
  BY <1>1, <1>2, ChunksInPlace
<1>7. plan.ok => edited \in Seq(Lines)
  BY <1>1, <1>2, ChunksInPlace
<1> HIDE DEF plan, edited, text
<1>5. plan.ok /\ (\A k \in DOMAIN chunks : ~chunks[k].eof) =>
        \A k \in DOMAIN chunks : chunks[k].old # <<>> => FoundAt(lines, chunks, plan.replacements, k)
  BY <1>2, <1>3 DEF FoundTo
<1>6. plan.ok /\ (\A k \in DOMAIN chunks : ~chunks[k].eof)
        /\ (\A k \in DOMAIN chunks : chunks[k].old = <<>> => ~EndsBlank(lines))
        => edited = Spliced(lines, plan.replacements)
  BY <1>4 DEF Plain
<1>8. plan.ok /\ (\A k \in DOMAIN chunks : ~chunks[k].eof)
        /\ (\A k \in DOMAIN chunks : chunks[k].old = <<>> => ~EndsBlank(lines))
        => Derived(text, chunks).content = Terminated(DropBlank(Spliced(lines, plan.replacements)))
  BY <1>0, <1>6, <1>7, ContentIs
<1>9. QED
  BY <1>5, <1>8 DEF text, lines, chunks, plan

-----------------------------------------------------------------------------
\* The inductive invariant holds: every hunk before the one the process is at is
\* done, and the files of the others are as they were as the call began.
THEOREM InductiveHolds == Spec => []IInv
<1>1. IInv /\ [Next]_vars => IInv'
  BY StepHolds
<1>2. QED
  BY InitHolds, <1>1, PTL DEF Spec

\* A patch reported as applied by its only attempt, with no path named twice and no
\* edit of somebody else, has made the changes the user was shown, and no others
\* (apply_hunks_to_files of apply-patch/src/lib.rs against the changes verified before).
THEOREM PatchAppliedAsShown == Spec => []AppliedAsShown
<1>1. IInv => AppliedAsShown
  BY DoneIsPromised DEF AppliedAsShown
<1>2. QED
  BY InductiveHolds, <1>1, PTL

\* Wherever the process is stopped, denied or run again, a file it moves is in one of
\* the two places: the copy is written before the original is removed.
THEOREM MovesLoseNothing == Spec => []MoveLosesNothing
<1>1. IInv => MoveLosesNothing
  BY DEF IInv
<1>2. QED
  BY InductiveHolds, <1>1, PTL

\* For every file and every list of chunks without end-of-file marks: what
\* compute_replacements replaces for a chunk are its old lines up to their spelling
\* (seek_sequence), behind those of the chunks before it and behind its context line;
\* and what apply_replacements makes of the sorted replacements, from the last to the
\* first, is the edit place by place: no replacement moves the place of another. The
\* content derived is the lines of that edit, but for a blank last one.
THEOREM EditsStayInPlace == Spec => []EditsInPlace
<1>1. IInv => EditsInPlace
  BY HunkInPlace DEF IInv, Typed
<1>2. QED
  BY InductiveHolds, <1>1, PTL
=============================================================================
