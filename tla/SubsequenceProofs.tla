-------------------------- MODULE SubsequenceProofs --------------------------
(* What a filter keeps, for any sequence and any choice of its elements, and   *)
(* what a loop arrives at, after any number of rounds.                         *)
EXTENDS Subsequence, Integers, TLAPS, FiniteSetTheorems, SequenceTheorems
-----------------------------------------------------------------------------
(* The place of an element among those that are kept.                         *)

LEMMA FinitePart ==
    ASSUME NEW n \in Nat, NEW I \in SUBSET (1..n)
    PROVE  IsFiniteSet(I) /\ Cardinality(I) \in Nat /\ \A i \in I : i \in Nat
<1>1. 1 \in Int /\ n \in Int
  OBVIOUS
<1>2. IsFiniteSet(1..n)
  BY <1>1, FS_Interval
<1>3. IsFiniteSet(I)
  BY <1>2, FS_Subset
<1> QED
  BY <1>3, FS_CardinalityType

LEMMA RankType ==
    ASSUME NEW n \in Nat, NEW I \in SUBSET (1..n), NEW i \in I
    PROVE  /\ IsFiniteSet(I) /\ Cardinality(I) \in Nat
           /\ Rank(I, i) \in 1..Cardinality(I)
<1>1. IsFiniteSet(I) /\ Cardinality(I) \in Nat
  BY FinitePart
<1> DEFINE U == {k \in I : k <= i}
<1>2. U \in SUBSET I /\ i \in U
  OBVIOUS
<1>3. IsFiniteSet(U) /\ Cardinality(U) <= Cardinality(I) /\ Cardinality(U) \in Nat /\ Cardinality(U) # 0
  BY <1>1, <1>2, FS_Subset, FS_CardinalityType, FS_EmptySet
<1> QED
  BY <1>1, <1>3 DEF Rank

LEMMA RankIncreases ==
    ASSUME NEW n \in Nat, NEW I \in SUBSET (1..n), NEW i \in I, NEW k \in I, i < k
    PROVE  Rank(I, i) < Rank(I, k)
<1> DEFINE U == {m \in I : m <= i}
           W == {m \in I : m <= k}
<1>0. k \in Nat /\ i \in Nat /\ \A m \in I : m \in Nat
  BY FinitePart
<1>a. \A m \in I : m <= i => m <= k
  BY <1>0
<1>b. ~(k <= i) /\ k <= k
  BY <1>0
<1>1. U \in SUBSET W /\ k \in W /\ k \notin U /\ W \in SUBSET I
  BY <1>a, <1>b
<1>2. IsFiniteSet(W) /\ IsFiniteSet(U)
  BY <1>1, RankType, FS_Subset
<1>3. Cardinality(U) <= Cardinality(W) /\ Cardinality(U) # Cardinality(W)
      /\ Cardinality(U) \in Nat /\ Cardinality(W) \in Nat
  BY <1>1, <1>2, FS_Subset, FS_CardinalityType
<1> QED
  BY <1>3 DEF Rank

\* Every place is taken.
LEMMA RankOnto ==
    ASSUME NEW n \in Nat, NEW I \in SUBSET (1..n), NEW j \in 1..Cardinality(I)
    PROVE  \E i \in I : Rank(I, i) = j
<1> DEFINE f == [i \in I |-> Rank(I, i)]
<1>0. IsFiniteSet(I) /\ Cardinality(I) \in Nat
  BY FinitePart
<1>1. f \in [I -> 1..Cardinality(I)]
  BY RankType
<1>2. ASSUME NEW i \in I, NEW k \in I, f[i] = f[k] PROVE i = k
  <2>1. i \in Nat /\ k \in Nat /\ Rank(I, i) = Rank(I, k)
    BY <1>2, FinitePart
  <2>2. Rank(I, i) \in 1..Cardinality(I)
    BY RankType
  <2>3. Rank(I, i) \in Nat
    BY <1>0, <2>2
  <2>4. ~(i < k) /\ ~(k < i)
    <3>1. ASSUME i < k PROVE FALSE
      <4>1. Rank(I, i) < Rank(I, k)
        BY <3>1, RankIncreases
      <4> QED
        BY <2>1, <2>3, <4>1
    <3>2. ASSUME k < i PROVE FALSE
      <4>1. Rank(I, k) < Rank(I, i)
        BY <3>2, RankIncreases
      <4> QED
        BY <2>1, <2>3, <4>1
    <3> QED
      BY <3>1, <3>2
  <2> QED
    BY <2>1, <2>4
<1>3. f \in Injection(I, 1..Cardinality(I))
  BY <1>1, <1>2, Zenon DEF Injection, IsInjective
<1>4. IsFiniteSet(1..Cardinality(I)) /\ Cardinality(1..Cardinality(I)) = Cardinality(I)
  BY <1>0, FS_Interval
<1>5. f \in Surjection(I, 1..Cardinality(I))
  BY <1>3, <1>4, FS_Injection
<1>6. PICK i \in I : f[i] = j
  BY <1>5 DEF Surjection
<1> QED
  BY <1>6

\* The one in the first place is the least.
LEMMA LeastIndex ==
    ASSUME NEW n \in Nat, NEW I \in SUBSET (1..n), I # {}
    PROVE  \E i \in I : \A j \in I : i <= j
<1>1. IsFiniteSet(I) /\ Cardinality(I) \in Nat /\ \A i \in I : i \in Nat
  BY FinitePart
<1>2. Cardinality(I) # 0
  BY <1>1, FS_EmptySet
<1>3. 1 \in 1..Cardinality(I)
  BY <1>1, <1>2
<1>4. PICK i \in I : Rank(I, i) = 1
  BY <1>3, RankOnto
<1>5. ASSUME NEW j \in I PROVE i <= j
  <2>1. Rank(I, j) \in 1..Cardinality(I)
    BY RankType
  <2>2. ~(j < i)
    <3>1. ASSUME j < i PROVE FALSE
      <4>1. Rank(I, j) < Rank(I, i)
        BY <3>1, RankIncreases
      <4> QED
        BY <1>1, <1>4, <2>1, <4>1
    <3> QED
      BY <3>1
  <2> QED
    BY <1>1, <2>2
<1> QED
  BY <1>5
-----------------------------------------------------------------------------
(* Counting up.                                                               *)

\* What holds of 0, and of n + 1 whenever it holds of n, holds of every number.
LEMMA EveryNumber ==
    ASSUME NEW S, 0 \in S, \A n \in Nat : n \in S => n + 1 \in S
    PROVE  \A n \in Nat : n \in S
<1> SUFFICES ASSUME NEW n \in Nat, n \notin S PROVE FALSE
  OBVIOUS
<1> DEFINE I == {k \in 1..n : k \notin S}
<1>1. n \in 1..n
  BY Z3
<1>2. I \in SUBSET (1..n) /\ I # {}
  BY <1>1
<1>3. PICK i \in I : \A j \in I : i <= j
  BY <1>2, LeastIndex
<1>4. i \in 1..n /\ i \notin S
  BY <1>3
<1>5. i - 1 \in Nat /\ (i - 1) + 1 = i
  BY <1>4
<1>6. i - 1 \in S
  <2>1. CASE i - 1 = 0
    BY <2>1
  <2>2. CASE i - 1 # 0
    <3>1. i - 1 \in 1..n /\ ~(i <= i - 1)
      BY <1>4, <2>2
    <3> QED
      BY <1>3, <3>1
  <2> QED
    BY <2>1, <2>2
<1> QED
  BY <1>4, <1>5, <1>6

\* The values that n steps give, one after another, from z on.
Iterates(g, n, V, z, F) ==
    g \in [0..n -> V] /\ g[0] = z /\ \A i \in 1..n : g[i] = F[i][g[i - 1]]

\* A value that each of n steps turns into the next one.
THEOREM Iterated ==
    ASSUME NEW n \in Nat, NEW V, NEW z \in V, NEW F, \A i \in 1..n, x \in V : F[i][x] \in V
    PROVE  \E g : Iterates(g, n, V, z, F)
<1> USE DEF Iterates
<1> DEFINE Up(m, g) == Iterates(g, m, V, z, F)
           S == {m \in Nat : m <= n => \E g : Up(m, g)}
<1>1. 0 \in S
  <2> DEFINE g == [i \in 0..0 |-> z]
  <2>1. g \in [0..0 -> V] /\ g[0] = z /\ 1..0 = {}
    OBVIOUS
  <2>2. Up(0, g)
    BY <2>1
  <2> QED
    BY <2>2
<1>2. ASSUME NEW m \in Nat, m \in S PROVE m + 1 \in S
  <2> SUFFICES ASSUME m + 1 <= n PROVE \E h : Up(m + 1, h)
    OBVIOUS
  <2>1. PICK g : Up(m, g)
    BY <1>2
  <2> DEFINE h == [i \in 0..(m + 1) |-> IF i <= m THEN g[i] ELSE F[m + 1][g[m]]]
  <2>2. m + 1 \in 1..n /\ m \in 0..m /\ g[m] \in V
    BY <2>1
  <2>3. F[m + 1][g[m]] \in V
    BY <2>2
  <2>4. h \in [0..(m + 1) -> V]
    BY <2>1, <2>3
  <2>5. h[0] = z
    BY <2>1
  <2>6. ASSUME NEW i \in 1..(m + 1) PROVE h[i] = F[i][h[i - 1]]
    <3>0. i - 1 \in 0..m /\ i - 1 <= m /\ i - 1 \in 0..(m + 1) /\ i \in 0..(m + 1)
      BY <2>6
    <3>1. h[i - 1] = g[i - 1]
      BY <3>0
    <3>2. CASE i <= m
      <4>1. i \in 1..m
        BY <3>2
      <4> QED
        BY <2>1, <3>0, <3>1, <3>2, <4>1
    <3>3. CASE ~(i <= m)
      <4>1. i = m + 1 /\ i - 1 = m
        BY <3>3
      <4>2. h[i] = F[m + 1][g[m]]
        BY <3>0, <3>3
      <4> QED
        BY <3>1, <4>1, <4>2
    <3> QED
      BY <3>2, <3>3
  <2> HIDE DEF h
  <2> QED
    BY <2>4, <2>5, <2>6
<1> HIDE DEF S
<1>3. n \in S
  BY <1>1, <1>2, EveryNumber
<1>4. \E g : Up(n, g)
  BY <1>3 DEF S
<1> QED
  BY <1>4
-----------------------------------------------------------------------------
(* What is kept.                                                              *)

\* Where the elements that are kept come from.
Origin(I) == [j \in 1..Cardinality(I) |-> CHOOSE i \in I : Rank(I, i) = j]

\* The origins are the indexes in I, in their order.
LEMMA OriginProperties ==
    ASSUME NEW n \in Nat, NEW I \in SUBSET (1..n)
    PROVE  /\ Cardinality(I) \in Nat
           /\ Origin(I) \in [1..Cardinality(I) -> I]
           /\ \A j, k \in 1..Cardinality(I) : j < k <=> Origin(I)[j] < Origin(I)[k]
           /\ \A j, k \in 1..Cardinality(I) : Origin(I)[j] = Origin(I)[k] => j = k
           /\ \A i \in I : \E j \in 1..Cardinality(I) : Origin(I)[j] = i
<1>0. IsFiniteSet(I) /\ Cardinality(I) \in Nat
  BY FinitePart
<1>1. ASSUME NEW j \in 1..Cardinality(I)
      PROVE  Origin(I)[j] \in I /\ Rank(I, Origin(I)[j]) = j
  BY RankOnto DEF Origin
<1>2. Origin(I) \in [1..Cardinality(I) -> I]
  BY <1>1 DEF Origin
<1>3. ASSUME NEW j \in 1..Cardinality(I), NEW k \in 1..Cardinality(I)
      PROVE  /\ j < k <=> Origin(I)[j] < Origin(I)[k]
             /\ Origin(I)[j] = Origin(I)[k] => j = k
  <2> DEFINE a == Origin(I)[j]
             b == Origin(I)[k]
  <2>1. a \in I /\ b \in I /\ Rank(I, a) = j /\ Rank(I, b) = k
    BY <1>1
  <2>2. a \in Nat /\ b \in Nat /\ j \in Nat /\ k \in Nat
    BY <2>1, <1>0, FinitePart
  <2> HIDE DEF a, b
  <2>3. (a < b => j < k) /\ (b < a => k < j)
    BY <2>1, <2>2, RankIncreases
  <2>4. (j < k <=> a < b) /\ (a = b => j = k)
    <3>1. a = b => j = k
      BY <2>1
    <3> QED
      BY <2>2, <2>3, <3>1
  <2> QED
    BY <2>4 DEF a, b
<1>4. ASSUME NEW i \in I PROVE \E j \in 1..Cardinality(I) : Origin(I)[j] = i
  <2> DEFINE j == Rank(I, i)
             a == Origin(I)[j]
  <2>1. j \in 1..Cardinality(I)
    BY RankType
  <2>2. a \in I /\ Rank(I, a) = j
    BY <1>1, <2>1
  <2>3. a \in Nat /\ i \in Nat /\ Rank(I, a) \in Nat /\ Rank(I, i) \in Nat
    BY <1>0, <2>1, <2>2, FinitePart
  <2> HIDE DEF a
  <2>4. ~(a < i) /\ ~(i < a)
    <3>1. ASSUME a < i PROVE FALSE
      <4>1. Rank(I, a) < Rank(I, i)
        BY <2>2, <3>1, RankIncreases
      <4> QED
        BY <2>2, <2>3, <4>1
    <3>2. ASSUME i < a PROVE FALSE
      <4>1. Rank(I, i) < Rank(I, a)
        BY <2>2, <3>2, RankIncreases
      <4> QED
        BY <2>2, <2>3, <4>1
    <3> QED
      BY <3>1, <3>2
  <2>5. a = i
    BY <2>3, <2>4
  <2> QED
    BY <2>1, <2>5 DEF a
<1> QED
  BY <1>0, <1>2, <1>3, <1>4

\* A filter keeps exactly the elements it is told to, each once and in their order.
THEOREM KeepKeeps ==
    ASSUME NEW S, NEW s \in Seq(S), NEW I \in SUBSET (DOMAIN s)
    PROVE  /\ Keep(s, I) \in Seq(S)
           /\ Len(Keep(s, I)) = Cardinality(I) /\ Cardinality(I) \in Nat
           /\ DOMAIN Keep(s, I) = 1..Cardinality(I)
           /\ \A j \in 1..Cardinality(I) : Origin(I)[j] \in I /\ Keep(s, I)[j] = s[Origin(I)[j]]
           /\ \A j, k \in 1..Cardinality(I) : j < k <=> Origin(I)[j] < Origin(I)[k]
           /\ \A j, k \in 1..Cardinality(I) : Origin(I)[j] = Origin(I)[k] => j = k
           /\ \A i \in I : \E j \in 1..Cardinality(I) : Origin(I)[j] = i
<1>1. DOMAIN s = 1..Len(s) /\ Len(s) \in Nat /\ \A i \in DOMAIN s : s[i] \in S
  BY LenProperties, ElementOfSeq
<1>2. /\ Cardinality(I) \in Nat
      /\ Origin(I) \in [1..Cardinality(I) -> I]
      /\ \A j, k \in 1..Cardinality(I) : j < k <=> Origin(I)[j] < Origin(I)[k]
      /\ \A j, k \in 1..Cardinality(I) : Origin(I)[j] = Origin(I)[k] => j = k
      /\ \A i \in I : \E j \in 1..Cardinality(I) : Origin(I)[j] = i
  BY <1>1, OriginProperties
<1>3. \A j \in 1..Cardinality(I) : Keep(s, I)[j] = s[Origin(I)[j]]
  BY DEF Keep, Origin
<1>4. Keep(s, I) \in [1..Cardinality(I) -> S]
  BY <1>1, <1>2, <1>3 DEF Keep
<1>5. Keep(s, I) \in Seq(S) /\ Len(Keep(s, I)) = Cardinality(I)
  BY <1>2, <1>4
<1> QED
  BY <1>2, <1>3, <1>4, <1>5

\* A filter that keeps everything changes nothing.
THEOREM KeepAll ==
    ASSUME NEW S, NEW s \in Seq(S)
    PROVE  Keep(s, DOMAIN s) = s
<1> DEFINE n == Len(s)
           I == DOMAIN s
<1>1. n \in Nat /\ I = 1..n /\ I \in SUBSET (1..n)
  BY LenProperties
<1>2. Cardinality(I) = n
  BY <1>1, FS_Interval
<1>3. ASSUME NEW i \in 1..n PROVE Rank(I, i) = i
  <2>1. i \in Nat /\ {k \in I : k <= i} = 1..i
    BY <1>1
  <2>2. Cardinality(1..i) = i
    BY <2>1, FS_Interval
  <2> QED
    BY <2>1, <2>2 DEF Rank
<1>4. ASSUME NEW j \in 1..n PROVE Origin(I)[j] = j
  <2>1. Origin(I)[j] = CHOOSE i \in I : Rank(I, i) = j
    BY <1>2, <1>4 DEF Origin
  <2>2. j \in I /\ Rank(I, j) = j /\ \A i \in I : Rank(I, i) = j => i = j
    BY <1>1, <1>3
  <2> HIDE DEF I
  <2> QED
    BY <2>1, <2>2
<1>5. /\ Keep(s, I) \in Seq(S) /\ Len(Keep(s, I)) = n
      /\ \A j \in 1..n : Keep(s, I)[j] = s[Origin(I)[j]]
  BY <1>2, KeepKeeps
<1> HIDE DEF I
<1>6. \A j \in 1..Len(Keep(s, I)) : Keep(s, I)[j] = s[j]
  BY <1>4, <1>5
<1>7. Keep(s, I) = s
  BY <1>5, <1>6, SeqEqual
<1> QED
  BY <1>7 DEF I

THEOREM KeepNone == \A s : Keep(s, {}) = <<>>
<1>1. Cardinality({}) = 0
  BY FS_EmptySet
<1> QED
  BY <1>1 DEF Keep

\* What is kept of a sequence does not depend on what is behind it.
THEOREM KeepFront ==
    ASSUME NEW S, NEW s \in Seq(S), NEW t \in Seq(S), Len(s) <= Len(t),
           \A i \in DOMAIN s : t[i] = s[i],
           NEW I \in SUBSET DOMAIN s
    PROVE  Keep(t, I) = Keep(s, I)
<1>1. /\ DOMAIN s = 1..Len(s) /\ Len(s) \in Nat /\ DOMAIN t = 1..Len(t) /\ Len(t) \in Nat
  BY LenProperties
<1>2. I \in SUBSET DOMAIN t
  BY <1>1
<1>3. /\ Keep(s, I) \in Seq(S) /\ Len(Keep(s, I)) = Cardinality(I) /\ Cardinality(I) \in Nat
      /\ \A j \in 1..Cardinality(I) : Origin(I)[j] \in I /\ Keep(s, I)[j] = s[Origin(I)[j]]
  BY KeepKeeps
<1>4. /\ Keep(t, I) \in Seq(S) /\ Len(Keep(t, I)) = Cardinality(I)
      /\ \A j \in 1..Cardinality(I) : Origin(I)[j] \in I /\ Keep(t, I)[j] = t[Origin(I)[j]]
  BY <1>2, KeepKeeps
<1>5. \A j \in 1..Len(Keep(t, I)) : Keep(t, I)[j] = Keep(s, I)[j]
  BY <1>3, <1>4
<1> QED
  BY <1>3, <1>4, <1>5, SeqEqual
=============================================================================
