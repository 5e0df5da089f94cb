------------------------------ MODULE Numbers -------------------------------
(***************************************************************************)
(* Induction over natural numbers and sequences: sets that are closed      *)
(* under the step take the place of the predicates of the library's rules. *)
(***************************************************************************)
EXTENDS Integers, Sequences, FiniteSets, WellFoundedInduction, NaturalsInduction,
        SequenceTheorems, FiniteSetTheorems, TLAPS

\* A set of natural numbers that is not empty has a least one.
LEMMA LeastNumber ==
  ASSUME NEW T, T \subseteq Nat, T # {}
  PROVE  \E x \in T : \A y \in T : x <= y
<1> DEFINE R == OpToRel(<, Nat)
<1>1. IsWellFoundedOn(R, Nat)
  BY NatLessThanWellFounded
<1>2. \A x, y \in Nat : y < x => <<y, x>> \in R
  BY DEF OpToRel
<1> HIDE DEF R
<1>3. \E x \in T : \A y \in T : ~(<<y, x>> \in R)
  BY <1>1, WFMin
<1>4. \A x, y \in T : ~(<<y, x>> \in R) => x <= y
  BY <1>2
<1> QED
  BY <1>3, <1>4

\* And a greatest one, if there is a bound.
LEMMA GreatestNumber ==
  ASSUME NEW n \in Nat, NEW T, T \subseteq 1..n, T # {}
  PROVE  \E x \in T : \A y \in T : y <= x
<1> DEFINE U == {n - t : t \in T}
<1>1. U \subseteq Nat /\ U # {}
  <2>1. \A t \in T : n - t \in Nat
    OBVIOUS
  <2>2. PICK t \in T : TRUE
    OBVIOUS
  <2>3. n - t \in U
    OBVIOUS
  <2> QED
    BY <2>1, <2>3
<1> HIDE DEF U
<1>2. PICK u \in U : \A v \in U : u <= v
  BY <1>1, LeastNumber
<1>3. PICK x \in T : u = n - x
  BY <1>2 DEF U
<1>4. ASSUME NEW y \in T
      PROVE  y <= x
  <2>1. n - y \in U
    BY DEF U
  <2> QED
    BY <1>2, <1>3, <2>1
<1> QED
  BY <1>4

\* A set with 0 that has n + 1 with every n has every natural number.
LEMMA NaturalsIn ==
  ASSUME NEW T, 0 \in T, \A n \in Nat : n \in T => n + 1 \in T
  PROVE  Nat \subseteq T
<1> DEFINE U == {n \in Nat : n \notin T}
<1> SUFFICES ASSUME U # {}
             PROVE  FALSE
  OBVIOUS
<1>1. PICK n \in U : \A m \in U : n <= m
  BY LeastNumber
<1>2. n - 1 \in Nat /\ n - 1 \notin U /\ (n - 1) + 1 = n
  BY <1>1
<1> QED
  BY <1>1, <1>2

\* One with the empty sequence that has Append(t, e) with every t has every
\* sequence.
LEMMA SequencesIn ==
  ASSUME NEW S, NEW T, <<>> \in T, \A t \in Seq(S), e \in S : t \in T => Append(t, e) \in T
  PROVE  Seq(S) \subseteq T
<1> DEFINE U == {n \in Nat : \A t \in Seq(S) : Len(t) = n => t \in T}
<1>1. 0 \in U
  BY EmptySeq
<1>2. ASSUME NEW n \in Nat, n \in U, NEW t \in Seq(S), Len(t) = n + 1
      PROVE  t \in T
  <2>1. t # <<>>
    BY <1>2
  <2>2. PICK u \in Seq(S), e \in S : t = Append(u, e)
    BY <2>1, SequenceEmptyOrAppend
  <2>3. Len(u) = n
    BY <1>2, <2>2, AppendProperties
  <2> QED
    BY <1>2, <2>2, <2>3
<1>3. \A n \in Nat : n \in U => n + 1 \in U
  BY <1>2
<1>4. Nat \subseteq U
  <2> HIDE DEF U
  <2> QED
    BY <1>1, <1>3, NaturalsIn
<1> QED
  BY <1>4, LenProperties

\* The number of elements of I up to x.
Rank(I, x) == Cardinality({j \in I : j <= x})

\* A finite set of natural numbers has an n-th element, for every n up to its
\* cardinality: from 0 on, the count of its elements rises by at most one from
\* number to number.
LEMMA RankExists ==
  ASSUME NEW m \in Nat, NEW I, I \subseteq 0..m, NEW n \in 1..Cardinality(I)
  PROVE  \E x \in I : Rank(I, x) = n
<1> DEFINE Before(k) == {j \in I : j < k}
<1>1. IsFiniteSet(I) /\ \A k : IsFiniteSet(Before(k)) /\ Cardinality(Before(k)) \in Nat
  <2>1. IsFiniteSet(I)
    <3>1. IsFiniteSet(0..m)
      BY FS_Interval
    <3> QED
      BY <3>1, FS_Subset
  <2>2. ASSUME NEW k
        PROVE  IsFiniteSet(Before(k))
    <3>1. Before(k) \subseteq I
      OBVIOUS
    <3> HIDE DEF Before
    <3> QED
      BY <2>1, <3>1, FS_Subset
  <2> HIDE DEF Before
  <2> QED
    BY <2>1, <2>2, FS_CardinalityType
<1>2. n \in Nat /\ n >= 1 /\ n <= Cardinality(I) /\ Cardinality(I) \in Nat
  BY <1>1, FS_CardinalityType
<1> \A j \in I : j \in Nat /\ 0 <= j /\ j <= m
  OBVIOUS
<1>3. Before(m + 1) = I /\ Before(0) = {}
  <2>1. \A j \in I : j < m + 1 /\ ~(j < 0)
    OBVIOUS
  <2> QED
    BY <2>1
<1>4. ASSUME NEW k \in Nat
      PROVE  Before(k + 1) = IF k \in I THEN Before(k) \cup {k} ELSE Before(k)
  <2>1. \A j \in I : j < k + 1 <=> j < k \/ j = k
    OBVIOUS
  <2>2. \A j : j \in Before(k + 1) <=> j \in I /\ j < k + 1
    OBVIOUS
  <2>3. \A j : j \in Before(k) <=> j \in I /\ j < k
    OBVIOUS
  <2> HIDE DEF Before
  <2>4. k < k + 1
    OBVIOUS
  <2> QED
    BY <2>1, <2>2, <2>3, <2>4
<1>5. \A k \in Nat : k \notin Before(k)
  OBVIOUS
<1>6. \E k \in I : Cardinality(Before(k + 1)) = n
  <2> HIDE DEF Before
  <2> DEFINE T == {k \in Nat : n <= Cardinality(Before(k))}
  <2>1. m + 1 \in T
    BY <1>2, <1>3
  <2>2. PICK l \in T : \A y \in T : l <= y
    BY <2>1, LeastNumber
  <2>3. l \in Nat /\ l # 0
    BY <1>2, <1>3, FS_EmptySet
  <2> DEFINE k == l - 1
  <2>4. k \in Nat /\ k + 1 = l /\ ~(l <= k)
    BY <2>3
  <2> HIDE DEF k
  <2>5. Cardinality(Before(k)) < n
    <3>1. k \notin T
      BY <2>2, <2>4
    <3>2. Cardinality(Before(k)) \in Nat
      BY <1>1
    <3> QED
      BY <1>2, <2>4, <3>1, <3>2
  <2>6. n <= Cardinality(Before(k + 1)) /\ Cardinality(Before(k)) \in Nat
    BY <1>1, <2>2, <2>4
  <2>7. k \in I
    <3>1. ~(Cardinality(Before(k + 1)) = Cardinality(Before(k)))
      BY <1>2, <2>5, <2>6
    <3> QED
      BY <1>4, <2>4, <3>1
  <2>8. Cardinality(Before(k + 1)) = Cardinality(Before(k)) + 1
    BY <1>1, <1>4, <1>5, <2>4, <2>7, FS_AddElement
  <2> QED
    BY <1>2, <2>5, <2>6, <2>7, <2>8
<1>7. PICK k \in I : Cardinality(Before(k + 1)) = n
  BY <1>6
<1>8. Before(k + 1) = {j \in I : j <= k}
  <2>1. \A j \in I : j < k + 1 <=> j <= k
    OBVIOUS
  <2> QED
    BY <2>1
<1> QED
  BY <1>7, <1>8 DEF Rank

\* Choosing it by that finds it.
LEMMA RankChosen ==
  ASSUME NEW m \in Nat, NEW I, I \subseteq 0..m, NEW n \in 1..Cardinality(I),
         NEW y, y = CHOOSE x \in I : Rank(I, x) = n
  PROVE  y \in I /\ Rank(I, y) = n
<1>1. \E x \in I : Rank(I, x) = n
  BY RankExists
<1> QED
  BY <1>1

\* A set of numbers from 1 that has every lower one of each is an interval.
LEMMA DownwardClosed ==
  ASSUME NEW n \in Nat, NEW K, K \subseteq 1..n,
         \A i \in K : \A j \in 1..n : j <= i => j \in K
  PROVE  Cardinality(K) \in 0..n /\ K = 1..Cardinality(K)
<1>1. ASSUME K = {}
      PROVE  Cardinality(K) = 0 /\ K = 1..0
  <2>1. Cardinality(K) = 0
    BY <1>1, FS_EmptySet
  <2>2. 1..0 = {}
    OBVIOUS
  <2> QED
    BY <1>1, <2>1, <2>2
<1>2. ASSUME K # {}
      PROVE  \E g \in 1..n : K = 1..g /\ Cardinality(K) = g
  <2>1. PICK g \in K : \A y \in K : y <= g
    BY <1>2, GreatestNumber
  <2>2. K = 1..g
    <3>1. g \in 1..n
      OBVIOUS
    <3>2. \A i \in K : i \in 1..g
      BY <2>1
    <3>3. \A i \in 1..g : i \in 1..n /\ i <= g
      BY <3>1
    <3>4. \A i \in 1..g : i \in K
      BY <3>1, <3>3
    <3> QED
      BY <3>2, <3>4
  <2>3. Cardinality(1..g) = g
    BY <2>1, FS_Interval
  <2> QED
    BY <2>1, <2>2, <2>3
<1> QED
  BY <1>1, <1>2
=============================================================================
