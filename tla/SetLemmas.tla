----------------------------- MODULE SetLemmas -----------------------------
(***************************************************************************)
(* Lemmas about finite sets of integers, for the proofs about the modules  *)
(* that take a minimum or a maximum of one.                                *)
(***************************************************************************)
EXTENDS Integers, FiniteSets, FiniteSetsExt, FiniteSetTheorems, WellFoundedInduction, TLAPS

\* A finite nonempty set of integers has a least element, which Min chooses.  (Among the
\* sets of its elements up to x, for x in it, there is one that includes no other.)
LEMMA MinOfSet ==
    ASSUME NEW S, IsFiniteSet(S), S \subseteq Int, S # {}
    PROVE  /\ Min(S) \in S
           /\ \A y \in S : Min(S) <= y
<1> DEFINE UpTo(x) == {y \in S : y <= x}
           Sections == {UpTo(x) : x \in S}
<1>1. Sections # {} /\ Sections \subseteq FiniteSubsetsOf(S)
  <2>1. \A x \in S : UpTo(x) \subseteq S
    OBVIOUS
  <2>2. \A x \in S : UpTo(x) \in SUBSET S /\ IsFiniteSet(UpTo(x))
    <3> HIDE DEF UpTo
    <3> QED  BY <2>1, FS_Subset
  <2> QED  BY <2>2 DEF FiniteSubsetsOf
<1>2. \E T \in Sections : \A U \in Sections : ~(<<U, T>> \in StrictSubsetOrdering(S))
  <2>1. IsWellFoundedOn(StrictSubsetOrdering(S), FiniteSubsetsOf(S))
    BY FS_StrictSubsetOrderingWellFounded
  <2> HIDE DEF Sections
  <2> QED  BY <1>1, <2>1, WFMin
<1>3. PICK m \in S : \A y \in S : ~(<<UpTo(y), UpTo(m)>> \in StrictSubsetOrdering(S))
  BY <1>2
<1>4. ASSUME NEW y \in S, y < m PROVE FALSE
  <2>1. UpTo(y) \subseteq UpTo(m) /\ UpTo(y) \subseteq S /\ UpTo(m) \subseteq S
    <3>1. \A z \in S : z \in Int /\ y \in Int /\ m \in Int
      OBVIOUS
    <3>2. \A z \in S : z <= y => z <= m
      BY <1>4, <3>1
    <3> QED  BY <3>2
  <2>2. m \in UpTo(m) /\ m \notin UpTo(y)
    BY <1>4
  <2> QED  BY <1>3, <2>1, <2>2 DEF StrictSubsetOrdering
<1>5. \A y \in S : m <= y
  BY <1>4
<1> QED  BY <1>5 DEF Min

\* A finite nonempty set of integers has a greatest element, which Max chooses.
LEMMA MaxOfSet ==
    ASSUME NEW S, IsFiniteSet(S), S \subseteq Int, S # {}
    PROVE  /\ Max(S) \in S
           /\ \A y \in S : y <= Max(S)
<1> DEFINE From(x) == {y \in S : x <= y}
           Sections == {From(x) : x \in S}
<1>1. Sections # {} /\ Sections \subseteq FiniteSubsetsOf(S)
  <2>1. \A x \in S : From(x) \subseteq S
    OBVIOUS
  <2>2. \A x \in S : From(x) \in SUBSET S /\ IsFiniteSet(From(x))
    <3> HIDE DEF From
    <3> QED  BY <2>1, FS_Subset
  <2> QED  BY <2>2 DEF FiniteSubsetsOf
<1>2. \E T \in Sections : \A U \in Sections : ~(<<U, T>> \in StrictSubsetOrdering(S))
  <2>1. IsWellFoundedOn(StrictSubsetOrdering(S), FiniteSubsetsOf(S))
    BY FS_StrictSubsetOrderingWellFounded
  <2> HIDE DEF Sections
  <2> QED  BY <1>1, <2>1, WFMin
<1>3. PICK m \in S : \A y \in S : ~(<<From(y), From(m)>> \in StrictSubsetOrdering(S))
  BY <1>2
<1>4. ASSUME NEW y \in S, m < y PROVE FALSE
  <2>1. From(y) \subseteq From(m) /\ From(y) \subseteq S /\ From(m) \subseteq S
    <3>1. \A z \in S : z \in Int /\ y \in Int /\ m \in Int
      OBVIOUS
    <3>2. \A z \in S : y <= z => m <= z
      BY <1>4, <3>1
    <3> QED  BY <3>2
  <2>2. m \in From(m) /\ m \notin From(y)
    BY <1>4
  <2> QED  BY <1>3, <2>1, <2>2 DEF StrictSubsetOrdering
<1>5. \A y \in S : y <= m
  BY <1>4
<1> QED  BY <1>5 DEF Max

\* The least and the greatest of two integers.
LEMMA MinOfTwo ==
    ASSUME NEW a \in Int, NEW b \in Int
    PROVE  Min({a, b}) = IF a <= b THEN a ELSE b
  BY DEF Min

LEMMA MaxOfTwo ==
    ASSUME NEW a \in Int, NEW b \in Int
    PROVE  Max({a, b}) = IF a <= b THEN b ELSE a
  BY DEF Max

\* Disjoint finite sets count separately.
LEMMA DisjointUnion ==
    ASSUME NEW S, NEW T, IsFiniteSet(S), IsFiniteSet(T), S \cap T = {}
    PROVE  Cardinality(S \cup T) = Cardinality(S) + Cardinality(T)
<1>1. Cardinality(S) \in Nat /\ Cardinality(T) \in Nat
  BY FS_CardinalityType
<1>2. Cardinality(S \cap T) = 0
  BY FS_EmptySet
<1>3. Cardinality(S \cup T) = Cardinality(S) + Cardinality(T) - Cardinality(S \cap T)
  BY FS_Union
<1> QED  BY <1>1, <1>2, <1>3

\* The union of finite sets has at most as many elements as both of them.
LEMMA UnionBound ==
    ASSUME NEW S, NEW T, IsFiniteSet(S), IsFiniteSet(T)
    PROVE  /\ IsFiniteSet(S \cup T)
           /\ Cardinality(S \cup T) \in Nat
           /\ Cardinality(S \cup T) <= Cardinality(S) + Cardinality(T)
<1>1. IsFiniteSet(S \cup T) /\ IsFiniteSet(S \cap T)
  BY FS_Union, FS_Intersection
<1>2. Cardinality(S) \in Nat /\ Cardinality(T) \in Nat /\ Cardinality(S \cap T) \in Nat
      /\ Cardinality(S \cup T) \in Nat
  BY <1>1, FS_CardinalityType
<1>3. Cardinality(S \cup T) = Cardinality(S) + Cardinality(T) - Cardinality(S \cap T)
  BY FS_Union
<1> QED  BY <1>1, <1>2, <1>3

\* Of a finite set of integers, at most k elements have fewer than k elements below them.
LEMMA FirstFew ==
    ASSUME NEW S, IsFiniteSet(S), S \subseteq Int, NEW k \in Nat
    PROVE  Cardinality({n \in S : Cardinality({m \in S : m < n}) < k}) <= k
<1> DEFINE First == {n \in S : Cardinality({m \in S : m < n}) < k}
<1>1. IsFiniteSet(First) /\ First \subseteq Int
  <2>1. First \in SUBSET S
    OBVIOUS
  <2> HIDE DEF First
  <2> QED  BY <2>1, FS_Subset
<1>2. CASE First = {}
  <2>1. Cardinality(First) = 0
    BY <1>2, FS_EmptySet
  <2> HIDE DEF First
  <2>2. Cardinality(First) <= k
    BY <2>1
  <2> QED  BY <2>2 DEF First
<1>3. CASE First # {}
  <2> DEFINE last == Max(First)
             Below == {m \in S : m < last}
  <2>1. last \in First /\ \A n \in First : n <= last
    <3> HIDE DEF First
    <3> QED  BY <1>1, <1>3, MaxOfSet
  <2>2. Cardinality(Below) < k
    BY <2>1
  <2>3. IsFiniteSet(Below) /\ Cardinality(Below) \in Nat
    <3>1. Below \in SUBSET S
      OBVIOUS
    <3> HIDE DEF Below
    <3> QED  BY <3>1, FS_Subset, FS_CardinalityType
  <2>4. First \ {last} \subseteq Below
    <3>1. \A n \in First : n \in S /\ n <= last
      BY <2>1
    <3>2. \A n \in First \ {last} : n \in Int /\ last \in Int /\ n <= last /\ n # last
      BY <3>1, <2>1, <1>1
    <3>3. \A n \in First \ {last} : n < last
      <4> HIDE DEF First, last
      <4> QED  BY <3>2
    <3> QED  BY <3>1, <3>3
  <2>5. Cardinality(First \ {last}) <= Cardinality(Below)
    BY <2>3, <2>4, FS_Subset
  <2>6. Cardinality(First \ {last}) = Cardinality(First) - 1 /\ Cardinality(First) \in Nat
    <3> HIDE DEF First
    <3> QED  BY <1>1, <2>1, FS_RemoveElement, FS_CardinalityType
  <2> QED  BY <2>2, <2>3, <2>5, <2>6
<1> QED  BY <1>2, <1>3
=============================================================================
