----------------------------- MODULE NumberSets -----------------------------
(***************************************************************************)
(* Least and greatest elements of sets of numbers: the facts about Min and *)
(* Max of FiniteSetsExt that the proofs need.                              *)
(***************************************************************************)
EXTENDS Integers, FiniteSetsExt, FiniteSetTheorems, WellFoundedInduction, TLAPS

\* A nonempty set of numbers has a least one: what the library derives with an
\* operator as parameter follows here from the order of the intervals 0..n.
LEMMA MinInSet ==
  ASSUME NEW S \in SUBSET Nat, S # {}
  PROVE  Min(S) \in S /\ \A y \in S : Min(S) <= y
<1> DEFINE T == {0..n : n \in S}
<1>1. T \subseteq FiniteSubsetsOf(Nat)
  <2> SUFFICES ASSUME NEW n \in S
               PROVE  0..n \in SUBSET Nat /\ IsFiniteSet(0..n)
    BY DEF FiniteSubsetsOf
  <2>1. n \in Int /\ 0 \in Int
    OBVIOUS
  <2>2. IsFiniteSet(0..n)
    BY <2>1, FS_Interval, Zenon
  <2> QED
    BY <2>2
<1>2. PICK x \in T : \A y \in T : ~(<<y, x>> \in StrictSubsetOrdering(Nat))
  <2>1. IsWellFoundedOn(StrictSubsetOrdering(Nat), FiniteSubsetsOf(Nat))
    BY FS_StrictSubsetOrderingWellFounded
  <2>2. T # {}
    OBVIOUS
  <2> HIDE DEF T
  <2> QED
    BY <1>1, <2>1, <2>2, WFMin
<1>3. PICK n \in S : x = 0..n
  OBVIOUS
<1>4. \A m \in S : n <= m
  <2> SUFFICES ASSUME NEW m \in S, m < n
               PROVE  FALSE
    OBVIOUS
  <2>1. 0..m \in T /\ 0..m \subseteq 0..n /\ 0..m # 0..n
    <3>1. n \in 0..n /\ n \notin 0..m
      OBVIOUS
    <3> QED
      BY <3>1
  <2>2. 0..m \in SUBSET Nat /\ 0..n \in SUBSET Nat
    OBVIOUS
  <2>3. <<0..m, 0..n>> \in StrictSubsetOrdering(Nat)
    BY <2>1, <2>2, Zenon DEF StrictSubsetOrdering
  <2> QED
    BY <2>1, <2>3, <1>2, <1>3
<1> QED
  BY <1>4 DEF Min

\* A nonempty set of numbers below a bound has a greatest one.
LEMMA MaxInSet ==
  ASSUME NEW S \in SUBSET Nat, S # {}, NEW b \in Nat, \A x \in S : x <= b
  PROVE  Max(S) \in S /\ \A y \in S : y <= Max(S)
<1> DEFINE U == {b - x : x \in S}
<1>1. U \in SUBSET Nat /\ U # {}
  <2>1. \A x \in S : b - x \in Nat
    OBVIOUS
  <2> QED
    BY <2>1
<1>2. Min(U) \in U /\ \A y \in U : Min(U) <= y
  <2> HIDE DEF U
  <2> QED
    BY <1>1, MinInSet
<1>3. PICK m \in S : Min(U) = b - m
  BY <1>2
<1>4. \A y \in S : y <= m
  <2> SUFFICES ASSUME NEW y \in S
               PROVE  y <= m
    OBVIOUS
  <2>1. b - m <= b - y
    BY <1>2, <1>3
  <2> QED
    BY <2>1
<1> QED
  BY <1>4 DEF Max

=============================================================================
