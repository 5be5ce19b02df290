-------------------------------- MODULE Numbers --------------------------------
(***************************************************************************)
(* The least and the greatest of some numbers.                             *)
(***************************************************************************)
EXTENDS Integers, FiniteSetTheorems, TLAPS

(***************************************************************************)
(* The least of some numbers: of the intervals 0..n, one is minimal.       *)
(***************************************************************************)
LEMMA LeastNumber ==
    ASSUME NEW S \in SUBSET Nat, S # {}
    PROVE  \E n \in S : \A m \in S : n <= m
<1> DEFINE T == {0..n : n \in S}
<1>1. IsWellFoundedOn(StrictSubsetOrdering(Nat), FiniteSubsetsOf(Nat))
    BY FS_StrictSubsetOrderingWellFounded
<1>2. T \subseteq FiniteSubsetsOf(Nat)
    <2> SUFFICES ASSUME NEW n \in S PROVE 0..n \in FiniteSubsetsOf(Nat)  OBVIOUS
    <2>1. IsFiniteSet(0..n)  BY FS_Interval
    <2>2. 0..n \subseteq Nat  OBVIOUS
    <2> QED BY <2>1, <2>2 DEF FiniteSubsetsOf
<1>3. T # {}  OBVIOUS
<1> HIDE DEF T
<1>4. PICK x \in T : \A y \in T : ~ (<<y, x>> \in StrictSubsetOrdering(Nat))
    BY <1>1, <1>2, <1>3, WFMin
<1>5. PICK n \in S : x = 0..n  BY DEF T
<1>6. ASSUME NEW m \in S, m < n PROVE FALSE
    <2>1. 0..m \in T  BY DEF T
    <2>2. 0..m \subseteq 0..n /\ 0..m # 0..n
        <3>1. n \in 0..n /\ n \notin 0..m  BY <1>6
        <3> QED BY <3>1, <1>6
    <2>3. 0..m \in SUBSET Nat /\ 0..n \in SUBSET Nat  OBVIOUS
    <2>4. <<0..m, 0..n>> \in StrictSubsetOrdering(Nat)
        BY <2>2, <2>3 DEF StrictSubsetOrdering
    <2> QED BY <1>4, <1>5, <2>1, <2>4
<1> QED BY <1>6

(***************************************************************************)
(* The greatest of some numbers up to n is the one furthest below n.       *)
(***************************************************************************)
LEMMA GreatestNumber ==
    ASSUME NEW n \in Nat, NEW S \in SUBSET (0..n), S # {}
    PROVE  \E i \in S : \A j \in S : j <= i
<1> DEFINE below == {n - i : i \in S}
<1>1. below \in SUBSET Nat /\ below # {}
    <2>1. \A i \in S : n - i \in Nat  OBVIOUS
    <2> QED BY <2>1
<1>2. PICK m \in below : \A k \in below : m <= k  BY <1>1, LeastNumber
<1>3. PICK i \in S : m = n - i  OBVIOUS
<1>4. ASSUME NEW j \in S PROVE j <= i
    <2>1. n - i <= n - j  BY <1>2, <1>3
    <2>2. i \in 0..n /\ j \in 0..n  OBVIOUS
    <2> QED BY <2>1, <2>2
<1> QED BY <1>4
=============================================================================
