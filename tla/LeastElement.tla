----------------------------- MODULE LeastElement -----------------------------
(***************************************************************************)
(* What the proofs about loops that stop at the first match rest on: a     *)
(* finite set of numbers that is not empty has a least element, and a      *)
(* greatest.                                                               *)
(***************************************************************************)
EXTENDS Integers, FiniteSetTheorems, WellFoundedInduction, TLAPS

(***************************************************************************)
(* The library proves induction with operators only; here the sets of the  *)
(* members up to one are ordered by inclusion, which is well founded.      *)
(***************************************************************************)
LEMMA LeastExists ==
    ASSUME NEW S \in SUBSET Int, IsFiniteSet(S), S # {}
    PROVE  \E i \in S : \A k \in S : i <= k
<1> DEFINE UpTo(k) == {j \in S : j <= k}
           T == {UpTo(k) : k \in S}
<1>1. T \subseteq FiniteSubsetsOf(S) /\ T # {}
  <2>1. ASSUME NEW k \in S PROVE UpTo(k) \subseteq S /\ IsFiniteSet(UpTo(k))
    <3>1. UpTo(k) \subseteq S
      OBVIOUS
    <3> QED
      BY <3>1, FS_Subset
  <2>2. T \subseteq FiniteSubsetsOf(S)
    BY <2>1 DEF FiniteSubsetsOf
  <2>3. T # {}
    OBVIOUS
  <2> QED
    BY <2>2, <2>3
<1>2. IsWellFoundedOn(StrictSubsetOrdering(S), FiniteSubsetsOf(S))
  BY FS_StrictSubsetOrderingWellFounded
<1>3. PICK A \in T : \A B \in T : <<B, A>> \notin StrictSubsetOrdering(S)
  BY <1>1, <1>2, WFMin
<1>4. PICK i \in S : A = UpTo(i)
  BY <1>3
<1>5. ASSUME NEW k \in S, k < i PROVE FALSE
  <2>1. UpTo(k) \in T /\ UpTo(k) \in SUBSET S /\ A \in SUBSET S
    BY <1>4
  <2>2. i \in A /\ i \notin UpTo(k)
    BY <1>4, <1>5
  <2>3. UpTo(k) \subseteq A
    <3> SUFFICES ASSUME NEW j \in S, j <= k PROVE j <= i
      BY <1>4
    <3> QED
      BY <1>5
  <2> QED
    BY <1>3, <2>1, <2>2, <2>3 DEF StrictSubsetOrdering
<1>6. \A k \in S : i <= k
  BY <1>5
<1> QED
  BY <1>6

\* A finite set of numbers has a greatest member.
LEMMA GreatestExists ==
    ASSUME NEW S \in SUBSET Int, IsFiniteSet(S), S # {}
    PROVE  \E i \in S : \A k \in S : k <= i
<1> DEFINE T == {0 - k : k \in S}
<1>1. T \in SUBSET Int /\ T # {}
  <2>1. \A k \in S : 0 - k \in Int
    OBVIOUS
  <2> QED
    BY <2>1
<1>2. IsFiniteSet(T)
  <2>1. S \in SUBSET Int
    OBVIOUS
  <2> DEFINE f == [k \in S |-> 0 - k]
  <2>2. f \in Surjection(S, T)
    BY DEF Surjection
  <2> HIDE DEF f, T
  <2> QED
    BY <2>2, FS_Surjection
<1>3. PICK j \in T : \A k \in T : j <= k
  <2> HIDE DEF T
  <2> QED
    BY <1>1, <1>2, LeastExists
<1>4. PICK i \in S : j = 0 - i
  OBVIOUS
<1>5. ASSUME NEW k \in S PROVE k <= i
  <2>1. 0 - i <= 0 - k /\ i \in Int /\ k \in Int
    BY <1>3, <1>4
  <2> QED
    BY <2>1
<1> QED
  BY <1>5
=============================================================================
