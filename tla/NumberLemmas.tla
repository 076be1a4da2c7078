---------------------------- MODULE NumberLemmas ----------------------------
(* Facts about sets of numbers that the proofs about the components share. *)
EXTENDS Naturals, TLAPS, WellFoundedInduction

(* Every set of numbers has a least one: the form of induction used below. *)
LEMMA LeastNumber ==
    ASSUME NEW S \in SUBSET Nat, S # {}
    PROVE  \E n \in S : \A m \in S : n <= m
  <1> DEFINE R == {ss \in Nat \X Nat : ss[1] < ss[2]}
  <1>1. OpToRel(<, Nat) = R
    BY Zenon DEF OpToRel
  <1>2. IsWellFoundedOn(R, Nat)
    BY NatLessThanWellFounded, <1>1, Zenon
  <1>3. PICK n \in S : \A m \in S : ~ (<<m, n>> \in R)
    BY <1>2, WFMin, Zenon
  <1>4. \A m \in S : <<m, n>> \in R <=> m < n
    OBVIOUS
  <1> HIDE DEF R
  <1>5. \A m \in S : ~ (m < n)
    BY <1>3, <1>4
  <1> QED
    BY <1>5

(* A bounded set of numbers has a greatest one. *)
LEMMA GreatestNumber ==
    ASSUME NEW S \in SUBSET Nat, S # {}, NEW n \in Nat, \A k \in S : k <= n
    PROVE  \E m \in S : \A k \in S : k <= m
  <1> DEFINE B == {j \in Nat : \A k \in S : k <= j}
  <1>1. PICK m \in B : \A j \in B : m <= j
    <2>1. B \in SUBSET Nat /\ B # {}
      OBVIOUS
    <2> HIDE DEF B
    <2> QED
      BY <2>1, LeastNumber, Zenon
  <1>2. m \in S
    <2>1. SUFFICES ASSUME m \notin S PROVE FALSE
      OBVIOUS
    <2>2. \A k \in S : k < m
      BY <1>1, <2>1
    <2>3. m - 1 \in Nat
      <3>1. PICK k \in S : TRUE
        OBVIOUS
      <3> QED
        BY <1>1, <2>2, <3>1
    <2>4. m - 1 \in B
      BY <1>1, <2>2, <2>3 DEF B
    <2> QED
      BY <1>1, <2>4
  <1> QED
    BY <1>1, <1>2

=============================================================================
