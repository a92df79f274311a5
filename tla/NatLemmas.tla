------------------------------ MODULE NatLemmas ------------------------------
(* Induction over the naturals in the form that proofs of this directory     *)
(* use: instead of a predicate, a set of numbers and its least element.      *)
EXTENDS Naturals, WellFoundedInduction, TLAPS

\* Every set of numbers that has an element has a least one: what a search from below
\* stops at, and the first step at which two recursive definitions could part.
LEMMA LeastNumber ==
  ASSUME NEW S \in SUBSET Nat, S # {}
  PROVE  \E n \in S : \A m \in S : n <= m
<1>1. PICK n \in S : \A m \in S : <<m, n>> \notin OpToRel(<, Nat)
  BY NatLessThanWellFounded, WFMin, Zenon
<1>2. ASSUME NEW m \in S PROVE n <= m
  <2>1. <<m, n>> \notin OpToRel(<, Nat)
    BY <1>1
  <2>2. ~(m < n)
    BY <2>1, Zenon DEF OpToRel
  <2> QED BY <2>2
<1> QED BY <1>2
=============================================================================
