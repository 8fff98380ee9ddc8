------------------------------- MODULE Least --------------------------------
(***************************************************************************)
(* Least and greatest elements of sets of numbers, from the fact that < is *)
(* well founded on the natural numbers.  A proof by induction over data    *)
(* takes the least element of the set of counterexamples.                  *)
(***************************************************************************)
EXTENDS Integers, WellFoundedInduction, TLAPS

\* A set of natural numbers that has an element has a least one.
LEMMA NatLeast ==
    ASSUME NEW T \in SUBSET Nat, T # {}
    PROVE  \E x \in T : \A y \in T : x <= y
  <1>1. IsWellFoundedOn(OpToRel(<, Nat), Nat)
    BY NatLessThanWellFounded
  <1>2. PICK x \in T : \A y \in T : ~(<<y, x>> \in OpToRel(<, Nat))
    <2> HIDE DEF OpToRel
    <2>1. QED
      BY <1>1, WFMin
  <1>3. \A y \in T : ~(<<y, x>> \in OpToRel(<, Nat)) => x <= y
    BY DEF OpToRel
  <1>4. QED
    BY <1>2, <1>3

\* A set of natural numbers up to m that has an element has a greatest one.
LEMMA NatGreatest ==
    ASSUME NEW m \in Nat, NEW T \in SUBSET (0..m), T # {}
    PROVE  \E x \in T : \A y \in T : y <= x
  <1> DEFINE D == {m - x : x \in T}
  <1>1. D \in SUBSET Nat /\ D # {}
    <2>1. \A x \in T : x \in 0..m /\ m - x \in Nat
      OBVIOUS
    <2>2. PICK x : x \in T
      OBVIOUS
    <2>3. m - x \in D
      BY <2>2
    <2>4. \A d \in D : d \in Nat
      BY <2>1
    <2>5. QED
      BY <2>3, <2>4
  <1>2. PICK d \in D : \A e \in D : d <= e
    <2> HIDE DEF D
    <2>1. QED
      BY <1>1, NatLeast
  <1>3. PICK x \in T : d = m - x
    OBVIOUS
  <1>4. \A y \in T : d <= m - y
    BY <1>2
  <1>5. QED
    BY <1>3, <1>4
=============================================================================
