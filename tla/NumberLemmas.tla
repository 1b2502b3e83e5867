---------------------------- MODULE NumberLemmas ----------------------------
(***************************************************************************)
(* What recursive definitions need: induction over the natural numbers, as *)
(* a fact about sets.                                                      *)
(***************************************************************************)
EXTENDS Integers, FiniteSetTheorems, TLAPS

\* Sets of natural numbers that have 0 and all successors: two of 0 .. n - 1
\* would have the same one if n were missing.
LEMMA Induction ==
  ASSUME NEW T \in SUBSET Nat, 0 \in T, \A n \in T : n + 1 \in T
  PROVE  T = Nat
<1>. SUFFICES ASSUME NEW n \in Nat, n \notin T PROVE FALSE
  OBVIOUS
<1>. DEFINE below == T \cap (0 .. n - 1)
            above == below \ {0}
            successor == [x \in below |-> x + 1]
<1>1. IsFiniteSet(below)
  <2>1. IsFiniteSet(0 .. n - 1) /\ below \in SUBSET (0 .. n - 1)
    BY FS_Interval
  <2>. QED BY <2>1, FS_Subset
<1>2. 0 \in below /\ \A x \in below : x \in Nat
  OBVIOUS
<1>3. successor \in [below -> above] /\ \A x \in below : successor[x] = x + 1
  OBVIOUS
<1>. HIDE DEF below, successor
<1>4. IsFiniteSet(above) /\ Cardinality(above) = Cardinality(below) - 1
  BY <1>1, <1>2, FS_RemoveElement
<1>. HIDE DEF above
<1>5. Cardinality(above) < Cardinality(below)
  BY <1>1, <1>4, FS_CardinalityType
<1>6. \E x, y \in below : x # y /\ successor[x] = successor[y]
  BY <1>1, <1>3, <1>4, <1>5, FS_PigeonHole
<1>. QED BY <1>2, <1>3, <1>6

\* A set of natural numbers that is not empty has a least element.
LEMMA LeastExists ==
  ASSUME NEW K \in SUBSET Nat, K # {}
  PROVE  \E k \in K : \A j \in K : k <= j
<1>. SUFFICES ASSUME \A k \in K : \E j \in K : j < k PROVE FALSE
  OBVIOUS
<1>. DEFINE none == {n \in Nat : \A k \in K : n < k}
<1>1. 0 \in none
  OBVIOUS
<1>2. ASSUME NEW n \in none
      PROVE  n + 1 \in none
  OBVIOUS
<1>3. none = Nat
  <2>. HIDE DEF none
  <2>1. none \in SUBSET Nat
    BY DEF none
  <2>. QED BY <1>1, <1>2, <2>1, Induction
<1>4. PICK k \in K : k \in Nat
  OBVIOUS
<1>. QED BY <1>3, <1>4
=============================================================================
