----------------------------- MODULE NumberSets -----------------------------
(***************************************************************************)
(* Induction over the natural numbers for sets instead of formulas, from   *)
(* which provers without an induction rule can argue: the set of numbers   *)
(* that have a property.                                                   *)
(***************************************************************************)
EXTENDS Naturals, FiniteSets, FiniteSetTheorems, TLAPS

\* A set that has 0 and with every number the next one has them all.
LEMMA SetInduction ==
    ASSUME NEW S, 0 \in S, \A n \in Nat : n \in S => n + 1 \in S
    PROVE  \A n \in Nat : n \in S
<1>1. SUFFICES ASSUME NEW n \in Nat, n \notin S
               PROVE  FALSE
  OBVIOUS
<1>n. n > 0
  BY <1>1
<1>2. PICK A : A = 0 .. n
  OBVIOUS
<1>3. PICK B : B = 0 .. (n - 1)
  OBVIOUS
<1>4. IsFiniteSet(A) /\ IsFiniteSet(B) /\ Cardinality(B) < Cardinality(A)
  <2>1. IsFiniteSet(A) /\ Cardinality(A) = n + 1
    BY <1>2, FS_Interval
  <2>2. IsFiniteSet(B) /\ Cardinality(B) = n
    BY <1>3, <1>n, FS_Interval
  <2> QED
    BY <2>1, <2>2
<1>5. PICK f : f = [m \in A |-> IF m \in S THEN m ELSE m - 1]
  OBVIOUS
<1>6. f \in [A -> B]
  <2>1. \A m \in A : (IF m \in S THEN m ELSE m - 1) \in B
    BY <1>1, <1>2, <1>3, <1>n
  <2> QED
    BY <1>5, <2>1
<1>7. \A x, y \in A : x # y => f[x] # f[y]
  BY <1>1, <1>2, <1>5
<1>8. \E x, y \in A : x # y /\ f[x] = f[y]
  BY <1>4, <1>6, FS_PigeonHole
<1> QED
  BY <1>7, <1>8
=============================================================================
