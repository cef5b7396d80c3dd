------------------------------ MODULE Extrema ------------------------------
(***************************************************************************)
(* Sets of numbers have a least element, bounded ones a greatest.          *)
(***************************************************************************)
EXTENDS Integers, WellFoundedInduction, TLAPS

Below == {xy \in Nat \X Nat : xy[1] < xy[2]}

LEMMA BelowWellFounded == IsWellFoundedOn(Below, Nat)
BY NatLessThanWellFounded, Zenon DEF OpToRel, Below

LEMMA LeastNatural ==
  ASSUME NEW S \in SUBSET Nat, S # {}
  PROVE  \E x \in S : \A y \in S : x <= y
<1>1. \E x \in S : \A y \in S : ~ (<<y, x>> \in Below)
  BY BelowWellFounded, WFMin, Zenon
<1>2. \A x, y \in Nat : ~ (<<y, x>> \in Below) => x <= y
  BY DEF Below
<1> QED BY <1>1, <1>2

LEMMA GreatestUpTo ==
  ASSUME NEW n \in Nat, NEW S \in SUBSET (0 .. n), S # {}
  PROVE  \E x \in S : \A y \in S : y <= x
<1> DEFINE T == {n - p : p \in S}
<1>1. T \in SUBSET Nat /\ T # {}
  <2>1. \A p \in S : n - p \in Nat
    OBVIOUS
  <2>2. PICK p \in S : TRUE
    OBVIOUS
  <2>3. n - p \in T
    OBVIOUS
  <2> QED BY <2>1, <2>3
<1>2. \E t \in T : \A y \in T : t <= y
  <2> HIDE DEF T
  <2> QED BY <1>1, LeastNatural
<1>3. PICK x \in S : \A y \in T : n - x <= y
  BY <1>2
<1>4. \A y \in S : n - x <= n - y
  BY <1>3
<1> QED BY <1>4
=============================================================================
