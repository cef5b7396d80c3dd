---------------------------- MODULE MCDispatcher ----------------------------
(* Dispatcher on small instances: one or two events, one subscription,      *)
(* two dispatchers.                                                         *)
EXTENDS Dispatcher, TLC

CONSTANTS s1, d1, d2, w1, w2

MCWantsLast == [s \in Subs |-> {MaxEvents}]
MCWantsAll == [s \in Subs |-> Ids]
MCBackoff == [n \in 1 .. MaxAttempts |-> n]
MCSymmetry == Permutations(Writers)
=============================================================================
