---------------------------- MODULE MCReconciler ----------------------------
(* Reconciler on small instances: two payments, one invoice.                *)
EXTENDS Reconciler, TLC

CONSTANTS i1, e1, e2

Both == Payments \cup Invoices
MCOneAccount == [x \in Both |-> "account"]
MCOneAsset == [x \in Both |-> "native"]
MCAmount == [x \in Both |-> IF x \in Invoices THEN 2 ELSE x]
MCNone == [p \in Payments |-> {}]
MCAllFirst == [p \in Payments |-> {i1}]
MCLastFirst == [p \in Payments |-> IF p = MaxPayments THEN {i1} ELSE {}]
=============================================================================
