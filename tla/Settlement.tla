----------------------------- MODULE Settlement -----------------------------
(***************************************************************************)
(* What reconciliation promises, without passes, cursors or locks: a book  *)
(* of which payment settles which invoice.  An entry is made once and      *)
(* stands; what an invoice received and how it stands follow from the      *)
(* entries at every moment, except that a cancelled invoice stays          *)
(* cancelled.  Reconciler.tla is shown to implement it.                    *)
(***************************************************************************)
EXTENDS FiniteSetsExt

CONSTANTS Payments, Invoices,
          Amount,     \* of each payment and of each invoice
          None

VARIABLES settles,    \* the invoice each payment settles, None if none
          received,   \* what each invoice received
          standing    \* "absent", "cancelled", or what was received calls for

vars == <<settles, received, standing>>

Earned(entries, i) == MapThenSumSet(LAMBDA p : Amount[p], {p \in Payments : entries[p] = i})

Standing(i, total) == CASE total = 0 -> "open"
                        [] total > 0 /\ total < Amount[i] -> "partial"
                        [] total > 0 /\ total = Amount[i] -> "paid"
                        [] OTHER -> "overpaid"

Init == /\ settles = [p \in Payments |-> None]
        /\ received = [i \in Invoices |-> 0]
        /\ standing = [i \in Invoices |-> "absent"]

Issue(i) == /\ standing[i] = "absent"
            /\ standing' = [standing EXCEPT ![i] = "open"]
            /\ UNCHANGED <<settles, received>>

Cancel(i) == /\ standing[i] \notin {"absent", "cancelled"}
             /\ standing' = [standing EXCEPT ![i] = "cancelled"]
             /\ UNCHANGED <<settles, received>>

(* Any number of payments at once, each to an invoice that was issued. *)
Settle ==
  /\ settles' \in [Payments -> Invoices \cup {None}]
  /\ \A p \in Payments :
       \/ settles'[p] = settles[p]
       \/ settles[p] = None /\ standing[settles'[p]] # "absent"
  /\ received' = [i \in Invoices |-> Earned(settles', i)]
  /\ standing' = [i \in Invoices |->
                    IF standing[i] \in {"absent", "cancelled"}
                      THEN standing[i] ELSE Standing(i, received'[i])]

Next == Settle \/ \E i \in Invoices : Issue(i) \/ Cancel(i)

Spec == Init /\ [][Next]_vars

(* What the book is for: an entry is never moved or taken back, and what   *)
(* was cancelled is not revived by what is settled later.                  *)
Stands ==
  /\ \A p \in Payments : settles[p] # None => settles'[p] = settles[p]
  /\ \A i \in Invoices : standing[i] = "cancelled" => standing'[i] = "cancelled"

EntriesStand == [][Stands]_vars
=============================================================================
