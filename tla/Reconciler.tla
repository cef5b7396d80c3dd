----------------------------- MODULE Reconciler -----------------------------
(***************************************************************************)
(* The reconcile engine: reconcile/src/engine.rs with the rules of         *)
(* rules.rs, the SQL function recalc_invoice of 0006_invoices.sql and the  *)
(* tables they work on (payments, payment_allocations, invoices and the    *)
(* engine's row of stream_cursors).                                        *)
(*                                                                         *)
(* Any number of engines share the database, beside the ingestor that      *)
(* records payments, `invoices create`, and the backend, which matches and *)
(* ignores payments and cancels invoices by hand.  Each SQL statement is a *)
(* step.  A statement reads what is committed when it starts and what its  *)
(* own transaction wrote; what a transaction writes is kept in staged      *)
(* until it commits, and the rows it wrote stay locked until then.         *)
(*                                                                         *)
(* A payment is its id.                                                    *)
(***************************************************************************)
EXTENDS Integers, FiniteSetsExt, Relation

CONSTANTS
  MaxPayments,    \* bound: ids of `payments` are 1..MaxPayments
  Invoices,
  Account,        \* of each payment and of each invoice
  Asset,          \* of each payment and of each invoice
  Amount,         \* of each payment and of each invoice
  Keyless,        \* payments whose reference yields no lookup_key
  ByReference,    \* per payment, the invoices whose reference its key names
  ByNumber,       \* per payment, the invoices whose number its key names
  InOrder,        \* do inserts commit in the order they began?
  Engines,        \* processes running `stardex reconcile`
  OnceEngines,    \* those of them that run with --once
  Batch,          \* BATCH
  ByHand,         \* what the backend may do: a subset of {"match", "ignore", "cancel"}
  MaxFailures,    \* bound: crashes and database errors
  None

Payments == 1 .. MaxPayments
Reasons == {"no_reference", "no_invoice", "asset_mismatch", "invoice_cancelled"}

ASSUME ReconcilerAssumption ==
  /\ MaxPayments \in Nat
  /\ \A x \in Payments \cup Invoices : Amount[x] \in Nat
  /\ \A i \in Invoices : Amount[i] > 0
  /\ Keyless \subseteq Payments
  /\ ByReference \in [Payments -> SUBSET Invoices]
  /\ ByNumber \in [Payments -> SUBSET Invoices]
  /\ InOrder \in BOOLEAN
  /\ OnceEngines \subseteq Engines
  /\ Batch \in Nat \ {0}
  /\ MaxFailures \in Nat
  /\ None \notin Invoices \cup Reasons \cup Engines \cup Nat
  /\ Invoices \cap Reasons = {}

VARIABLES
  nextId,            \* the sequence of payments.id
  status, reason,    \* payments: match_status and unmatched_reason
  alloc,             \* payment_allocations: the invoice a payment went to
  standing, received,  \* invoices: status and amount_received
  newer,             \* <<invoice, payment>> with issued_at >= recorded_at
  recent,            \* payments closed within the last 30 days
  cursor,            \* the row of stream_cursors, 0 when there is none
  curLock, payLock, invLock,   \* who holds each row locked for update
  pc, rows, upper,   \* per engine: where tick is, the payments of the pass
  choice, sum,       \* per engine: the decision in hand, recalc_invoice's sum
  staged,            \* per engine: what its transaction wrote
  worked, erred,     \* did this tick do any work, did it fail?
  failures,          \* counts against MaxFailures
  byHand, seen       \* history: payments decided by hand; those a run found

payVars == <<nextId, status, reason, alloc, newer, recent, byHand>>
invVars == <<standing, received>>
locks == <<curLock, payLock, invLock>>
passVars == <<pc, rows, upper, choice, sum, staged>>
tickVars == <<worked, erred, failures, seen>>
engineVars == <<cursor, locks, passVars, tickVars>>
vars == <<payVars, invVars, engineVars>>

Staged == [alloc : [Payments -> Invoices \cup {None}],
           matched : SUBSET Payments,
           reason : [Payments -> Reasons \cup {None}],
           received : [Invoices -> Nat \cup {None}]]

Nothing == [alloc |-> [p \in Payments |-> None],
            matched |-> {},
            reason |-> [p \in Payments |-> None],
            received |-> [i \in Invoices |-> None]]

Places == {"idle", "read", "apply", "allocate", "mark", "recalc", "update", "unmatch",
           "recheck", "done", "failed"}

TypeOK ==
  /\ nextId \in 1 .. MaxPayments + 1
  /\ status \in [Payments -> {"absent", "inserting", "unmatched", "matched", "ignored"}]
  /\ reason \in [Payments -> Reasons \cup {None}]
  /\ alloc \in [Payments -> Invoices \cup {None}]
  /\ standing \in [Invoices -> {"absent", "inserting", "open", "partial", "paid", "overpaid",
                                "cancelled"}]
  /\ received \in [Invoices -> Nat]
  /\ newer \in SUBSET (Invoices \X Payments)
  /\ recent \in SUBSET Payments
  /\ cursor \in 0 .. MaxPayments
  /\ curLock \in Engines \cup {None}
  /\ payLock \in [Payments -> Engines \cup {None}]
  /\ invLock \in [Invoices -> Engines \cup {None}]
  /\ pc \in [Engines -> Places]
  /\ rows \in [Engines -> SUBSET Payments]
  /\ upper \in [Engines -> 0 .. MaxPayments]
  /\ choice \in [Engines -> Invoices \cup Reasons \cup {None}]
  /\ sum \in [Engines -> Nat]
  /\ staged \in [Engines -> Staged]
  /\ worked \in [Engines -> BOOLEAN]
  /\ erred \in [Engines -> BOOLEAN]
  /\ failures \in Nat
  /\ byHand \in SUBSET Payments
  /\ seen \in [Engines -> SUBSET Payments]

Init ==
  /\ nextId = 1
  /\ status = [p \in Payments |-> "absent"]
  /\ reason = [p \in Payments |-> None]
  /\ alloc = [p \in Payments |-> None]
  /\ standing = [i \in Invoices |-> "absent"]
  /\ received = [i \in Invoices |-> 0]
  /\ newer = {} /\ recent = Payments
  /\ cursor = 0
  /\ curLock = None
  /\ payLock = [p \in Payments |-> None]
  /\ invLock = [i \in Invoices |-> None]
  /\ pc = [e \in Engines |-> "idle"]
  /\ rows = [e \in Engines |-> {}]
  /\ upper = [e \in Engines |-> 0]
  /\ choice = [e \in Engines |-> None]
  /\ sum = [e \in Engines |-> 0]
  /\ staged = [e \in Engines |-> Nothing]
  /\ worked = [e \in Engines |-> FALSE]
  /\ erred = [e \in Engines |-> FALSE]
  /\ failures = 0
  /\ byHand = {} /\ seen = [e \in Engines |-> {}]

Recorded == {p \in Payments : status[p] \notin {"absent", "inserting"}}
Issued == {i \in Invoices : standing[i] \notin {"absent", "inserting"}}

-----------------------------------------------------------------------------
(* The ingestor records payments, `invoices create` makes invoices: the id *)
(* is drawn and now() is read when the insert begins, the row is seen when *)
(* it commits.                                                             *)

BeginPayment ==
  /\ nextId \in Payments
  /\ nextId' = nextId + 1
  /\ status' = [status EXCEPT ![nextId] = "inserting"]
  /\ UNCHANGED <<reason, alloc, newer, recent, byHand, invVars, engineVars>>

CommitPayment(p) ==
  /\ status[p] = "inserting"
  /\ InOrder => /\ \A q \in Payments : status[q] = "inserting" => p <= q
                /\ \A i \in Invoices : standing[i] = "inserting" => <<i, p>> \in newer
  /\ status' = [status EXCEPT ![p] = "unmatched"]
  /\ UNCHANGED <<nextId, reason, alloc, newer, recent, byHand, invVars, engineVars>>

(* A failed insert, and one that finds its event recorded, uses up its id. *)
AbortPayment(p) ==
  /\ status[p] = "inserting"
  /\ status' = [status EXCEPT ![p] = "absent"]
  /\ UNCHANGED <<nextId, reason, alloc, newer, recent, byHand, invVars, engineVars>>

BeginInvoice(i) ==
  /\ standing[i] = "absent"
  /\ standing' = [standing EXCEPT ![i] = "inserting"]
  /\ newer' = newer \cup {<<i, p>> : p \in 1 .. nextId - 1}
  /\ UNCHANGED <<nextId, status, reason, alloc, recent, byHand, received, engineVars>>

CommitInvoice(i) ==
  /\ standing[i] = "inserting"
  /\ InOrder => \A p \in Payments : status[p] = "inserting" => <<i, p>> \notin newer
  /\ standing' = [standing EXCEPT ![i] = "open"]
  /\ UNCHANGED <<payVars, received, engineVars>>

(* The number is taken. *)
AbortInvoice(i) ==
  /\ standing[i] = "inserting"
  /\ standing' = [standing EXCEPT ![i] = "absent"]
  /\ newer' = {ip \in newer : ip[1] # i}
  /\ UNCHANGED <<nextId, status, reason, alloc, recent, byHand, received, engineVars>>

(* A payment closes 30 days ago. *)
AgeOut(p) ==
  /\ p \in recent \cap Recorded
  /\ recent' = recent \ {p}
  /\ UNCHANGED <<nextId, status, reason, alloc, newer, byHand, invVars, engineVars>>

-----------------------------------------------------------------------------
(* rules.rs, invoices.rs and 0006_invoices.sql: what is computed.          *)

(* find_invoice: on the payment's account, a reference wins over a number; *)
(* which of several numbers (they are compared without case) is left open. *)
Candidates(p) ==
  LET Here(is) == {i \in is \cap Issued : Account[i] = Account[p]} IN
  IF p \in Keyless THEN {}
  ELSE IF Here(ByReference[p]) # {} THEN Here(ByReference[p]) ELSE Here(ByNumber[p])

Found(p) == IF Candidates(p) = {} THEN {None} ELSE Candidates(p)

(* decide *)
Decide(p, i) ==
  IF p \in Keyless THEN "no_reference"
  ELSE IF i = None THEN "no_invoice"
  ELSE IF standing[i] = "cancelled" THEN "invoice_cancelled"
  ELSE IF Asset[i] # Asset[p] THEN "asset_mismatch"
  ELSE i

Sum(ps) == MapThenSumSet(LAMBDA p : Amount[p], ps)

(* recalc_invoice's case *)
StatusFor(i, total) ==
  IF standing[i] = "cancelled" THEN "cancelled"
  ELSE IF total = 0 THEN "open"
  ELSE IF total < Amount[i] THEN "partial"
  ELSE IF total = Amount[i] THEN "paid"
  ELSE "overpaid"

-----------------------------------------------------------------------------
(* A pass is one transaction; while its engine holds the cursor row it is  *)
(* new_payments_pass, otherwise recheck_pass.                              *)

Goto(e, place) == pc' = [pc EXCEPT ![e] = place]
InNewPass(e) == curLock = e
Free(lock, e) == lock \in {None, e}

(* An allocation not committed yet keeps its payment's entry in the unique *)
(* index, and keeps its invoice from being locked for update.              *)
Entering(e, p) == staged[e].alloc[p] # None
Sharing(e, i) == \E p \in Payments : staged[e].alloc[p] = i
Held(p) == payLock[p] # None \/ \E e \in Engines : Entering(e, p)

(* What a statement inside a transaction leaves alone. *)
committed == <<payVars, invVars, cursor, tickVars>>

(* mutant: the cursor is read without taking its lock *)
CursorAnyway == TRUE

CursorFree == curLock = None

LockCursor(e) ==
  /\ pc[e] = "idle"
  /\ CursorFree
  /\ curLock' = e
  /\ Goto(e, "read")
  /\ UNCHANGED <<committed, payLock, invLock, rows, upper, choice, sum, staged>>

(* The first Batch of ps. *)
FirstOf(ps) == {p \in ps : Cardinality({q \in ps : q <= p}) <= Batch}

(* match_status is read here, and not locked; nothing new commits the      *)
(* transaction here.                                                       *)
ReadPayments(e) ==
  LET new == {p \in Recorded : p > cursor} IN
  /\ pc[e] = "read"
  /\ IF new = {}
       THEN /\ curLock' = None
            /\ Goto(e, "recheck")
            /\ UNCHANGED <<rows, upper>>
       ELSE /\ rows' = [rows EXCEPT ![e] = {p \in FirstOf(new) : status[p] = "unmatched"}]
            /\ upper' = [upper EXCEPT ![e] = Max(FirstOf(new))]
            /\ Goto(e, "apply")
            /\ UNCHANGED curLock
  /\ UNCHANGED <<committed, payLock, invLock, choice, sum, staged>>

(* mutant: a --once run ends after a tick without an error *)
AfterTickOnce(e, error, work) ==
  IF e \notin OnceEngines THEN "idle" ELSE IF error THEN "failed" ELSE "done"

(* run goes round again; run_once returns an error, goes round again while *)
(* there was work, or is done.                                             *)
AfterTick(e, error, work) ==
  CASE e \notin OnceEngines -> "idle"
    [] e \in OnceEngines /\ error -> "failed"
    [] e \in OnceEngines /\ ~error /\ work -> "idle"
    [] OTHER -> "done"

EndTick(e, error, work) ==
  /\ Goto(e, AfterTick(e, error, work))
  /\ worked' = [worked EXCEPT ![e] = FALSE]
  /\ erred' = [erred EXCEPT ![e] = FALSE]
  /\ UNCHANGED seen

(* mutant: an invoice issued before the payment is looked for *)
RecheckableOlder == {p \in recent : /\ status[p] = "unmatched"
                                    /\ reason[p] = "no_invoice"
                                    /\ p <= cursor
                                    /\ \E i \in Issued : /\ Account[i] = Account[p]
                                                         /\ <<i, p>> \notin newer}

(* What recheck_pass selects. *)
Recheckable == {p \in recent : /\ status[p] = "unmatched"
                               /\ reason[p] = "no_invoice"
                               /\ p <= cursor
                               /\ \E i \in Issued : /\ Account[i] = Account[p]
                                                    /\ <<i, p>> \in newer}

(* mutant: for update, without skip locked *)
LockedToo == Payments

(* for update skip locked *)
Unlocked == {p \in Payments : ~Held(p)}

SelectRecheck(e) ==
  LET chosen == FirstOf(Recheckable \cap Unlocked) IN
  /\ pc[e] = "recheck"
  /\ rows' = [rows EXCEPT ![e] = chosen]
  /\ payLock' = [p \in Payments |-> IF p \in chosen THEN e ELSE payLock[p]]
  /\ IF chosen = {}
       THEN EndTick(e, erred[e], worked[e])
       ELSE Goto(e, "apply") /\ UNCHANGED <<worked, erred, seen>>
  /\ UNCHANGED <<payVars, invVars, cursor, curLock, invLock, upper, choice, sum, staged, failures>>

-----------------------------------------------------------------------------
(* apply, for the first of the pass's payments still to do.                *)

Hand(e) == Min(rows[e])
RowDone(e) == rows' = [rows EXCEPT ![e] = @ \ {Hand(e)}]

FindInvoice(e) ==
  /\ pc[e] = "apply"
  /\ rows[e] # {}
  /\ \E i \in Found(Hand(e)) :
       LET decision == Decide(Hand(e), i) IN
       /\ choice' = [choice EXCEPT ![e] = decision]
       /\ Goto(e, IF decision \in Invoices THEN "allocate" ELSE "unmatch")
  /\ UNCHANGED <<committed, locks, rows, upper, sum, staged>>

(* on conflict (payment_id) do nothing *)
Entry(e) == IF alloc[Hand(e)] = None THEN choice[e] ELSE None

InsertAllocation(e) ==
  /\ pc[e] = "allocate"
  /\ \A f \in Engines \ {e} : ~Entering(f, Hand(e))
  /\ Entry(e) # None => Free(invLock[choice[e]], e)
  /\ staged' = [staged EXCEPT ![e].alloc[Hand(e)] = Entry(e)]
  /\ Goto(e, "mark")
  /\ UNCHANGED <<committed, locks, rows, upper, choice, sum>>

(* mutant: the row is marked only if it is still unmatched *)
MarkedIf(e) == {p \in {Hand(e)} : status[p] = "unmatched"}

Marked(e) == {Hand(e)}

(* update payments set match_status = 'matched' where id = $1 *)
MarkMatched(e) ==
  /\ pc[e] = "mark"
  /\ Free(payLock[Hand(e)], e)
  /\ payLock' = [payLock EXCEPT ![Hand(e)] = e]
  /\ staged' = [staged EXCEPT ![e].matched = @ \cup Marked(e)]
  /\ Goto(e, "recalc")
  /\ UNCHANGED <<committed, curLock, invLock, rows, upper, choice, sum>>

(* The payments allocated to i that e's transaction sees. *)
Allocated(e, i) == {p \in Payments : i \in {alloc[p], staged[e].alloc[p]}}

(* mutant: the invoice is read without for update *)
InvoiceAnyway(e, i) == TRUE

InvoiceFree(e, i) == Free(invLock[i], e) /\ \A f \in Engines \ {e} : ~Sharing(f, i)

(* recalc_invoice: select .. for update, then the sum. *)
LockInvoice(e) ==
  LET i == choice[e] IN
  /\ pc[e] = "recalc"
  /\ InvoiceFree(e, i)
  /\ invLock' = [invLock EXCEPT ![i] = e]
  /\ sum' = [sum EXCEPT ![e] = Sum(Allocated(e, i))]
  /\ Goto(e, "update")
  /\ UNCHANGED <<committed, curLock, payLock, rows, upper, choice, staged>>

(* recalc_invoice: the update; apply returns. *)
UpdateInvoice(e) ==
  LET i == choice[e] IN
  /\ pc[e] = "update"
  /\ Free(invLock[i], e)
  /\ invLock' = [invLock EXCEPT ![i] = e]
  /\ staged' = [staged EXCEPT ![e].received[i] = sum[e]]
  /\ RowDone(e)
  /\ Goto(e, "apply")
  /\ UNCHANGED <<committed, curLock, payLock, upper, choice, sum>>

(* update payments set unmatched_reason .. and match_status = 'unmatched' *)
MarkUnmatched(e) ==
  LET p == Hand(e) IN
  /\ pc[e] = "unmatch"
  /\ Free(payLock[p], e)
  /\ IF status[p] = "unmatched"
       THEN /\ payLock' = [payLock EXCEPT ![p] = e]
            /\ staged' = [staged EXCEPT ![e].reason[p] = choice[e]]
       ELSE UNCHANGED <<payLock, staged>>
  /\ RowDone(e)
  /\ Goto(e, "apply")
  /\ UNCHANGED <<committed, curLock, invLock, upper, choice, sum>>

(* The transaction ends: its locks are released, nothing stays staged. *)
EndPass(e) ==
  /\ rows' = [rows EXCEPT ![e] = {}]
  /\ staged' = [staged EXCEPT ![e] = Nothing]
  /\ choice' = [choice EXCEPT ![e] = None]
  /\ sum' = [sum EXCEPT ![e] = 0]
  /\ upper' = [upper EXCEPT ![e] = 0]
  /\ curLock' = IF curLock = e THEN None ELSE curLock
  /\ payLock' = [p \in Payments |-> IF payLock[p] = e THEN None ELSE payLock[p]]
  /\ invLock' = [i \in Invoices |-> IF invLock[i] = e THEN None ELSE invLock[i]]

(* mutant: the cursor moves past the last payment read *)
UpperNext(e) == IF InNewPass(e) THEN upper[e] + 1 ELSE cursor

(* mutant: the cursor moves to the newest payment, not the last one read *)
NewestRecorded(e) == IF InNewPass(e) THEN Max(Recorded) ELSE cursor

(* update stream_cursors set last_event_id, in new_payments_pass only *)
Upper(e) == IF InNewPass(e) THEN upper[e] ELSE cursor

CommitPass(e) ==
  LET w == staged[e] IN
  /\ pc[e] = "apply"
  /\ rows[e] = {}
  /\ status' = [p \in Payments |-> IF p \in w.matched THEN "matched" ELSE status[p]]
  /\ reason' = [p \in Payments |-> IF p \in w.matched THEN None
                                   ELSE IF w.reason[p] # None THEN w.reason[p] ELSE reason[p]]
  /\ alloc' = [p \in Payments |-> IF w.alloc[p] # None THEN w.alloc[p] ELSE alloc[p]]
  /\ received' = [i \in Invoices |-> IF w.received[i] # None THEN w.received[i] ELSE received[i]]
  /\ standing' = [i \in Invoices |-> IF w.received[i] # None
                                       THEN StatusFor(i, w.received[i]) ELSE standing[i]]
  /\ cursor' = Upper(e)
  /\ EndPass(e)
  /\ IF InNewPass(e)
       THEN /\ Goto(e, "recheck")
            /\ worked' = [worked EXCEPT ![e] = TRUE]
            /\ UNCHANGED <<erred, seen>>
       ELSE EndTick(e, erred[e], worked[e] \/ w.matched # {})
  /\ UNCHANGED <<nextId, newer, recent, byHand, failures>>

(* A pass rolls back: after new_payments_pass, recheck_pass is still run. *)
RollBack(e) ==
  /\ EndPass(e)
  /\ IF InNewPass(e)
       THEN /\ Goto(e, "recheck")
            /\ erred' = [erred EXCEPT ![e] = TRUE]
            /\ UNCHANGED <<worked, seen>>
       ELSE EndTick(e, TRUE, worked[e])
  /\ UNCHANGED <<payVars, invVars, cursor>>

PassFails(e) ==
  /\ pc[e] \notin {"idle", "done", "failed"}
  /\ failures < MaxFailures
  /\ failures' = failures + 1
  /\ RollBack(e)

(* e waits for a row f has locked, or for f's entry to be committed. *)
WaitsFor(e, f) ==
  /\ e # f
  /\ \/ pc[e] = "allocate" /\ Entering(f, Hand(e))
     \/ pc[e] = "allocate" /\ Entry(e) # None /\ invLock[choice[e]] = f
     \/ pc[e] \in {"mark", "unmatch"} /\ payLock[Hand(e)] = f
     \/ pc[e] = "recalc" /\ (invLock[choice[e]] = f \/ Sharing(f, choice[e]))

(* PostgreSQL ends one of the transactions that wait for each other. *)
BreakDeadlock(e) ==
  LET waits == [ef \in Engines \X Engines |-> WaitsFor(ef[1], ef[2])] IN
  /\ TransitiveClosure(waits, Engines)[e, e]
  /\ RollBack(e)
  /\ UNCHANGED failures

(* A new process; history: a --once run is told what it finds. *)
BeginRun(e) ==
  /\ EndPass(e)
  /\ Goto(e, "idle")
  /\ worked' = [worked EXCEPT ![e] = FALSE]
  /\ erred' = [erred EXCEPT ![e] = FALSE]
  /\ seen' = [seen EXCEPT ![e] = IF e \in OnceEngines THEN Recorded ELSE {}]
  /\ UNCHANGED <<payVars, invVars, cursor>>

Crash(e) ==
  /\ pc[e] \notin {"idle", "done", "failed"}
  /\ failures < MaxFailures
  /\ failures' = failures + 1
  /\ BeginRun(e)

(* The next scheduled `reconcile --once`. *)
RunAgain(e) ==
  /\ pc[e] \in {"done", "failed"}
  /\ BeginRun(e)
  /\ UNCHANGED failures

-----------------------------------------------------------------------------
(* The backend: each a transaction of its own that waits for no one.       *)

(* Matches p to i: an allocation, the status, recalc_invoice(i). *)
MatchByHand(p, i) ==
  /\ "match" \in ByHand
  /\ status[p] = "unmatched" /\ ~Held(p)
  /\ i \in Issued /\ standing[i] # "cancelled"
  /\ invLock[i] = None /\ \A e \in Engines : ~Sharing(e, i)
  /\ alloc' = [alloc EXCEPT ![p] = i]
  /\ status' = [status EXCEPT ![p] = "matched"]
  /\ reason' = [reason EXCEPT ![p] = None]
  /\ LET total == Sum({q \in Payments : alloc'[q] = i}) IN
       /\ received' = [received EXCEPT ![i] = total]
       /\ standing' = [standing EXCEPT ![i] = StatusFor(i, total)]
  /\ byHand' = byHand \cup {p}
  /\ UNCHANGED <<nextId, newer, recent, engineVars>>

IgnoreByHand(p) ==
  /\ "ignore" \in ByHand
  /\ status[p] = "unmatched" /\ payLock[p] = None
  /\ status' = [status EXCEPT ![p] = "ignored"]
  /\ byHand' = byHand \cup {p}
  /\ UNCHANGED <<nextId, reason, alloc, newer, recent, invVars, engineVars>>

CancelByHand(i) ==
  /\ "cancel" \in ByHand
  /\ i \in Issued /\ standing[i] # "cancelled" /\ invLock[i] = None
  /\ standing' = [standing EXCEPT ![i] = "cancelled"]
  /\ UNCHANGED <<payVars, received, engineVars>>

-----------------------------------------------------------------------------
Apply(e) == \/ FindInvoice(e) \/ InsertAllocation(e) \/ MarkMatched(e)
            \/ LockInvoice(e) \/ UpdateInvoice(e) \/ MarkUnmatched(e)

Step(e) == \/ LockCursor(e) \/ ReadPayments(e) \/ SelectRecheck(e)
           \/ Apply(e) \/ CommitPass(e) \/ BreakDeadlock(e) \/ RunAgain(e)

Next ==
  \/ BeginPayment
  \/ \E p \in Payments : CommitPayment(p) \/ AbortPayment(p) \/ AgeOut(p)
  \/ \E i \in Invoices : BeginInvoice(i) \/ CommitInvoice(i) \/ AbortInvoice(i)
  \/ \E e \in Engines : Step(e) \/ PassFails(e) \/ Crash(e)
  \/ \E p \in Payments, i \in Invoices : MatchByHand(p, i)
  \/ \E p \in Payments : IgnoreByHand(p)
  \/ \E i \in Invoices : CancelByHand(i)

Spec == Init /\ [][Next]_vars

(* The runtime keeps polling every engine, and PostgreSQL wakes the         *)
(* transaction that waits for an invoice when a deadlock is broken; the    *)
(* engine that lost sleeps before it tries again.  Nothing else must       *)
(* happen.                                                                 *)
Fairness == \A e \in Engines : WF_vars(Step(e)) /\ SF_vars(LockInvoice(e))

LiveSpec == Spec /\ Fairness

-----------------------------------------------------------------------------
(* Properties.                                                             *)

(* Whatever passes of several engines, hands, crashes and rollbacks        *)
(* interleave, an invoice has received exactly what is allocated to it,    *)
(* and stands accordingly unless it was cancelled.                         *)
ReceivedIsAllocated ==
  \A i \in Issued :
    /\ received[i] = Sum({p \in Payments : alloc[p] = i})
    /\ standing[i] = StatusFor(i, received[i])

(* A payment is matched exactly when it is allocated, though the status,   *)
(* the allocation and what is done by hand are separate statements.        *)
MatchedIsAllocated == \A p \in Payments : status[p] = "matched" <=> alloc[p] # None

(* No two passes work on one payment: the cursor lock keeps new payments   *)
(* to one pass, `skip locked` the rechecked ones, the cursor itself keeps  *)
(* the two kinds apart.                                                    *)
OnePassPerPayment ==
  \A e, f \in Engines : e # f => rows[e] \cap rows[f] = {}

(* Passes wait for each other over invoices alone: no pass ever finds a    *)
(* payment of its own, or the entry of one, in the hands of another.       *)
WaitsOverInvoices ==
  \A e, f \in Engines : WaitsFor(e, f) =>
    /\ pc[e] \in {"allocate", "recalc"}
    /\ invLock[choice[e]] = f \/ Sharing(f, choice[e])

(* engine.rs, recheck_pass: "A payment can arrive before its invoice is    *)
(* created".  A payment left no_invoice that an invoice names by now is    *)
(* one the recheck selects: its invoice was not there because it began     *)
(* later, which is what issued_at >= recorded_at is taken to say.          *)
NoneStranded ==
  \A p \in recent : status[p] = "unmatched" /\ reason[p] = "no_invoice" /\ Candidates(p) # {}
    => p \in Recheckable

(* engine.rs, new_payments_pass: "the cursor only moves in the same        *)
(* transaction as the decisions, so none is skipped".                      *)
NoneSkipped ==
  \A p \in Recorded : p <= cursor => status[p] # "unmatched" \/ reason[p] # None

(* engine.rs, run_once: "match everything currently waiting, then return": *)
(* a payment it found has been decided by then.                            *)
OnceDecides ==
  \A e \in Engines : pc[e] = "done" =>
    \A p \in seen[e] : status[p] # "unmatched" \/ reason[p] # None

(* The engine may match p. *)
Payable(p) ==
  /\ p \in recent \cap Recorded
  /\ status[p] = "unmatched"
  /\ \A i \in Found(p) : Decide(p, i) \in Invoices

(* A recent payment whose invoice exists, before or after it, is matched,  *)
(* through deadlocks and failed passes, unless that changes.               *)
EveryPayableMatches == \A p \in Payments : Payable(p) ~> ~Payable(p)

(* docs/reconciliation.md: "payments that someone matched or ignored by    *)
(* hand are never touched by the engine".                                  *)
HandDecisionsStand ==
  [][\A p \in byHand : status'[p] = status[p] /\ alloc'[p] = alloc[p]]_vars

-----------------------------------------------------------------------------
(* Refinement: payments, allocations and invoices are a Settlement.        *)

Books == INSTANCE Settlement WITH
           settles <- alloc,
           received <- received,
           standing <- [i \in Invoices |->
                          IF standing[i] = "inserting" THEN "absent" ELSE standing[i]]

ImplementsSettlement == Books!Spec
=============================================================================
