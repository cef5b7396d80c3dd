-------------------------- MODULE SettlementProofs --------------------------
(***************************************************************************)
(* What Reconciler promises of invoices, for every value of its constants  *)
(* that meets ReconcilerAssumption: an invoice has received what is        *)
(* allocated to it, and the tables are a Settlement.                       *)
(***************************************************************************)
EXTENDS ReconcilerProofs

-----------------------------------------------------------------------------
(* The fold behind Sum: what it adds for a set, given its smaller ones.    *)
First(s) == CHOOSE p \in s : TRUE
Adds(f, s) == IF s = {} THEN 0 ELSE Amount[First(s)] + f[s \ {First(s)}]
Fold(f, S) == f = [s \in SUBSET S |-> Adds(f, s)]

LEMMA SumIsFold ==
  ASSUME NEW S
  PROVE  Sum(S) = (CHOOSE f : Fold(f, S))[S]
BY Zenon DEF Sum, MapThenSumSet, MapThenFoldSet, Fold, Adds, First

Small(S, n) == {s \in SUBSET S : Cardinality(s) <= n}
FoldUpTo(S, n) == \E f \in [Small(S, n) -> Nat] : \A s \in Small(S, n) : f[s] = Adds(f, s)

LEMMA SmallerBy ==
  ASSUME NEW S \in SUBSET Payments, NEW s \in SUBSET S, s # {}
  PROVE  /\ First(s) \in s /\ s \ {First(s)} \in SUBSET S
         /\ Cardinality(s) \in Nat /\ Cardinality(s \ {First(s)}) \in Nat
         /\ Cardinality(s \ {First(s)}) = Cardinality(s) - 1
         /\ Amount[First(s)] \in Nat
<1>1. First(s) \in s
  BY Zenon DEF First
<1>2. IsFiniteSet(s)
  <2>1. IsFiniteSet(1 .. MaxPayments)
    BY FS_Interval, ReconcilerAssumption
  <2> QED BY <2>1, FS_Subset, Zenon DEF Payments
<1>3. Cardinality(s) \in Nat /\ Cardinality(s \ {First(s)}) = Cardinality(s) - 1
  BY <1>1, <1>2, FS_RemoveElement, FS_CardinalityType
<1>4. Cardinality(s \ {First(s)}) \in Nat
  BY <1>2, FS_Subset, FS_CardinalityType
<1>5. Amount[First(s)] \in Nat
  BY <1>1, ReconcilerAssumption
<1> QED BY <1>1, <1>3, <1>4, <1>5

LEMMA FoldNone == ASSUME NEW S \in SUBSET Payments PROVE FoldUpTo(S, 0)
<1>1. ASSUME NEW s \in Small(S, 0) PROVE s = {}
  <2> SUFFICES ASSUME s # {} PROVE FALSE
    OBVIOUS
  <2>1. s \in SUBSET S /\ Cardinality(s) <= 0
    BY DEF Small
  <2>2. /\ Cardinality(s) \in Nat /\ Cardinality(s \ {First(s)}) \in Nat
        /\ Cardinality(s \ {First(s)}) = Cardinality(s) - 1
    BY <2>1, SmallerBy
  <2> QED BY <2>1, <2>2
<1> DEFINE f == [s \in Small(S, 0) |-> 0]
<1>2. f \in [Small(S, 0) -> Nat] /\ \A s \in Small(S, 0) : f[s] = 0
  OBVIOUS
<1> HIDE DEF f
<1> QED BY <1>1, <1>2 DEF FoldUpTo, Adds

LEMMA FoldMore ==
  ASSUME NEW S \in SUBSET Payments, NEW n \in Nat, FoldUpTo(S, n)
  PROVE  FoldUpTo(S, n + 1)
<1>1. PICK f \in [Small(S, n) -> Nat] : \A s \in Small(S, n) : f[s] = Adds(f, s)
  BY DEF FoldUpTo
<1> DEFINE g == [s \in Small(S, n + 1) |-> Adds(f, s)]
<1>2. \A s \in Small(S, n + 1) : s # {} => s \ {First(s)} \in Small(S, n)
  <2> SUFFICES ASSUME NEW s \in Small(S, n + 1), s # {} PROVE s \ {First(s)} \in Small(S, n)
    OBVIOUS
  <2>1. s \in SUBSET S /\ Cardinality(s) <= n + 1
    BY DEF Small
  <2>2. /\ s \ {First(s)} \in SUBSET S
        /\ Cardinality(s) \in Nat /\ Cardinality(s \ {First(s)}) = Cardinality(s) - 1
    BY <2>1, SmallerBy
  <2> QED BY <2>1, <2>2 DEF Small
<1>3. g \in [Small(S, n + 1) -> Nat]
  <2>1. ASSUME NEW s \in Small(S, n + 1) PROVE Adds(f, s) \in Nat
    <3>1. CASE s # {}
      <4>1. Amount[First(s)] \in Nat
        BY <3>1, SmallerBy DEF Small
      <4>2. f[s \ {First(s)}] \in Nat
        BY <1>2, <3>1
      <4> QED BY <4>1, <4>2 DEF Adds
    <3> QED BY <3>1 DEF Adds
  <2> QED BY <2>1
<1>4. \A s \in Small(S, n) : s \in Small(S, n + 1) /\ g[s] = f[s]
  <2> SUFFICES ASSUME NEW s \in Small(S, n) PROVE s \in Small(S, n + 1) /\ g[s] = f[s]
    OBVIOUS
  <2>1. Cardinality(s) \in Nat
    <3>1. CASE s = {}
      BY <3>1, FS_EmptySet
    <3>2. CASE s # {}
      BY <3>2, SmallerBy DEF Small
    <3> QED BY <3>1, <3>2
  <2>2. s \in Small(S, n + 1)
    BY <2>1 DEF Small
  <2> QED BY <1>1, <2>2
<1>5. ASSUME NEW s \in Small(S, n + 1) PROVE g[s] = Adds(g, s)
  <2>1. g[s] = Adds(f, s)
    OBVIOUS
  <2> HIDE DEF g
  <2> QED BY <1>2, <1>4, <2>1 DEF Adds
<1> HIDE DEF g
<1> QED BY <1>3, <1>5 DEF FoldUpTo

LEMMA FoldAll == ASSUME NEW S \in SUBSET Payments, NEW n \in Nat PROVE FoldUpTo(S, n)
<1> DEFINE Bad == {k \in Nat : ~FoldUpTo(S, k)}
<1> SUFFICES ASSUME Bad # {} PROVE FALSE
  OBVIOUS
<1>1. Bad \in SUBSET Nat
  OBVIOUS
<1> HIDE DEF Bad
<1>2. PICK k \in Bad : \A j \in Bad : k <= j
  BY <1>1, LeastNatural
<1>3. k \in Nat /\ ~FoldUpTo(S, k)
  BY <1>2 DEF Bad
<1>4. k # 0
  BY <1>3, FoldNone
<1>5. k - 1 \in Nat /\ ~(k <= k - 1) /\ (k - 1) + 1 = k
  BY <1>3, <1>4
<1>6. FoldUpTo(S, k - 1)
  BY <1>2, <1>5 DEF Bad
<1>7. FoldUpTo(S, (k - 1) + 1)
  BY <1>5, <1>6, FoldMore
<1> QED BY <1>3, <1>5, <1>7

(* Sums of amounts are amounts.                                            *)
LEMMA SumNat == ASSUME NEW S \in SUBSET Payments PROVE Sum(S) \in Nat
<1> DEFINE c == CHOOSE f : Fold(f, S)
<1>1. IsFiniteSet(S)
  <2>1. IsFiniteSet(1 .. MaxPayments)
    BY FS_Interval, ReconcilerAssumption
  <2> QED BY <2>1, FS_Subset, Zenon DEF Payments
<1>2. Small(S, Cardinality(S)) = SUBSET S /\ Cardinality(S) \in Nat
  <2>1. \A s \in SUBSET S : Cardinality(s) <= Cardinality(S)
    BY <1>1, FS_Subset
  <2>2. Cardinality(S) \in Nat
    BY <1>1, FS_CardinalityType
  <2>3. \A s \in SUBSET S : s \in Small(S, Cardinality(S))
    BY <2>1, Zenon DEF Small
  <2>4. Small(S, Cardinality(S)) \subseteq SUBSET S
    BY DEF Small
  <2> QED BY <2>2, <2>3, <2>4
<1>3. PICK g \in [SUBSET S -> Nat] : \A s \in SUBSET S : g[s] = Adds(g, s)
  <2> DEFINE n == Cardinality(S)
  <2>1. n \in Nat /\ Small(S, n) = SUBSET S
    BY <1>2
  <2> HIDE DEF n
  <2>2. FoldUpTo(S, n)
    BY <2>1, FoldAll
  <2> QED BY <2>1, <2>2, Zenon DEF FoldUpTo
<1>4. g = [s \in SUBSET S |-> Adds(g, s)]
  BY <1>3
<1>5. Fold(c, S)
  BY <1>4, Zenon DEF Fold
<1> HIDE DEF c
<1>6. \A s \in SUBSET S : c[s] = Adds(c, s)
  BY <1>5 DEF Fold
<1> DEFINE Bad == {n \in Nat : \E s \in SUBSET S : Cardinality(s) = n /\ c[s] # g[s]}
<1>7. Bad = {}
  <2> SUFFICES ASSUME Bad # {} PROVE FALSE
    OBVIOUS
  <2>1. Bad \in SUBSET Nat
    OBVIOUS
  <2> HIDE DEF Bad
  <2>2. PICK n \in Bad : \A m \in Bad : n <= m
    BY <2>1, LeastNatural
  <2>3. PICK s \in SUBSET S : Cardinality(s) = n /\ c[s] # g[s]
    BY <2>2 DEF Bad
  <2>4. s # {}
    BY <1>3, <1>6, <2>3 DEF Adds
  <2> DEFINE t == s \ {First(s)}
  <2>5. t \in SUBSET S /\ Cardinality(t) \in Nat /\ Cardinality(t) = n - 1 /\ n \in Nat
    BY <2>3, <2>4, SmallerBy
  <2>6. c[s] = Amount[First(s)] + c[t] /\ g[s] = Amount[First(s)] + g[t]
    BY <1>3, <1>6, <2>4 DEF Adds
  <2> HIDE DEF t
  <2>7. c[t] # g[t]
    BY <2>3, <2>6
  <2>8. n - 1 \in Bad
    BY <2>5, <2>7 DEF Bad
  <2> QED BY <2>2, <2>5, <2>8
<1>8. S \in SUBSET S
  OBVIOUS
<1>9. c[S] = g[S]
  BY <1>2, <1>7, <1>8
<1>10. Sum(S) = c[S]
  BY SumIsFold DEF c
<1> QED BY <1>3, <1>8, <1>9, <1>10

LEMMA SumEmpty == Sum({}) = 0
<1> DEFINE c == CHOOSE f : Fold(f, {})
           g == [s \in {{}} |-> 0]
<1>1. SUBSET {} = {{}}
  OBVIOUS
<1>2. g = [s \in SUBSET {} |-> Adds(g, s)]
  BY <1>1 DEF Adds
<1>3. Fold(c, {})
  BY <1>2, Zenon DEF Fold
<1> HIDE DEF c
<1>4. c[{}] = Adds(c, {})
  BY <1>3 DEF Fold
<1>5. Sum({}) = c[{}]
  BY SumIsFold DEF c
<1> QED BY <1>4, <1>5 DEF Adds

-----------------------------------------------------------------------------
(* Types of what ReconcilerProofs leaves out: amounts and invoices.        *)

Standings == {"absent", "inserting", "open", "partial", "paid", "overpaid", "cancelled"}

InvoiceBase ==
  /\ standing \in [Invoices -> Standings]
  /\ received \in [Invoices -> Nat]
  /\ invLock \in [Invoices -> Engines \cup {None}]
  /\ sum \in [Engines -> Nat]
  /\ \A e \in Engines : staged[e].received \in [Invoices -> Nat \cup {None}]

HistoryBase ==
  /\ newer \in SUBSET (Invoices \X Payments)
  /\ recent \in SUBSET Payments
  /\ failures \in Nat
  /\ byHand \in SUBSET Payments

(* Between its allocation and the update of its invoice, the total of the  *)
(* invoice in hand is out of date.                                         *)
Counting == {"mark", "recalc", "update"}

(* An entry is the only one for its payment, and rows still to do have     *)
(* none but the row in hand.                                               *)
Entries(e) ==
  /\ \A p \in Payments : staged[e].alloc[p] # None =>
       /\ alloc[p] = None
       /\ \A f \in Engines \ {e} : staged[f].alloc[p] = None
  /\ \A p \in rows[e] : staged[e].alloc[p] # None => p = Hand(e) /\ pc[e] \in Counting

(* A total stays right until it is committed because its invoice is locked *)
(* and nobody else has an entry for it.                                    *)
Locks(e) ==
  /\ \A i \in Invoices : staged[e].received[i] # None => invLock[i] = e
  /\ pc[e] = "update" => invLock[choice[e]] = e
  /\ \A i \in Invoices : invLock[i] = e =>
       \A f \in Engines \ {e} : \A p \in Payments : staged[f].alloc[p] # i

InHand(e, i) == pc[e] \in Counting /\ choice[e] = i

Totals(e) ==
  /\ \A i \in Invoices : ~InHand(e, i) =>
       /\ staged[e].received[i] = None => \A p \in Payments : staged[e].alloc[p] # i
       /\ staged[e].received[i] # None => staged[e].received[i] = Sum(Allocated(e, i))
  /\ pc[e] = "update" => sum[e] = Sum(Allocated(e, choice[e]))

(* Nothing is made of an invoice before it is there.                       *)
Untouched(i) ==
  /\ received[i] = 0
  /\ \A p \in Payments : alloc[p] # i
  /\ \A e \in Engines : /\ choice[e] # i /\ staged[e].received[i] = None
                        /\ \A p \in Payments : staged[e].alloc[p] # i

Unissued == \A i \in Invoices \ Issued : Untouched(i)

LedgerInv ==
  /\ InvoiceBase /\ ReceivedIsAllocated /\ Unissued
  /\ \A e \in Engines : Entries(e) /\ Locks(e) /\ Totals(e)

IInv == Base /\ BookInv /\ LedgerInv

-----------------------------------------------------------------------------
(* An engine's ledger through the steps of others: they enter nothing for  *)
(* an invoice it has locked, nor for a payment it has entered.             *)

(* What happened to the allocations and the entries of others is no matter *)
(* to f.                                                                   *)
Clear(f) ==
  /\ \A i \in Invoices : invLock'[i] = f <=> invLock[i] = f
  /\ \A p \in Payments :
       alloc'[p] = alloc[p] \/ (/\ alloc[p] = None /\ staged[f].alloc[p] = None
                                /\ \A i \in Invoices : invLock[i] = f => alloc'[p] # i)
  /\ \A g \in Engines \ {f}, p \in Payments :
       staged'[g].alloc[p] \in {staged[g].alloc[p], None}
         \/ (/\ staged[f].alloc[p] = None
             /\ \A i \in Invoices : invLock[i] = f => staged'[g].alloc[p] # i)

OwnKept(f) == UNCHANGED <<pc[f], rows[f], staged[f], choice[f], sum[f]>>

Ledger(f) == Entries(f) /\ Locks(f) /\ Totals(f)

LEMMA LedgerKept ==
  ASSUME Base, NEW f \in Engines, Ledger(f), Clear(f), OwnKept(f)
  PROVE  Ledger(f)'
<1>1. UNCHANGED <<pc[f], rows[f], staged[f], choice[f], sum[f]>> /\ Hand(f)' = Hand(f)
  BY DEF OwnKept, Hand
<1>2. /\ Entries(f) /\ Locks(f) /\ Totals(f) /\ Place(f) /\ rows[f] \subseteq Payments
      /\ None \notin Invoices
  BY ReconcilerAssumption DEF Ledger, Base, EngineBase
<1>3. Entries(f)'
  <2>1. ASSUME NEW p \in Payments, staged[f].alloc[p] # None
        PROVE  alloc'[p] = None /\ \A g \in Engines \ {f} : staged'[g].alloc[p] = None
    BY <1>2, <2>1 DEF Entries, Clear
  <2> QED BY <1>1, <1>2, <2>1 DEF Entries
<1>4. Locks(f)'
  <2>1. ASSUME NEW i \in Invoices, invLock[i] = f, NEW g \in Engines \ {f}, NEW p \in Payments
        PROVE  staged'[g].alloc[p] # i
    BY <1>2, <2>1 DEF Locks, Clear
  <2>2. pc[f] = "update" => choice[f] \in Invoices
    BY <1>2 DEF Place, AtRow
  <2> QED BY <1>1, <1>2, <2>1, <2>2 DEF Locks, Clear
<1>5. ASSUME NEW i \in Invoices, invLock[i] = f PROVE Allocated(f, i)' = Allocated(f, i)
  <2>1. ASSUME NEW p \in Payments PROVE i \in {alloc'[p], staged'[f].alloc[p]} <=>
                                        i \in {alloc[p], staged[f].alloc[p]}
    BY <1>1, <1>2, <1>5, <2>1 DEF Clear
  <2> QED BY <2>1 DEF Allocated
<1>6. Totals(f)'
  <2>1. \A i \in Invoices : InHand(f, i)' <=> InHand(f, i)
    BY <1>1 DEF InHand
  <2>2. pc[f] = "update" => choice[f] \in Invoices /\ invLock[choice[f]] = f
    BY <1>2 DEF Place, AtRow, Locks
  <2>3. \A i \in Invoices : staged[f].received[i] # None => Allocated(f, i)' = Allocated(f, i)
    BY <1>2, <1>5 DEF Locks
  <2>4. pc[f] = "update" => Allocated(f, choice[f])' = Allocated(f, choice[f])
    <3>1. SUFFICES ASSUME pc[f] = "update" PROVE Allocated(f, choice[f])' = Allocated(f, choice[f])
      OBVIOUS
    <3>2. Allocated(f, choice[f])' = {p \in Payments : choice[f] \in {alloc'[p], staged'[f].alloc[p]}}
      BY <1>1 DEF Allocated
    <3>3. \A i \in Invoices : i = choice[f] =>
            {p \in Payments : i \in {alloc'[p], staged'[f].alloc[p]}} = Allocated(f, i)
      BY <1>5, <2>2, <3>1 DEF Allocated
    <3> QED BY <2>2, <3>1, <3>2, <3>3
  <2>5. \A i \in Invoices : ~InHand(f, i)' =>
          /\ staged'[f].received[i] = None => \A p \in Payments : staged'[f].alloc[p] # i
          /\ staged'[f].received[i] # None => staged'[f].received[i] = Sum(Allocated(f, i)')
    BY <1>1, <1>2, <2>1, <2>3 DEF Totals
  <2>6. pc'[f] = "update" => sum'[f] = Sum(Allocated(f, choice[f])')
    BY <1>1, <1>2, <2>4 DEF Totals
  <2> QED BY <2>5, <2>6 DEF Totals
<1> QED BY <1>3, <1>4, <1>6 DEF Ledger

(* An engine that has entered nothing.                                     *)
LEMMA LedgerBlank ==
  ASSUME NEW e \in Engines, staged'[e] = Nothing, pc'[e] \notin Counting, rows'[e] \subseteq Payments,
         \A i \in Invoices : invLock'[i] # e
           \/ \A f \in Engines \ {e} : \A p \in Payments : staged'[f].alloc[p] # i
  PROVE  Ledger(e)'
<1>1. /\ \A p \in Payments : staged'[e].alloc[p] = None
      /\ \A i \in Invoices : staged'[e].received[i] = None
  BY DEF Nothing
<1>2. None \notin Invoices /\ pc'[e] # "update"
  BY ReconcilerAssumption DEF Counting
<1>3. Entries(e)'
  <2>1. \A p \in rows'[e] : staged'[e].alloc[p] # None => FALSE
    BY <1>1
  <2> QED BY <1>1, <2>1 DEF Entries
<1>4. Locks(e)'
  BY <1>1, <1>2 DEF Locks
<1>5. Totals(e)'
  BY <1>1, <1>2 DEF Totals
<1> QED BY <1>3, <1>4, <1>5 DEF Ledger

-----------------------------------------------------------------------------
(* The steps of apply.                                                     *)

(* What a step that commits nothing keeps, and leaves to the others.       *)
Uncommitted(e) ==
  /\ Ledger(e)' /\ InvoiceBase'
  /\ \A f \in Engines \ {e} : Clear(f) /\ OwnKept(f)
  /\ \A i \in Invoices \ Issued : /\ choice'[e] # i /\ staged'[e].received[i] = None
                                  /\ \A p \in Payments : staged'[e].alloc[p] # i
  /\ UNCHANGED <<alloc, standing, received>>

(* What is known before it.                                                *)
LEMMA Known ==
  ASSUME IInv, NEW e \in Engines
  PROVE  /\ EngineBase /\ Place(e) /\ Shape(staged[e]) /\ rows[e] \subseteq Payments
         /\ staged[e].received \in [Invoices -> Nat \cup {None}]
         /\ InvoiceBase /\ Entries(e) /\ Locks(e) /\ Totals(e)
         /\ \A i \in Invoices \ Issued :
              /\ choice[e] # i /\ staged[e].received[i] = None
              /\ \A p \in Payments : staged[e].alloc[p] # i
         /\ None \notin Invoices \cup Nat \cup Engines
         /\ rows[e] # {} => Hand(e) \in rows[e] /\ Hand(e) \in Payments
BY HandIn, ReconcilerAssumption
   DEF IInv, Base, EngineBase, StagedShape, LedgerInv, InvoiceBase, Unissued, Untouched

LEMMA DecideIssued ==
  ASSUME NEW p, NEW i \in Found(p), Decide(p, i) \in Invoices
  PROVE  Decide(p, i) \in Issued
<1>1. Reasons \cap Invoices = {} /\ i \in Issued \cup {None}
  BY ReconcilerAssumption DEF Found, Candidates
<1>2. Decide(p, i) \in Reasons \/ (Decide(p, i) = i /\ i # None)
  BY DEF Decide, Reasons
<1> QED BY <1>1, <1>2

LEMMA FindInvoiceLedger ==
  ASSUME IInv, NEW e \in Engines, FindInvoice(e)
  PROVE  Uncommitted(e)
<1> USE DEF committed, payVars, invVars, tickVars, locks
<1>1. /\ EngineBase /\ InvoiceBase /\ Entries(e) /\ Locks(e) /\ Totals(e)
      /\ \A i \in Invoices \ Issued :
           /\ staged[e].received[i] = None
           /\ \A p \in Payments : staged[e].alloc[p] # i
  BY Known
<1>2. /\ OthersKept(e) /\ pc[e] = "apply" /\ pc'[e] \in {"allocate", "unmatch"}
      /\ UNCHANGED <<rows, staged>>
  BY FindInvoiceEffect DEF IInv, InPass
<1>3. UNCHANGED <<alloc, standing, received, invLock, sum>> /\ Hand(e)' = Hand(e)
  BY <1>2 DEF FindInvoice, Hand
<1>4. \A i \in Invoices : i \notin Issued => choice'[e] # i
  <2>1. PICK i \in Found(Hand(e)) : choice' = [choice EXCEPT ![e] = Decide(Hand(e), i)]
    BY DEF FindInvoice
  <2> DEFINE d == Decide(Hand(e), i)
  <2>2. d \in Invoices => d \in Issued
    BY DecideIssued
  <2>3. choice' = [choice EXCEPT ![e] = d]
    BY <2>1
  <2> HIDE DEF d
  <2> QED BY <1>1, <2>2, <2>3 DEF EngineBase
<1>5. Entries(e)'
  BY <1>1, <1>2, <1>3 DEF Entries, Counting
<1>6. Locks(e)'
  BY <1>1, <1>2, <1>3 DEF Locks
<1>7. Totals(e)'
  <2>1. \A i \in Invoices : ~InHand(e, i)
    BY <1>2 DEF InHand, Counting
  <2>2. \A i \in Invoices : Allocated(e, i)' = Allocated(e, i)
    BY <1>2, <1>3 DEF Allocated
  <2>3. pc'[e] # "update"
    BY <1>2
  <2> QED BY <1>1, <1>2, <2>1, <2>2, <2>3 DEF Totals
<1>8. \A f \in Engines \ {e} : Clear(f) /\ OwnKept(f)
  BY <1>2, <1>3 DEF Clear, OwnKept, OthersKept
<1>9. InvoiceBase'
  BY <1>1, <1>2, <1>3 DEF InvoiceBase
<1> QED BY <1>1, <1>2, <1>3, <1>4, <1>5, <1>6, <1>7, <1>8, <1>9 DEF Uncommitted, Ledger

LEMMA InsertAllocationLedger ==
  ASSUME IInv, NEW e \in Engines, InsertAllocation(e)
  PROVE  Uncommitted(e)
<1> USE DEF committed, payVars, invVars, tickVars, locks
<1>1. /\ EngineBase /\ InvoiceBase /\ Entries(e) /\ Locks(e) /\ Totals(e) /\ Place(e)
      /\ Shape(staged[e]) /\ rows[e] \subseteq Payments /\ None \notin Invoices
      /\ \A i \in Invoices \ Issued :
           /\ choice[e] # i /\ staged[e].received[i] = None
           /\ \A p \in Payments : staged[e].alloc[p] # i
  BY Known
<1>2. /\ OthersKept(e) /\ pc[e] = "allocate" /\ pc'[e] = "mark" /\ UNCHANGED rows
      /\ \A q \in Payments \ {Hand(e)} : staged'[e].alloc[q] = staged[e].alloc[q]
  BY InsertAllocationEffect DEF IInv, InPass
<1>3. rows[e] # {} /\ choice[e] \in Invoices
  BY <1>1, <1>2 DEF Place, AtRow
<1>4. UNCHANGED <<alloc, standing, received, invLock, sum, choice>> /\ Hand(e)' = Hand(e)
  BY <1>2 DEF InsertAllocation, Hand
<1> DEFINE p == Hand(e)
           x == Entry(e)
<1>5. p \in Payments /\ p \in rows[e]
  BY <1>3, Known
<1>6. /\ x = None \/ (x = choice[e] /\ alloc[p] = None /\ Free(invLock[choice[e]], e))
      /\ \A f \in Engines \ {e} : staged[f].alloc[p] = None
      /\ staged' = [staged EXCEPT ![e].alloc[p] = x]
  BY DEF InsertAllocation, Entry, Entering
<1>7. staged[e].alloc[p] = None
  BY <1>1, <1>2, <1>5 DEF Entries, Counting
<1>8. \A q \in Payments : q # p => staged'[e].alloc[q] = staged[e].alloc[q]
  BY <1>2
<1> HIDE DEF p, x
<1>9. staged'[e].alloc[p] = x /\ staged'[e].received = staged[e].received
  <2>1. x \in Invoices \cup {None} /\ StagedShape
    BY <1>1, <1>3, <1>6 DEF EngineBase
  <2>2. staged'[e].alloc[p] = x
    BY <1>5, <1>6, <2>1, StagedAllocSet
  <2>3. staged'[e].received = staged[e].received
    BY <1>1, <1>6 DEF EngineBase, StagedShape, Shape
  <2> QED BY <2>2, <2>3
<1>10. \A f \in Engines \ {e} : UNCHANGED <<pc[f], rows[f], staged[f], choice[f], sum[f]>>
  BY <1>2, <1>4 DEF OthersKept
<1>11. Entries(e)'
  <2>1. ASSUME NEW q \in Payments, staged'[e].alloc[q] # None
        PROVE  alloc'[q] = None /\ \A f \in Engines \ {e} : staged'[f].alloc[q] = None
    <3>1. CASE q = p
      BY <1>4, <1>6, <1>9, <1>10, <2>1, <3>1
    <3>2. CASE q # p
      BY <1>1, <1>4, <1>8, <1>10, <2>1, <3>2 DEF Entries
    <3> QED BY <3>1, <3>2
  <2>2. ASSUME NEW q \in rows'[e], staged'[e].alloc[q] # None
        PROVE  q = Hand(e)' /\ pc'[e] \in Counting
    <3>1. CASE q = p
      BY <1>2, <1>4, <3>1 DEF Counting, p
    <3>2. CASE q # p
      BY <1>1, <1>2, <1>8, <2>2, <3>2 DEF Entries, Counting
    <3> QED BY <3>1, <3>2
  <2> QED BY <2>1, <2>2 DEF Entries
<1>12. Locks(e)'
  BY <1>1, <1>2, <1>4, <1>9, <1>10 DEF Locks
<1>13. Totals(e)'
  <2>1. ASSUME NEW i \in Invoices, ~InHand(e, i)'
        PROVE  /\ i # choice[e] /\ ~InHand(e, i)
    BY <1>2, <1>4, <2>1 DEF InHand, Counting
  <2>2. ASSUME NEW i \in Invoices, i # choice[e]
        PROVE  /\ Allocated(e, i)' = Allocated(e, i)
               /\ (\A q \in Payments : staged[e].alloc[q] # i)
                    => \A q \in Payments : staged'[e].alloc[q] # i
    <3>1. x # i /\ staged[e].alloc[p] # i
      BY <1>1, <1>6, <1>7, <2>2
    <3>2. \A q \in Payments : staged'[e].alloc[q] = i <=> staged[e].alloc[q] = i
      BY <1>8, <1>9, <3>1
    <3> QED BY <1>4, <3>2 DEF Allocated
  <2>3. pc'[e] # "update"
    BY <1>2
  <2> QED BY <1>1, <1>9, <2>1, <2>2, <2>3 DEF Totals
<1>14. ASSUME NEW f \in Engines \ {e} PROVE Clear(f) /\ OwnKept(f)
  <2>1. OwnKept(f)
    BY <1>10 DEF OwnKept
  <2>2. x # None => /\ staged[f].alloc[p] = None
                    /\ \A i \in Invoices : invLock[i] = f => x # i
    BY <1>6, ReconcilerAssumption DEF Free
  <2>3. \A q \in Payments : staged'[e].alloc[q] \in {staged[e].alloc[q], None}
         \/ (/\ staged[f].alloc[q] = None
             /\ \A i \in Invoices : invLock[i] = f => staged'[e].alloc[q] # i)
    BY <1>8, <1>9, <2>2
  <2> QED BY <1>4, <1>10, <2>1, <2>3 DEF Clear
<1>15. InvoiceBase'
  BY <1>1, <1>4, <1>9, <1>10 DEF InvoiceBase
<1>16. \A i \in Invoices \ Issued : \A q \in Payments : staged'[e].alloc[q] # i
  BY <1>1, <1>6, <1>8, <1>9
<1> QED BY <1>1, <1>4, <1>9, <1>11, <1>12, <1>13, <1>14, <1>15, <1>16 DEF Uncommitted, Ledger

(* Steps that stage no entry, and keep the totals of other invoices.       *)
LEMMA SameEntries ==
  ASSUME IInv, NEW e \in Engines, OthersKept(e), staged'[e].alloc = staged[e].alloc,
         UNCHANGED <<alloc, standing, received, choice>>,
         sum' \in [Engines -> Nat], invLock' \in [Invoices -> Engines \cup {None}],
         staged'[e].received \in [Invoices -> Nat \cup {None}],
         \A i \in Invoices \ Issued : staged'[e].received[i] = None,
         \A f \in Engines \ {e} : /\ sum'[f] = sum[f]
                                  /\ \A i \in Invoices : invLock'[i] = f <=> invLock[i] = f,
         Ledger(e)'
  PROVE  Uncommitted(e)
<1>1. /\ InvoiceBase /\ None \notin Invoices
      /\ \A i \in Invoices \ Issued : /\ choice[e] # i
                                      /\ \A p \in Payments : staged[e].alloc[p] # i
  BY Known
<1>2. \A f \in Engines \ {e} : UNCHANGED <<pc[f], rows[f], staged[f], choice[f]>>
  BY DEF OthersKept
<1>3. ASSUME NEW f \in Engines \ {e} PROVE Clear(f) /\ OwnKept(f)
  <2>1. \A g \in Engines, p \in Payments : staged'[g].alloc[p] = staged[g].alloc[p]
    BY <1>2
  <2> QED BY <1>2, <2>1 DEF Clear, OwnKept
<1>4. InvoiceBase'
  <2>1. \A f \in Engines : staged'[f].received \in [Invoices -> Nat \cup {None}]
    BY <1>1, <1>2 DEF InvoiceBase
  <2> QED BY <1>1, <2>1 DEF InvoiceBase
<1> QED BY <1>1, <1>3, <1>4 DEF Uncommitted

LEMMA MarkMatchedLedger ==
  ASSUME IInv, NEW e \in Engines, MarkMatched(e)
  PROVE  Uncommitted(e)
<1> USE DEF committed, payVars, invVars, tickVars, locks
<1>1. /\ EngineBase /\ InvoiceBase /\ Entries(e) /\ Locks(e) /\ Totals(e) /\ Place(e)
      /\ Shape(staged[e]) /\ staged[e].received \in [Invoices -> Nat \cup {None}]
      /\ \A i \in Invoices \ Issued : staged[e].received[i] = None
  BY Known
<1>2. /\ OthersKept(e) /\ pc[e] = "mark" /\ pc'[e] = "recalc" /\ UNCHANGED rows
      /\ staged'[e].alloc = staged[e].alloc
  BY MarkMatchedEffect DEF IInv, InPass
<1>3. UNCHANGED <<alloc, standing, received, invLock, sum, choice>> /\ Hand(e)' = Hand(e)
  BY <1>2 DEF MarkMatched, Hand
<1>4. staged'[e].received = staged[e].received
  <2>1. staged' = [staged EXCEPT ![e].matched = @ \cup Marked(e)]
    BY DEF MarkMatched
  <2> QED BY <1>1, <2>1 DEF EngineBase, StagedShape, Shape
<1>5. Entries(e)'
  BY <1>1, <1>2, <1>3 DEF Entries, Counting, OthersKept
<1>6. Locks(e)'
  BY <1>1, <1>2, <1>3, <1>4 DEF Locks, OthersKept
<1>7. Totals(e)'
  <2>1. \A i \in Invoices : InHand(e, i)' <=> InHand(e, i)
    BY <1>2, <1>3 DEF InHand, Counting
  <2>2. \A i \in Invoices : Allocated(e, i)' = Allocated(e, i)
    BY <1>2, <1>3 DEF Allocated
  <2>3. pc'[e] # "update"
    BY <1>2
  <2> QED BY <1>1, <1>2, <1>4, <2>1, <2>2, <2>3 DEF Totals
<1> QED BY <1>1, <1>2, <1>3, <1>4, <1>5, <1>6, <1>7, SameEntries DEF InvoiceBase, Ledger

LEMMA LockInvoiceLedger ==
  ASSUME IInv, NEW e \in Engines, LockInvoice(e)
  PROVE  Uncommitted(e)
<1> USE DEF committed, payVars, invVars, tickVars, locks
<1>1. /\ EngineBase /\ InvoiceBase /\ Entries(e) /\ Locks(e) /\ Totals(e) /\ Place(e)
      /\ staged[e].received \in [Invoices -> Nat \cup {None}] /\ None \notin Engines
      /\ \A i \in Invoices \ Issued : staged[e].received[i] = None
  BY Known
<1>2. /\ OthersKept(e) /\ pc[e] = "recalc" /\ pc'[e] = "update" /\ UNCHANGED <<rows, staged>>
  BY LockInvoiceEffect DEF IInv, InPass
<1> DEFINE i == choice[e]
           total == Sum(Allocated(e, i))
<1>3. UNCHANGED <<alloc, standing, received, choice>> /\ Hand(e)' = Hand(e)
  BY <1>2 DEF LockInvoice, Hand
<1>4. /\ invLock' = [invLock EXCEPT ![i] = e] /\ sum' = [sum EXCEPT ![e] = total]
      /\ invLock[i] \in {None, e}
      /\ \A f \in Engines \ {e} : \A p \in Payments : staged[f].alloc[p] # i
  BY DEF LockInvoice, InvoiceFree, Free, Sharing
<1>5. i \in Invoices
  BY <1>1, <1>2 DEF Place, AtRow
<1>6. total \in Nat
  <2>1. Allocated(e, i) \in SUBSET Payments
    BY DEF Allocated
  <2> QED BY <2>1, SumNat
<1>7. total = Sum(Allocated(e, choice[e]))
  OBVIOUS
<1>8. i = choice[e]
  OBVIOUS
<1> HIDE DEF i, total
<1>9. /\ sum' \in [Engines -> Nat] /\ sum'[e] = total
      /\ \A f \in Engines \ {e} : sum'[f] = sum[f]
  BY <1>1, <1>4, <1>6 DEF InvoiceBase
<1>10. /\ invLock' \in [Invoices -> Engines \cup {None}] /\ invLock'[i] = e
       /\ \A j \in Invoices : j # i => invLock'[j] = invLock[j]
  BY <1>1, <1>4, <1>5 DEF InvoiceBase
<1>11. \A f \in Engines \ {e} : \A j \in Invoices : invLock'[j] = f <=> invLock[j] = f
  BY <1>1, <1>4, <1>10
<1>12. Entries(e)'
  BY <1>1, <1>2, <1>3 DEF Entries, Counting
<1>13. Locks(e)'
  <2>1. ASSUME NEW j \in Invoices, invLock'[j] = e
        PROVE  \A f \in Engines \ {e} : \A p \in Payments : staged'[f].alloc[p] # j
    BY <1>1, <1>2, <1>4, <1>10, <2>1 DEF Locks
  <2>2. \A j \in Invoices : staged'[e].received[j] # None => invLock'[j] = e
    BY <1>1, <1>2, <1>10 DEF Locks
  <2> QED BY <1>3, <1>8, <1>10, <2>1, <2>2 DEF Locks
<1>14. Totals(e)'
  <2>1. \A j \in Invoices : InHand(e, j)' <=> InHand(e, j)
    BY <1>2, <1>3 DEF InHand, Counting
  <2>2. \A j \in Invoices : Allocated(e, j)' = Allocated(e, j)
    BY <1>2, <1>3 DEF Allocated
  <2>3. Allocated(e, choice[e])' = Allocated(e, choice[e])
    BY <1>2, <1>3 DEF Allocated
  <2> QED BY <1>1, <1>2, <1>7, <1>9, <2>1, <2>2, <2>3 DEF Totals
<1> QED BY <1>1, <1>2, <1>3, <1>9, <1>10, <1>11, <1>12, <1>13, <1>14, SameEntries DEF Ledger

LEMMA UpdateInvoiceLedger ==
  ASSUME IInv, NEW e \in Engines, UpdateInvoice(e)
  PROVE  Uncommitted(e)
<1> USE DEF committed, payVars, invVars, tickVars, locks
<1>1. /\ EngineBase /\ InvoiceBase /\ Entries(e) /\ Locks(e) /\ Totals(e) /\ Place(e)
      /\ Shape(staged[e]) /\ rows[e] \subseteq Payments /\ None \notin Nat
      /\ staged[e].received \in [Invoices -> Nat \cup {None}]
      /\ \A i \in Invoices \ Issued : choice[e] # i /\ staged[e].received[i] = None
  BY Known
<1>2. /\ OthersKept(e) /\ pc[e] = "update" /\ pc'[e] = "apply"
      /\ rows'[e] = rows[e] \ {Hand(e)} /\ staged'[e].alloc = staged[e].alloc
  BY UpdateInvoiceEffect DEF IInv, InPass
<1> DEFINE i == choice[e]
           total == sum[e]
<1>3. UNCHANGED <<alloc, standing, received, choice, sum>>
  BY DEF UpdateInvoice
<1>4. /\ invLock' = [invLock EXCEPT ![i] = e] /\ staged' = [staged EXCEPT ![e].received[i] = total]
  BY DEF UpdateInvoice
<1>5. /\ i \in Invoices /\ invLock[i] = e
      /\ total \in Nat /\ total = Sum(Allocated(e, i))
  BY <1>1, <1>2 DEF Place, AtRow, Locks, Totals, InvoiceBase
<1>6. i = choice[e]
  OBVIOUS
<1> HIDE DEF i, total
<1>7. invLock' = invLock
  BY <1>1, <1>4, <1>5 DEF InvoiceBase
<1>8. /\ staged'[e].received \in [Invoices -> Nat \cup {None}]
      /\ staged'[e].received[i] = total
      /\ \A j \in Invoices : j # i => staged'[e].received[j] = staged[e].received[j]
  <2> DEFINE r == [staged[e].received EXCEPT ![i] = total]
  <2>1. staged'[e].received = r
    BY <1>1, <1>4 DEF EngineBase, StagedShape, Shape
  <2>2. /\ r \in [Invoices -> Nat \cup {None}] /\ r[i] = total
        /\ \A j \in Invoices : j # i => r[j] = staged[e].received[j]
    BY <1>1, <1>5
  <2> QED BY <2>1, <2>2
<1>9. Entries(e)'
  BY <1>1, <1>2, <1>3 DEF Entries, OthersKept
<1>10. Locks(e)'
  BY <1>1, <1>2, <1>5, <1>7, <1>8 DEF Locks, OthersKept
<1>11. Totals(e)'
  <2>1. \A j \in Invoices : Allocated(e, j)' = Allocated(e, j)
    BY <1>2, <1>3 DEF Allocated
  <2>2. \A j \in Invoices : j # i => ~InHand(e, j)
    BY <1>6 DEF InHand
  <2>3. pc'[e] # "update"
    BY <1>2
  <2>4. ASSUME NEW j \in Invoices
        PROVE  /\ staged'[e].received[j] = None => \A p \in Payments : staged'[e].alloc[p] # j
               /\ staged'[e].received[j] # None
                    => staged'[e].received[j] = Sum(Allocated(e, j))
    <3>1. CASE j = i
      BY <1>1, <1>5, <1>8, <3>1
    <3>2. CASE j # i
      BY <1>1, <1>2, <1>8, <2>2, <3>2 DEF Totals
    <3> QED BY <3>1, <3>2
  <2> QED BY <2>1, <2>3, <2>4 DEF Totals
<1>12. \A j \in Invoices \ Issued : staged'[e].received[j] = None
  BY <1>1, <1>5, <1>6, <1>8
<1> QED BY <1>1, <1>2, <1>3, <1>7, <1>8, <1>9, <1>10, <1>11, <1>12, SameEntries
        DEF InvoiceBase, Ledger

LEMMA MarkUnmatchedLedger ==
  ASSUME IInv, NEW e \in Engines, MarkUnmatched(e)
  PROVE  Uncommitted(e)
<1> USE DEF committed, payVars, invVars, tickVars, locks
<1>1. /\ EngineBase /\ InvoiceBase /\ Entries(e) /\ Locks(e) /\ Totals(e)
      /\ Shape(staged[e]) /\ rows[e] \subseteq Payments
      /\ staged[e].received \in [Invoices -> Nat \cup {None}]
      /\ \A i \in Invoices \ Issued : staged[e].received[i] = None
  BY Known
<1>2. /\ OthersKept(e) /\ pc[e] = "unmatch" /\ pc'[e] = "apply"
      /\ rows'[e] = rows[e] \ {Hand(e)} /\ staged'[e].alloc = staged[e].alloc
  BY MarkUnmatchedEffect DEF IInv, InPass
<1>3. UNCHANGED <<alloc, standing, received, choice, sum, invLock>>
  BY DEF MarkUnmatched
<1>4. staged'[e].received = staged[e].received
  <2>1. \/ staged' = [staged EXCEPT ![e].reason[Hand(e)] = choice[e]]
        \/ staged' = staged
    BY DEF MarkUnmatched
  <2> DEFINE p == Hand(e)
             r == choice[e]
  <2>2. staged' = [staged EXCEPT ![e].reason[p] = r] \/ staged' = staged
    BY <2>1
  <2> HIDE DEF p, r
  <2> QED BY <1>1, <2>2 DEF EngineBase, StagedShape, Shape
<1>5. Entries(e)'
  BY <1>1, <1>2, <1>3 DEF Entries, OthersKept, Counting
<1>6. Locks(e)'
  BY <1>1, <1>2, <1>3, <1>4 DEF Locks, OthersKept
<1>7. Totals(e)'
  <2>1. \A j \in Invoices : Allocated(e, j)' = Allocated(e, j)
    BY <1>2, <1>3 DEF Allocated
  <2>2. \A j \in Invoices : ~InHand(e, j)
    BY <1>2 DEF InHand, Counting
  <2>3. pc'[e] # "update"
    BY <1>2
  <2> QED BY <1>1, <1>2, <1>4, <2>1, <2>2, <2>3 DEF Totals
<1> QED BY <1>1, <1>2, <1>3, <1>4, <1>5, <1>6, <1>7, SameEntries DEF InvoiceBase, Ledger

-----------------------------------------------------------------------------
(* The steps before and after a pass.                                      *)

LEMMA BlankStep ==
  ASSUME IInv, NEW e \in Engines, OthersKept(e), staged'[e] = Nothing,
         pc'[e] \notin Counting, rows'[e] \subseteq Payments,
         UNCHANGED <<alloc, standing, received>>, choice'[e] \in {choice[e], None},
         sum' \in [Engines -> Nat], invLock' \in [Invoices -> Engines \cup {None}],
         \A i \in Invoices : invLock'[i] = e => invLock[i] = e,
         \A f \in Engines \ {e} : /\ sum'[f] = sum[f]
                                  /\ \A i \in Invoices : invLock'[i] = f <=> invLock[i] = f
  PROVE  Uncommitted(e)
<1>1. /\ InvoiceBase /\ Locks(e) /\ None \notin Invoices
      /\ \A i \in Invoices \ Issued : choice[e] # i
  BY Known
<1>2. \A f \in Engines \ {e} : UNCHANGED <<pc[f], rows[f], staged[f], choice[f]>>
  BY DEF OthersKept
<1>3. /\ \A p \in Payments : staged'[e].alloc[p] = None
      /\ \A i \in Invoices : staged'[e].received[i] = None
      /\ staged'[e].received \in [Invoices -> Nat \cup {None}]
  BY DEF Nothing
<1>4. Ledger(e)'
  <2>1. \A i \in Invoices : invLock'[i] # e
          \/ \A f \in Engines \ {e} : \A p \in Payments : staged'[f].alloc[p] # i
    BY <1>1, <1>2 DEF Locks
  <2> QED BY <2>1, LedgerBlank
<1>5. ASSUME NEW f \in Engines \ {e} PROVE Clear(f) /\ OwnKept(f)
  <2>1. \A g \in Engines, p \in Payments : staged'[g].alloc[p] \in {staged[g].alloc[p], None}
    BY <1>2, <1>3
  <2> QED BY <1>2, <2>1 DEF Clear, OwnKept
<1>6. InvoiceBase'
  <2>1. \A f \in Engines : staged'[f].received \in [Invoices -> Nat \cup {None}]
    BY <1>1, <1>2, <1>3 DEF InvoiceBase
  <2> QED BY <1>1, <2>1 DEF InvoiceBase
<1>7. \A i \in Invoices \ Issued : choice'[e] # i
  BY <1>1
<1> QED BY <1>1, <1>3, <1>4, <1>5, <1>6, <1>7 DEF Uncommitted

LEMMA BeforePassLedger ==
  ASSUME IInv, NEW e \in Engines, LockCursor(e) \/ ReadPayments(e) \/ SelectRecheck(e)
  PROVE  Uncommitted(e)
<1> USE DEF committed, payVars, invVars, tickVars
<1>1. EngineBase /\ Place(e) /\ InvoiceBase
  BY Known
<1>2. /\ EngineBase' /\ OthersKept(e) /\ pc[e] \in Outside /\ staged' = staged
      /\ pc'[e] \in Outside \cup {"apply"}
  BY LockCursorEffect, ReadPaymentsEffect, SelectRecheckEffect
     DEF LockCursor, Reads, Outside, IInv
<1>3. staged'[e] = Nothing
  BY <1>1, <1>2 DEF Place
<1>4. UNCHANGED <<alloc, standing, received, choice, sum, invLock>>
  BY DEF LockCursor, ReadPayments, SelectRecheck
<1>5. pc'[e] \notin Counting /\ rows'[e] \subseteq Payments
  BY <1>2 DEF Outside, Counting, EngineBase
<1> QED BY <1>1, <1>2, <1>3, <1>4, <1>5, BlankStep DEF InvoiceBase

(* A pass that ends, however it ends, has released its locks.              *)
LEMMA EndPassLedger ==
  ASSUME IInv, NEW e \in Engines, EndPass(e)
  PROVE  /\ choice'[e] = None
         /\ sum' \in [Engines -> Nat] /\ invLock' \in [Invoices -> Engines \cup {None}]
         /\ \A i \in Invoices : invLock'[i] # e
         /\ \A f \in Engines \ {e} : /\ sum'[f] = sum[f]
                                     /\ \A i \in Invoices : invLock'[i] = f <=> invLock[i] = f
<1>1. EngineBase /\ InvoiceBase /\ None \notin Engines
  BY Known
<1>2. choice'[e] = None
  BY <1>1 DEF EndPass, EngineBase
<1>3. sum' \in [Engines -> Nat] /\ \A f \in Engines \ {e} : sum'[f] = sum[f]
  BY <1>1 DEF EndPass, InvoiceBase
<1>4. invLock' = [i \in Invoices |-> IF invLock[i] = e THEN None ELSE invLock[i]]
  BY DEF EndPass
<1>5. /\ invLock' \in [Invoices -> Engines \cup {None}]
      /\ \A i \in Invoices : invLock'[i] # e
      /\ \A f \in Engines \ {e} : \A i \in Invoices : invLock'[i] = f <=> invLock[i] = f
  BY <1>1, <1>4 DEF InvoiceBase
<1> QED BY <1>2, <1>3, <1>5

LEMMA RolledBackLedger ==
  ASSUME IInv, NEW e \in Engines, RollBack(e) \/ BeginRun(e)
  PROVE  Uncommitted(e)
<1> USE DEF payVars, invVars
<1>1. Ended(e)
  BY RollBackEffect, BeginRunEffect DEF IInv
<1>2. EndPass(e) /\ UNCHANGED <<alloc, standing, received>>
  BY DEF RollBack, BeginRun
<1>3. OthersKept(e) /\ staged'[e] = Nothing /\ rows'[e] = {} /\ pc'[e] \notin Counting
  BY <1>1 DEF Ended, Outside, Counting
<1> QED BY <1>2, <1>3, EndPassLedger, BlankStep

(* Together.                                                               *)
LEMMA UncommittedInv ==
  ASSUME IInv, NEW e \in Engines, Uncommitted(e)
  PROVE  LedgerInv'
<1>1. /\ Base /\ InvoiceBase /\ ReceivedIsAllocated /\ Unissued
      /\ \A f \in Engines : Ledger(f)
  BY DEF IInv, LedgerInv, Ledger
<1>2. \A f \in Engines : Ledger(f)'
  BY <1>1, LedgerKept DEF Uncommitted
<1>3. UNCHANGED <<alloc, standing, received>> /\ Issued' = Issued
  BY DEF Uncommitted, Issued
<1>4. ReceivedIsAllocated'
  BY <1>1, <1>3 DEF ReceivedIsAllocated, StatusFor
<1>5. Unissued'
  <2>1. \A f \in Engines \ {e} : UNCHANGED <<choice[f], staged[f]>>
    BY DEF Uncommitted, OwnKept
  <2> QED BY <1>1, <1>3, <2>1 DEF Unissued, Untouched, Uncommitted
<1> QED BY <1>2, <1>4, <1>5 DEF Uncommitted, LedgerInv, Ledger

-----------------------------------------------------------------------------
(* The commit of a pass.                                                   *)

LEMMA StatusType ==
  ASSUME NEW i, NEW t
  PROVE  /\ StatusFor(i, t) \in Standings \ {"absent", "inserting"}
         /\ StatusFor(i, t) = "cancelled" <=> standing[i] = "cancelled"
BY DEF StatusFor, Standings

(* Computed before or after the row is written, the status is the same.    *)
LEMMA StatusStable ==
  ASSUME NEW i, standing'[i] = StatusFor(i, received'[i])
  PROVE  standing'[i] = StatusFor(i, received[i])'
BY DEF StatusFor

LEMMA CommitPassLedger ==
  ASSUME IInv, NEW e \in Engines, CommitPass(e)
  PROVE  LedgerInv'
<1>1. /\ Base /\ InvoiceBase /\ ReceivedIsAllocated /\ Unissued /\ Entries(e) /\ Totals(e)
      /\ \A f \in Engines : Ledger(f)
  BY DEF IInv, LedgerInv, Ledger
<1>2. /\ Shape(staged[e]) /\ staged[e].received \in [Invoices -> Nat \cup {None}]
      /\ None \notin Invoices \cup Nat
  BY Known
<1> DEFINE w == staged[e]
<1>3. /\ alloc' = [p \in Payments |-> IF w.alloc[p] # None THEN w.alloc[p] ELSE alloc[p]]
      /\ received' = [i \in Invoices |->
                        IF w.received[i] # None THEN w.received[i] ELSE received[i]]
      /\ standing' = [i \in Invoices |-> IF w.received[i] # None
                                           THEN StatusFor(i, w.received[i]) ELSE standing[i]]
      /\ EndPass(e) /\ pc[e] = "apply"
  BY DEF CommitPass
<1>4. Ended(e)
  BY CommitPassEffect DEF IInv
<1>5. OthersKept(e) /\ staged'[e] = Nothing /\ rows'[e] = {} /\ pc'[e] \notin Counting
  BY <1>4 DEF Ended, Outside, Counting
<1>6. /\ choice'[e] = None
      /\ sum' \in [Engines -> Nat] /\ invLock' \in [Invoices -> Engines \cup {None}]
      /\ \A i \in Invoices : invLock'[i] # e
      /\ \A f \in Engines \ {e} : /\ sum'[f] = sum[f]
                                  /\ \A i \in Invoices : invLock'[i] = f <=> invLock[i] = f
  BY <1>3, EndPassLedger
<1>7. \A i \in Invoices :
        /\ w.received[i] = None => \A p \in Payments : w.alloc[p] # i
        /\ w.received[i] # None => w.received[i] = Sum(Allocated(e, i))
  BY <1>1, <1>3 DEF Totals, InHand, Counting
<1>8. \A p \in Payments : w.alloc[p] # None =>
        alloc[p] = None /\ \A f \in Engines \ {e} : staged[f].alloc[p] = None
  BY <1>1 DEF Entries
<1>9. \A i \in Invoices : Allocated(e, i) = {p \in Payments : i \in {alloc[p], w.alloc[p]}}
  BY DEF Allocated
<1>10. /\ \A p \in Payments : /\ staged'[e].alloc[p] = None
       /\ \A i \in Invoices : staged'[e].received[i] = None
       /\ staged'[e].received \in [Invoices -> Nat \cup {None}]
  BY <1>5 DEF Nothing
<1>11. \A f \in Engines \ {e} : UNCHANGED <<pc[f], rows[f], staged[f], choice[f]>>
  BY <1>5 DEF OthersKept
<1> HIDE DEF w
<1>12. \A i \in Invoices : Allocated(e, i) = {p \in Payments : alloc'[p] = i}
  <2> SUFFICES ASSUME NEW i \in Invoices, NEW p \in Payments
               PROVE  i \in {alloc[p], w.alloc[p]} <=> alloc'[p] = i
    BY <1>9
  <2> QED BY <1>2, <1>3, <1>8
<1>13. ASSUME NEW i \in Issued'
       PROVE  /\ received'[i] = Sum({p \in Payments : alloc'[p] = i})
              /\ standing'[i] = StatusFor(i, received[i])'
  <2> i \in Invoices
    BY DEF Issued
  <2>1. CASE w.received[i] = None
    <3>1. {p \in Payments : alloc'[p] = i} = {p \in Payments : alloc[p] = i}
      BY <1>2, <1>3, <1>7, <1>8, <2>1
    <3>2. received'[i] = received[i] /\ standing'[i] = standing[i]
      BY <1>3, <2>1
    <3>3. i \in Issued
      BY <3>2 DEF Issued
    <3>4. received[i] = Sum({p \in Payments : alloc[p] = i}) /\ standing[i] = StatusFor(i, received[i])
      BY <1>1, <3>3 DEF ReceivedIsAllocated
    <3> QED BY <3>1, <3>2, <3>4, StatusStable
  <2>2. CASE w.received[i] # None
    <3>1. received'[i] = w.received[i] /\ standing'[i] = StatusFor(i, w.received[i])
      BY <1>3, <2>2
    <3>2. w.received[i] = Sum({p \in Payments : alloc'[p] = i})
      BY <1>7, <1>12, <2>2
    <3> QED BY <3>1, <3>2, StatusStable
  <2> QED BY <2>1, <2>2
<1>14. Unissued'
  <2> SUFFICES ASSUME NEW i \in Invoices, i \notin Issued' PROVE Untouched(i)'
    BY DEF Unissued
  <2>1. w.received[i] = None /\ standing'[i] = standing[i] /\ received'[i] = received[i]
    <3>1. w.received[i] # None => standing'[i] \in Standings \ {"absent", "inserting"}
      BY <1>3, StatusType
    <3>2. w.received[i] = None
      BY <3>1 DEF Issued
    <3> QED BY <1>3, <3>2
  <2>2. Untouched(i)
    BY <1>1, <2>1 DEF Unissued, Issued
  <2>3. \A p \in Payments : alloc'[p] # i
    BY <1>3, <2>2 DEF Untouched, w
  <2> QED BY <1>2, <1>6, <1>10, <1>11, <2>1, <2>2, <2>3 DEF Untouched
<1>15. InvoiceBase'
  <2>1. received' \in [Invoices -> Nat]
    <3>1. \A i \in Invoices : w.received[i] # None => w.received[i] \in Nat
      BY <1>2 DEF w
    <3> QED BY <1>1, <1>3, <3>1 DEF InvoiceBase
  <2>2. standing' \in [Invoices -> Standings]
    <3>1. \A i \in Invoices : StatusFor(i, w.received[i]) \in Standings
      BY StatusType
    <3> QED BY <1>1, <1>3, <3>1 DEF InvoiceBase
  <2>3. \A f \in Engines : staged'[f].received \in [Invoices -> Nat \cup {None}]
    BY <1>1, <1>10, <1>11 DEF InvoiceBase
  <2> QED BY <1>6, <2>1, <2>2, <2>3 DEF InvoiceBase
<1>16. ASSUME NEW f \in Engines \ {e} PROVE Ledger(f)'
  <2>1. Ledger(f) /\ Locks(f)
    BY <1>1 DEF Ledger
  <2>2. \A i \in Invoices : invLock[i] = f => \A p \in Payments : w.alloc[p] # i
    BY <2>1 DEF Locks, w
  <2>3. \A p \in Payments : alloc'[p] = alloc[p]
          \/ (/\ alloc[p] = None /\ staged[f].alloc[p] = None
              /\ \A i \in Invoices : invLock[i] = f => alloc'[p] # i)
    BY <1>3, <1>8, <2>2
  <2>4. \A g \in Engines, p \in Payments : staged'[g].alloc[p] \in {staged[g].alloc[p], None}
    BY <1>10, <1>11
  <2>5. Clear(f) /\ OwnKept(f)
    BY <1>6, <1>11, <2>3, <2>4 DEF Clear, OwnKept
  <2> QED BY <1>1, <2>1, <2>5, LedgerKept
<1>17. Ledger(e)'
  BY <1>5, <1>6, LedgerBlank
<1>18. ReceivedIsAllocated'
  BY <1>13 DEF ReceivedIsAllocated
<1> QED BY <1>14, <1>15, <1>16, <1>17, <1>18 DEF LedgerInv, Ledger

-----------------------------------------------------------------------------
(* What is done elsewhere.                                                 *)

LEMMA ElsewhereEngines ==
  ASSUME IInv, Elsewhere, NEW f \in Engines,
         \A p \in Payments :
           alloc'[p] = alloc[p] \/ (/\ alloc[p] = None /\ staged[f].alloc[p] = None
                                    /\ \A i \in Invoices : invLock[i] = f => alloc'[p] # i)
  PROVE  Ledger(f)'
<1>1. Base /\ Ledger(f)
  BY DEF IInv, LedgerInv, Ledger
<1>2. UNCHANGED <<pc, rows, staged, choice, sum, invLock>>
  BY ElsewhereEffect DEF engineVars, locks, passVars
<1>3. Clear(f) /\ OwnKept(f)
  BY <1>2 DEF Clear, OwnKept
<1> QED BY <1>1, <1>3, LedgerKept

LEMMA ElsewhereInv ==
  ASSUME IInv, Elsewhere,
         \A f \in Engines : Ledger(f)',
         standing' \in [Invoices -> Standings], received' \in [Invoices -> Nat],
         \A i \in Issued' : /\ received'[i] = Sum({p \in Payments : alloc'[p] = i})
                            /\ standing'[i] = StatusFor(i, received[i])',
         \A i \in Invoices \ Issued' : /\ i \notin Issued /\ received'[i] = received[i]
                                       /\ \A p \in Payments : alloc[p] # i => alloc'[p] # i
  PROVE  LedgerInv'
<1>1. UNCHANGED <<staged, choice, sum, invLock>>
  BY ElsewhereEffect DEF engineVars, locks, passVars
<1>2. InvoiceBase /\ Unissued
  BY DEF IInv, LedgerInv
<1>3. InvoiceBase'
  BY <1>1, <1>2 DEF InvoiceBase
<1>4. Unissued'
  BY <1>1, <1>2 DEF Unissued, Untouched
<1>5. ReceivedIsAllocated'
  BY DEF ReceivedIsAllocated
<1> QED BY <1>3, <1>4, <1>5 DEF LedgerInv, Ledger

(* Invoices come and are cancelled; nothing is allocated.                  *)
LEMMA StandingsLedger ==
  ASSUME IInv, Elsewhere, UNCHANGED <<alloc, received>>, standing' \in [Invoices -> Standings],
         \A i \in Issued : standing'[i] \in {standing[i], "cancelled"},
         \A i \in Invoices \ Issued : standing'[i] \in {"absent", "inserting", "open"}
  PROVE  LedgerInv'
<1>1. /\ InvoiceBase /\ ReceivedIsAllocated /\ Unissued
      /\ \A f \in Engines : Ledger(f)'
  BY ElsewhereEngines DEF IInv, LedgerInv
<1>2. ASSUME NEW i \in Issued'
      PROVE  /\ received'[i] = Sum({p \in Payments : alloc'[p] = i})
             /\ standing'[i] = StatusFor(i, received[i])'
  <2>1. i \in Invoices /\ i \in Issued'
    BY <1>2 DEF Issued
  <2>2. CASE i \in Issued
    <3>1. received[i] = Sum({p \in Payments : alloc[p] = i}) /\ standing[i] = StatusFor(i, received[i])
      BY <1>1, <2>2 DEF ReceivedIsAllocated
    <3>2. standing'[i] = StatusFor(i, received[i])'
      BY <2>2, <3>1 DEF StatusFor
    <3> QED BY <3>1, <3>2
  <2>3. CASE i \notin Issued
    <3>1. standing'[i] = "open" /\ Untouched(i)
      BY <1>1, <2>1, <2>3 DEF Issued, Unissued
    <3>2. {p \in Payments : alloc'[p] = i} = {} /\ received'[i] = 0
      BY <3>1 DEF Untouched
    <3>3. received'[i] = Sum({p \in Payments : alloc'[p] = i})
      BY <3>2, SumEmpty
    <3>4. standing'[i] = StatusFor(i, received[i])'
      BY <3>1, <3>2 DEF StatusFor
    <3> QED BY <3>3, <3>4
  <2> QED BY <2>2, <2>3
<1>3. \A i \in Invoices \ Issued' : i \notin Issued
  BY DEF Issued
<1>4. received' \in [Invoices -> Nat]
  BY <1>1 DEF InvoiceBase
<1> QED BY <1>1, <1>2, <1>3, <1>4, ElsewhereInv

LEMMA MatchByHandLedger ==
  ASSUME IInv, NEW p \in Payments, NEW i \in Invoices, MatchByHand(p, i)
  PROVE  LedgerInv'
<1>1. /\ TableBase /\ InvoiceBase /\ ReceivedIsAllocated /\ Unissued /\ MatchedIsAllocated
      /\ StagedShape
  BY DEF IInv, LedgerInv, BookInv, Base, EngineBase
<1>2. None \notin Invoices \cup Engines
  BY ReconcilerAssumption
<1>3. Elsewhere
  BY Zenon DEF Elsewhere
<1>4. /\ alloc[p] = None /\ i \in Issued /\ standing[i] # "cancelled" /\ invLock[i] = None
      /\ \A f \in Engines : staged[f].alloc[p] = None
  BY <1>1 DEF MatchByHand, MatchedIsAllocated, Held, Entering
<1> DEFINE all == {q \in Payments : alloc'[q] = i}
           total == Sum(all)
<1>5. /\ alloc' = [alloc EXCEPT ![p] = i]
      /\ received' = [received EXCEPT ![i] = total]
      /\ standing' = [standing EXCEPT ![i] = StatusFor(i, total)]
  BY DEF MatchByHand
<1>6. total \in Nat /\ total = Sum({q \in Payments : alloc'[q] = i})
  BY SumNat
<1> HIDE DEF total
<1>7. \A q \in Payments : alloc'[q] = IF q = p THEN i ELSE alloc[q]
  BY <1>1, <1>5 DEF TableBase
<1>8. /\ received' \in [Invoices -> Nat] /\ received'[i] = total
      /\ \A j \in Invoices : j # i => received'[j] = received[j]
  BY <1>1, <1>5, <1>6 DEF InvoiceBase
<1>9. StatusFor(i, total) \in Standings \ {"absent", "inserting"}
  BY StatusType
<1>10. /\ standing' \in [Invoices -> Standings] /\ standing'[i] = StatusFor(i, total)
       /\ \A j \in Invoices : j # i => standing'[j] = standing[j]
  BY <1>1, <1>5, <1>9 DEF InvoiceBase
<1>11. \A f \in Engines : Ledger(f)'
  <2> SUFFICES ASSUME NEW f \in Engines PROVE Ledger(f)'
    OBVIOUS
  <2>1. \A q \in Payments :
          alloc'[q] = alloc[q] \/ (/\ alloc[q] = None /\ staged[f].alloc[q] = None
                                   /\ \A j \in Invoices : invLock[j] = f => alloc'[q] # j)
    BY <1>2, <1>4, <1>7
  <2> QED BY <1>3, <2>1, ElsewhereEngines
<1>12. ASSUME NEW j \in Issued'
       PROVE  /\ received'[j] = Sum({q \in Payments : alloc'[q] = j})
              /\ standing'[j] = StatusFor(j, received[j])'
  <2>1. CASE j = i
    BY <1>6, <1>8, <1>10, <2>1, StatusStable
  <2>2. CASE j # i
    <3>1. j \in Invoices
      BY <1>12 DEF Issued
    <3>2. received'[j] = received[j] /\ standing'[j] = standing[j] /\ j \in Issued
      BY <1>8, <1>10, <1>12, <2>2, <3>1 DEF Issued
    <3>3. received[j] = Sum({q \in Payments : alloc[q] = j}) /\ standing[j] = StatusFor(j, received[j])
      BY <1>1, <3>2 DEF ReceivedIsAllocated
    <3>4. {q \in Payments : alloc'[q] = j} = {q \in Payments : alloc[q] = j}
      BY <1>2, <1>4, <1>7, <2>2, <3>1
    <3> QED BY <3>2, <3>3, <3>4, StatusStable
  <2> QED BY <2>1, <2>2
<1>13. \A j \in Invoices \ Issued' : /\ j \notin Issued /\ received'[j] = received[j]
                                     /\ \A q \in Payments : alloc[q] # j => alloc'[q] # j
  <2> SUFFICES ASSUME NEW j \in Invoices \ Issued'
               PROVE  /\ j \notin Issued /\ received'[j] = received[j]
                      /\ \A q \in Payments : alloc[q] # j => alloc'[q] # j
    OBVIOUS
  <2>1. j # i
    BY <1>9, <1>10 DEF Issued
  <2> QED BY <1>7, <1>8, <1>10, <2>1 DEF Issued
<1> QED BY <1>3, <1>8, <1>10, <1>11, <1>12, <1>13, ElsewhereInv

LEMMA ElsewhereLedger ==
  ASSUME IInv, Elsewhere
  PROVE  LedgerInv'
<1>1. /\ standing \in [Invoices -> Standings]
      /\ \A i \in Invoices \ Issued : standing[i] \in {"absent", "inserting"}
  BY DEF IInv, LedgerInv, InvoiceBase, Issued
<1>2. CASE UNCHANGED <<alloc, received, standing>>
  BY <1>1, <1>2, StandingsLedger
<1>3. CASE \E p \in Payments, i \in Invoices : MatchByHand(p, i)
  BY <1>3, MatchByHandLedger
<1>4. ASSUME NEW i \in Invoices, BeginInvoice(i) \/ CommitInvoice(i) \/ AbortInvoice(i)
      PROVE  LedgerInv'
  <2>1. /\ UNCHANGED <<alloc, received>> /\ i \notin Issued
        /\ \/ standing' = [standing EXCEPT ![i] = "inserting"]
           \/ standing' = [standing EXCEPT ![i] = "open"]
           \/ standing' = [standing EXCEPT ![i] = "absent"]
    BY <1>4 DEF BeginInvoice, CommitInvoice, AbortInvoice, payVars, Issued
  <2>2. \A j \in Issued : j \in Invoices /\ j # i
    BY <2>1 DEF Issued
  <2>3. /\ standing' \in [Invoices -> Standings]
        /\ \A j \in Issued : standing'[j] = standing[j]
        /\ \A j \in Invoices \ Issued : standing'[j] \in {"absent", "inserting", "open"}
    BY <1>1, <2>1, <2>2 DEF Standings
  <2> QED BY <2>1, <2>3, StandingsLedger
<1>5. ASSUME NEW i \in Invoices, CancelByHand(i) PROVE LedgerInv'
  <2>1. /\ UNCHANGED <<alloc, received>> /\ i \in Issued
        /\ standing' = [standing EXCEPT ![i] = "cancelled"]
    BY <1>5 DEF CancelByHand, payVars
  <2>2. \A j \in Issued : j \in Invoices
    BY DEF Issued
  <2>3. /\ standing' \in [Invoices -> Standings]
        /\ \A j \in Issued : standing'[j] \in {standing[j], "cancelled"}
        /\ \A j \in Invoices \ Issued : standing'[j] \in {"absent", "inserting", "open"}
    BY <1>1, <2>1, <2>2 DEF Standings
  <2> QED BY <2>1, <2>3, StandingsLedger
<1>6. CASE \/ BeginPayment
           \/ \E p \in Payments : CommitPayment(p) \/ AbortPayment(p) \/ AgeOut(p)
           \/ \E p \in Payments : IgnoreByHand(p)
           \/ UNCHANGED vars
  <2>1. UNCHANGED <<alloc, received, standing>>
    BY <1>6 DEF BeginPayment, CommitPayment, AbortPayment, AgeOut, IgnoreByHand, vars, payVars,
                invVars
  <2> QED BY <1>2, <2>1
<1> QED BY <1>3, <1>4, <1>5, <1>6 DEF Elsewhere

-----------------------------------------------------------------------------
(* Theorems.                                                               *)

LEMMA LedgerInit == Init => LedgerInv
<1> SUFFICES ASSUME Init PROVE LedgerInv
  OBVIOUS
<1>1. None \notin Invoices \cup Engines
  BY ReconcilerAssumption
<1>2. /\ \A e \in Engines : staged[e] = Nothing /\ choice[e] = None /\ sum[e] = 0
      /\ \A e \in Engines : rows[e] = {} /\ pc[e] = "idle"
      /\ \A i \in Invoices : standing[i] = "absent" /\ received[i] = 0 /\ invLock[i] = None
      /\ \A p \in Payments : alloc[p] = None
  BY DEF Init
<1>3. /\ \A p \in Payments : Nothing.alloc[p] = None
      /\ \A i \in Invoices : Nothing.received[i] = None
      /\ Nothing.received \in [Invoices -> Nat \cup {None}]
  BY DEF Nothing
<1>4. InvoiceBase
  BY <1>2, <1>3 DEF Init, InvoiceBase, Standings
<1>5. ReceivedIsAllocated
  BY <1>2 DEF ReceivedIsAllocated, Issued
<1>6. Unissued
  BY <1>1, <1>2, <1>3 DEF Unissued, Untouched
<1>7. ASSUME NEW e \in Engines PROVE Entries(e) /\ Locks(e) /\ Totals(e)
  <2>1. Entries(e)
    BY <1>2, <1>3 DEF Entries
  <2>2. Locks(e)
    BY <1>1, <1>2, <1>3 DEF Locks
  <2>3. Totals(e)
    BY <1>1, <1>2, <1>3 DEF Totals
  <2> QED BY <2>1, <2>2, <2>3
<1> QED BY <1>4, <1>5, <1>6, <1>7 DEF LedgerInv

LEMMA LedgerNext ==
  ASSUME IInv, [Next]_vars
  PROVE  LedgerInv'
<1>1. ASSUME NEW e \in Engines, Does(e) PROVE LedgerInv'
  <2>1. CASE Apply(e)
    BY <2>1, FindInvoiceLedger, InsertAllocationLedger, MarkMatchedLedger, LockInvoiceLedger,
       UpdateInvoiceLedger, MarkUnmatchedLedger, UncommittedInv DEF Apply
  <2>2. CASE LockCursor(e) \/ ReadPayments(e) \/ SelectRecheck(e)
    BY <2>2, BeforePassLedger, UncommittedInv
  <2>3. CASE CommitPass(e)
    BY <2>3, CommitPassLedger
  <2>4. CASE RollBack(e) \/ BeginRun(e)
    BY <2>4, RolledBackLedger, UncommittedInv
  <2> QED BY <1>1, <2>1, <2>2, <2>3, <2>4 DEF Does
<1> QED BY <1>1, NextSplit, ElsewhereLedger

LEMMA IInvAlways == Spec => []IInv
<1>1. Init => IInv
  BY BaseInit, BookInvInit, LedgerInit DEF IInv
<1>2. IInv /\ [Next]_vars => IInv'
  BY BaseNext, BookInvNext, LedgerNext DEF IInv
<1> QED BY <1>1, <1>2, PTL DEF Spec

(* Whatever passes of any number of engines, hands, crashes and rollbacks  *)
(* interleave, every invoice has received exactly what is allocated to it  *)
(* and stands accordingly: what recalc_invoice's row lock is for.          *)
THEOREM InvoicesAddUp == Spec => []ReceivedIsAllocated
<1>1. IInv => ReceivedIsAllocated
  BY DEF IInv, LedgerInv
<1> QED BY <1>1, IInvAlways, PTL

LEMMA HistoryNext ==
  ASSUME Base, HistoryBase, [Next]_vars
  PROVE  HistoryBase'
<1>1. newer' \in SUBSET (Invoices \X Payments)
  <2>1. CASE \E i \in Invoices : BeginInvoice(i)
    <3>1. PICK i \in Invoices : newer' = newer \cup {<<i, p>> : p \in 1 .. nextId - 1}
      BY <2>1 DEF BeginInvoice
    <3>2. \A p \in 1 .. nextId - 1 : p \in Payments
      <4>1. nextId \in 1 .. MaxPayments + 1 /\ MaxPayments \in Nat
        BY ReconcilerAssumption DEF Base, TableBase
      <4> QED BY <4>1 DEF Payments
    <3> QED BY <3>1, <3>2 DEF HistoryBase
  <2>2. CASE newer' \subseteq newer
    BY <2>2 DEF HistoryBase
  <2>3. CASE Elsewhere
    <3>1. (\E i \in Invoices : BeginInvoice(i)) \/ newer' \subseteq newer
      BY <2>3 DEF Elsewhere, BeginPayment, CommitPayment, AbortPayment, AgeOut, CommitInvoice,
                  AbortInvoice, MatchByHand, IgnoreByHand, CancelByHand, vars, payVars
    <3> QED BY <2>1, <2>2, <3>1
  <2>4. ASSUME NEW e \in Engines, Does(e) PROVE newer' = newer
    <3>1. CASE CommitPass(e)
      BY <3>1 DEF CommitPass
    <3>2. CASE ~CommitPass(e)
      BY <2>4, <3>2, DoesKeeps DEF payVars
    <3> QED BY <3>1, <3>2
  <2> QED BY <2>2, <2>3, <2>4, NextSplit
<1>2. recent' \in SUBSET Payments /\ byHand' \in SUBSET Payments
  <2>1. CASE Elsewhere
    BY <2>1 DEF HistoryBase, Elsewhere, BeginPayment, CommitPayment, AbortPayment, AgeOut,
                BeginInvoice, CommitInvoice, AbortInvoice, MatchByHand, IgnoreByHand,
                CancelByHand, vars, payVars
  <2>2. ASSUME NEW e \in Engines, Does(e) PROVE UNCHANGED <<recent, byHand>>
    <3>1. CASE CommitPass(e)
      BY <3>1 DEF CommitPass
    <3>2. CASE ~CommitPass(e)
      BY <2>2, <3>2, DoesKeeps DEF payVars
    <3> QED BY <3>1, <3>2
  <2> QED BY <2>1, <2>2, NextSplit DEF HistoryBase
<1>3. failures' \in Nat
  <2>1. CASE Elsewhere
    BY <2>1, ElsewhereEffect DEF HistoryBase, engineVars, tickVars
  <2>2. ASSUME NEW e \in Engines, Step(e) PROVE failures' = failures
    BY <2>2 DEF Step, LockCursor, ReadPayments, SelectRecheck, Apply, FindInvoice,
                InsertAllocation, MarkMatched, LockInvoice, UpdateInvoice, MarkUnmatched,
                CommitPass, BreakDeadlock, RunAgain, committed, tickVars
  <2>3. ASSUME NEW e \in Engines, PassFails(e) \/ Crash(e) PROVE failures' = failures + 1
    BY <2>3 DEF PassFails, Crash
  <2>4. \/ Elsewhere
        \/ \E e \in Engines : Step(e) \/ PassFails(e) \/ Crash(e)
    BY Zenon DEF Next, Elsewhere
  <2> QED BY <2>1, <2>2, <2>3, <2>4 DEF HistoryBase
<1> QED BY <1>1, <1>2, <1>3 DEF HistoryBase

(* Tables, locks and transactions are of their types: amounts stay natural *)
(* numbers, because sums of them are.                                      *)
THEOREM TypeCorrect == Spec => []TypeOK
<1>1. Init => IInv /\ HistoryBase
  <2>1. Init => IInv
    BY BaseInit, BookInvInit, LedgerInit DEF IInv
  <2>2. Init => HistoryBase
    BY DEF Init, HistoryBase
  <2> QED BY <2>1, <2>2
<1>2. IInv /\ HistoryBase /\ [Next]_vars => (IInv /\ HistoryBase)'
  BY BaseNext, BookInvNext, LedgerNext, HistoryNext DEF IInv
<1>3. IInv /\ HistoryBase => TypeOK
  <2> SUFFICES ASSUME IInv, HistoryBase PROVE TypeOK
    OBVIOUS
  <2>1. TableBase /\ EngineBase /\ InvoiceBase
    BY DEF IInv, LedgerInv, Base
  <2>2. staged \in [Engines -> Staged]
    <3>1. ASSUME NEW e \in Engines PROVE staged[e] \in Staged
      <4>1. Shape(staged[e]) /\ staged[e].received \in [Invoices -> Nat \cup {None}]
        BY <2>1 DEF EngineBase, StagedShape, InvoiceBase
      <4> QED BY <4>1 DEF Shape, Staged
    <3>2. staged = [e \in Engines |-> staged[e]]
      BY <2>1 DEF EngineBase, StagedShape
    <3> QED BY <3>1, <3>2
  <2> QED BY <2>1, <2>2 DEF TypeOK, TableBase, EngineBase, InvoiceBase, HistoryBase, Standings
<1> QED BY <1>1, <1>2, <1>3, PTL DEF Spec

-----------------------------------------------------------------------------
(* None is stranded, when inserts commit in the order they began.          *)

(* A payment's reason is found by a pass that the cursor follows.          *)
Behind(e) == \A p \in Payments : p \in rows[e] \/ staged[e].reason[p] # None => p <= Upper(e)

ReasonsBehind == /\ \A p \in Payments : reason[p] # None => p <= cursor
                 /\ \A e \in Engines : Behind(e)

(* Every invoice on a payment's account that its key names began after it. *)
Left(p) ==
  /\ p \in Recorded
  /\ \A i \in Issued : Account[i] = Account[p] /\ i \in ByReference[p] \cup ByNumber[p]
       => <<i, p>> \in newer

InsertingNewer ==
  \A p \in Recorded, i \in Invoices : standing[i] = "inserting" => <<i, p>> \in newer

(* So it is of a payment decided, about to be, or in hand.                 *)
Leaves(e) ==
  /\ \A p \in Payments : staged[e].reason[p] = "no_invoice" => Left(p)
  /\ pc[e] = "unmatch" /\ choice[e] = "no_invoice" => Left(Hand(e))

StrandInv ==
  /\ InsertingNewer
  /\ \A p \in Payments : reason[p] = "no_invoice" => Left(p)
  /\ \A e \in Engines : Leaves(e)

LEMMA StrandInit == Init => ReasonsBehind /\ StrandInv
<1> SUFFICES ASSUME Init PROVE ReasonsBehind /\ StrandInv
  OBVIOUS
<1>1. /\ \A p \in Payments : reason[p] = None
      /\ \A e \in Engines : /\ rows[e] = {} /\ pc[e] = "idle"
                            /\ \A p \in Payments : staged[e].reason[p] = None
      /\ Recorded = {} /\ None # "no_invoice"
  BY ReconcilerAssumption DEF Init, Nothing, Recorded, Reasons
<1>2. ReasonsBehind
  BY <1>1 DEF ReasonsBehind, Behind
<1>3. StrandInv
  BY <1>1 DEF StrandInv, InsertingNewer, Leaves
<1> QED BY <1>2, <1>3

(* The reasons of a pass come from the row in hand.                        *)
LEMMA ApplyReasons ==
  ASSUME Base, NEW e \in Engines, Apply(e), NEW p \in Payments
  PROVE  \/ staged'[e].reason[p] = staged[e].reason[p]
         \/ /\ MarkUnmatched(e) /\ pc[e] = "unmatch" /\ p = Hand(e) /\ p \in rows[e]
            /\ staged'[e].reason[p] = choice[e]
<1>1. CASE MarkUnmatched(e)
  <2>1. /\ EngineBase /\ StagedShape /\ pc[e] = "unmatch" /\ choice[e] \in Reasons
        /\ Hand(e) \in rows[e] /\ Hand(e) \in Payments
    BY <1>1, HandIn DEF Base, EngineBase, Place, AtRow, MarkUnmatched
  <2>2. CASE status[Hand(e)] = "unmatched"
    <3>1. staged' = [staged EXCEPT ![e].reason[Hand(e)] = choice[e]]
      BY <1>1, <2>2 DEF MarkUnmatched
    <3> DEFINE h == Hand(e)
    <3>2. h \in Payments /\ staged' = [staged EXCEPT ![e].reason[h] = choice[e]]
      BY <2>1, <3>1
    <3> HIDE DEF h
    <3>3. /\ StagedShape'
          /\ \A f \in Engines \ {e} : staged'[f] = staged[f]
          /\ staged'[e].alloc = staged[e].alloc /\ staged'[e].matched = staged[e].matched
          /\ staged'[e].reason[h] = choice[e]
          /\ \A q \in Payments \ {h} : staged'[e].reason[q] = staged[e].reason[q]
      BY <2>1, <3>2, StagedReasonSet
    <3>4. /\ staged'[e].reason[Hand(e)] = choice[e]
          /\ \A q \in Payments \ {Hand(e)} : staged'[e].reason[q] = staged[e].reason[q]
      BY <3>3 DEF h
    <3> QED BY <1>1, <2>1, <3>4
  <2>3. CASE status[Hand(e)] # "unmatched"
    BY <1>1, <2>3 DEF MarkUnmatched
  <2> QED BY <2>2, <2>3
<1>2. CASE ~MarkUnmatched(e)
  BY <1>2, FindInvoiceEffect, InsertAllocationEffect, MarkMatchedEffect, LockInvoiceEffect,
     UpdateInvoiceEffect DEF Apply
<1> QED BY <1>1, <1>2

(* But for a pass that commits and a match by hand, reasons stay.          *)
LEMMA ReasonStep ==
  ASSUME Base, [Next]_vars, NEW p \in Payments, reason'[p] # None, reason'[p] # reason[p]
  PROVE  \E e \in Engines : CommitPass(e) /\ staged[e].reason[p] = reason'[p]
<1>1. CASE Elsewhere
  <2>1. (\E q \in Payments, i \in Invoices : MatchByHand(q, i)) \/ reason' = reason
    BY <1>1 DEF Elsewhere, BeginPayment, CommitPayment, AbortPayment, AgeOut, BeginInvoice,
                CommitInvoice, AbortInvoice, IgnoreByHand, CancelByHand, vars, payVars
  <2> QED BY <2>1 DEF MatchByHand, Base, TableBase
<1>2. ASSUME NEW e \in Engines, Does(e)
      PROVE  CommitPass(e) /\ staged[e].reason[p] = reason'[p]
  <2>1. CommitPass(e)
    BY <1>2, DoesKeeps DEF payVars
  <2>2. TakesOver(staged[e])
    BY <2>1, CommitPassEffect
  <2> QED BY <2>1, <2>2 DEF TakesOver
<1> QED BY <1>1, <1>2, NextSplit

LEMMA ReasonsBehindNext ==
  ASSUME Base, RowsInv, ReasonsBehind, [Next]_vars
  PROVE  ReasonsBehind'
<1>1. /\ cursor <= cursor' /\ cursor \in Nat /\ cursor' \in Nat
      /\ \A p \in Payments : p \in Nat
      /\ \A e \in Engines : upper[e] \in Nat
  BY CursorGrows, BaseNext, ReconcilerAssumption DEF Base, EngineBase, Payments
<1>2. ASSUME NEW p \in Payments, reason'[p] # None PROVE p <= cursor'
  <2>1. CASE reason'[p] = reason[p]
    BY <1>1, <1>2, <2>1 DEF ReasonsBehind
  <2>2. CASE reason'[p] # reason[p]
    <3>1. PICK e \in Engines : CommitPass(e) /\ staged[e].reason[p] = reason'[p]
      BY <1>2, <2>2, ReasonStep
    <3>2. cursor' = Upper(e)
      BY <3>1 DEF CommitPass
    <3> QED BY <1>2, <3>1, <3>2 DEF ReasonsBehind, Behind
  <2> QED BY <2>1, <2>2
<1>3. ASSUME NEW f \in Engines,
             UNCHANGED <<rows[f], staged[f], upper[f]>>, curLock' = f <=> curLock = f
      PROVE  Behind(f)'
  BY <1>1, <1>3 DEF ReasonsBehind, Behind, Upper, InNewPass
<1>4. CASE Elsewhere
  BY <1>2, <1>3, <1>4, ElsewhereEffect DEF ReasonsBehind, engineVars, locks, passVars
<1>5. ASSUME NEW e \in Engines, Does(e) PROVE ReasonsBehind'
  <2>1. \A f \in Engines \ {e} : Behind(f)'
    BY <1>3, <1>5, DoesEffect DEF OthersKept
  <2>2. Behind(e)'
    <3>1. CASE LockCursor(e)
      BY <3>1, LockCursorEffect DEF Base, Place, Outside, LockCursor, Behind, Nothing
    <3>2. CASE ReadPayments(e)
      <4>1. staged'[e] = Nothing /\ Place(e)' /\ curLock = e
        BY <3>2, ReadPaymentsEffect DEF Base, Place, Outside
      <4>2. CASE Reads(e)
        BY <4>1, <4>2 DEF Reads, Behind, Upper, InNewPass, Nothing
      <4>3. CASE pc'[e] = "recheck"
        BY <4>1, <4>3 DEF Place, Outside, Behind, Nothing
      <4> QED BY <3>2, <4>2, <4>3, ReadPaymentsEffect
    <3>3. CASE SelectRecheck(e)
      <4>1. /\ staged'[e] = Nothing /\ curLock' # e /\ cursor' = cursor
            /\ \A p \in rows'[e] : p <= cursor
        BY <3>3, SelectRecheckEffect DEF Base, Place, Outside
      <4> QED BY <4>1 DEF Behind, Upper, InNewPass, Nothing
    <3>4. CASE Apply(e)
      <4>1. UNCHANGED <<cursor, curLock, upper>> /\ rows'[e] \subseteq rows[e] /\ Upper(e)' = Upper(e)
        BY <3>4, ApplyEffect DEF InPass, Upper, InNewPass
      <4>2. ASSUME NEW p \in Payments, p \in rows'[e] \/ staged'[e].reason[p] # None
            PROVE  p \in rows[e] \/ staged[e].reason[p] # None
        BY <3>4, <4>1, <4>2, ApplyReasons
      <4> QED BY <4>1, <4>2 DEF ReasonsBehind, Behind
    <3>5. CASE CommitPass(e) \/ RollBack(e) \/ BeginRun(e)
      BY <3>5, CommitPassEffect, RollBackEffect, BeginRunEffect DEF Ended, Behind, Nothing
    <3> QED BY <1>5, <3>1, <3>2, <3>3, <3>4, <3>5 DEF Does
  <2> QED BY <1>2, <2>1, <2>2 DEF ReasonsBehind
<1> QED BY <1>4, <1>5, NextSplit

(* An invoice begins, or it is there already and no payment it is newer    *)
(* than changes.                                                           *)
InvoiceStep(i) ==
  \/ standing'[i] = "absent"
  \/ BeginInvoice(i) /\ standing'[i] = "inserting"
  \/ /\ standing'[i] = "inserting" => standing[i] = "inserting"
     /\ i \in Issued' => i \in Issued \/ standing[i] = "inserting"
     /\ \A p \in Payments : <<i, p>> \in newer => <<i, p>> \in newer'

LEMMA InvoiceSteps ==
  ASSUME IInv, [Next]_vars, NEW i \in Invoices
  PROVE  InvoiceStep(i)
<1>1. InvoiceBase
  BY DEF IInv, LedgerInv
<1>2. CASE Elsewhere
  <2>1. ASSUME NEW j \in Invoices, BeginInvoice(j) PROVE InvoiceStep(i)
    <3>1. /\ standing'[i] = IF i = j THEN "inserting" ELSE standing[i]
          /\ newer \subseteq newer'
      BY <1>1, <2>1 DEF BeginInvoice, InvoiceBase
    <3> QED BY <2>1, <3>1 DEF InvoiceStep, Issued
  <2>2. ASSUME NEW j \in Invoices, CommitInvoice(j) PROVE InvoiceStep(i)
    BY <1>1, <2>2 DEF CommitInvoice, payVars, InvoiceBase, InvoiceStep, Issued
  <2>3. ASSUME NEW j \in Invoices, AbortInvoice(j) PROVE InvoiceStep(i)
    <3>1. /\ standing'[i] = IF i = j THEN "absent" ELSE standing[i]
          /\ \A p \in Payments : i # j /\ <<i, p>> \in newer => <<i, p>> \in newer'
      BY <1>1, <2>3 DEF AbortInvoice, InvoiceBase
    <3> QED BY <3>1 DEF InvoiceStep, Issued
  <2>4. ASSUME NEW q \in Payments, NEW j \in Invoices, MatchByHand(q, j) PROVE InvoiceStep(i)
    <3>1. PICK t : standing' = [standing EXCEPT ![j] = StatusFor(j, t)]
      BY <2>4 DEF MatchByHand
    <3>2. j \in Issued /\ newer' = newer /\ StatusFor(j, t) \notin {"absent", "inserting"}
      BY <2>4, StatusType DEF MatchByHand
    <3> QED BY <1>1, <3>1, <3>2 DEF InvoiceBase, InvoiceStep, Issued
  <2>5. ASSUME NEW j \in Invoices, CancelByHand(j) PROVE InvoiceStep(i)
    BY <1>1, <2>5 DEF CancelByHand, payVars, InvoiceBase, InvoiceStep, Issued
  <2>6. CASE UNCHANGED <<standing, newer>>
    BY <2>6 DEF InvoiceStep, Issued
  <2> QED BY <1>2, <2>1, <2>2, <2>3, <2>4, <2>5, <2>6
          DEF Elsewhere, BeginPayment, CommitPayment, AbortPayment, AgeOut, IgnoreByHand, vars,
              payVars, invVars
<1>3. ASSUME NEW e \in Engines, Does(e), CommitPass(e) PROVE InvoiceStep(i)
  <2>1. i \notin Issued => staged[e].received[i] = None
    BY Known
  <2>2. /\ standing'[i] = IF staged[e].received[i] # None
                            THEN StatusFor(i, staged[e].received[i]) ELSE standing[i]
        /\ newer' = newer
    BY <1>3 DEF CommitPass
  <2>3. StatusFor(i, staged[e].received[i]) \notin {"absent", "inserting"}
    BY StatusType
  <2> QED BY <2>1, <2>2, <2>3 DEF InvoiceStep, Issued
<1>4. ASSUME NEW e \in Engines, Does(e), ~CommitPass(e) PROVE InvoiceStep(i)
  <2>1. UNCHANGED <<standing, newer>>
    BY <1>4 DEF Does, LockCursor, ReadPayments, SelectRecheck, Apply, FindInvoice,
                InsertAllocation, MarkMatched, LockInvoice, UpdateInvoice, MarkUnmatched,
                RollBack, BeginRun, committed, invVars, payVars
  <2> QED BY <2>1 DEF InvoiceStep, Issued
<1> QED BY <1>2, <1>3, <1>4, NextSplit

LEMMA LeftStays ==
  ASSUME IInv, InsertingNewer, TableStep, [Next]_vars, NEW p \in Payments, Left(p)
  PROVE  Left(p)'
<1>1. p \in Recorded'
  BY DEF Left, TableStep
<1>2. ASSUME NEW i \in Issued', Account[i] = Account[p], i \in ByReference[p] \cup ByNumber[p]
      PROVE  <<i, p>> \in newer'
  <2>1. i \in Invoices /\ standing'[i] \notin {"absent", "inserting"}
    BY <1>2 DEF Issued
  <2>2. /\ i \in Issued \/ standing[i] = "inserting"
        /\ <<i, p>> \in newer => <<i, p>> \in newer'
    BY <1>2, <2>1, InvoiceSteps DEF InvoiceStep
  <2> QED BY <1>2, <2>1, <2>2 DEF Left, InsertingNewer
<1> QED BY <1>1, <1>2 DEF Left

LEMMA InsertingNewerNext ==
  ASSUME InOrder, IInv, InsertingNewer, TableStep, [Next]_vars
  PROVE  InsertingNewer'
<1> SUFFICES ASSUME NEW p \in Recorded', NEW i \in Invoices, standing'[i] = "inserting"
             PROVE  <<i, p>> \in newer'
  BY DEF InsertingNewer
<1>1. p \in Payments /\ TableBase /\ FreshAbsent
  BY DEF Recorded, IInv, Base, BookInv
<1>2. CASE BeginInvoice(i)
  <2>1. p \in Recorded /\ newer' = newer \cup {<<i, q>> : q \in 1 .. nextId - 1}
    BY <1>2 DEF BeginInvoice, Recorded
  <2>2. p \in 1 .. nextId - 1
    BY <1>1, <2>1, ReconcilerAssumption DEF Recorded, FreshAbsent, TableBase, Payments
  <2> QED BY <2>1, <2>2
<1>3. CASE ~BeginInvoice(i)
  <2>1. standing[i] = "inserting" /\ (<<i, p>> \in newer => <<i, p>> \in newer')
    BY <1>1, <1>3, InvoiceSteps DEF InvoiceStep
  <2>2. p \in Recorded \/ CommitPayment(p)
    BY <1>1 DEF TableStep
  <2> QED BY <2>1, <2>2 DEF InsertingNewer, CommitPayment
<1> QED BY <1>2, <1>3

(* When no invoice is found, there is none that the payment names.         *)
LEMMA NoneFound ==
  ASSUME NEW p \in Recorded, NEW i \in Found(p), Decide(p, i) = "no_invoice"
  PROVE  Left(p)
<1>1. i \notin Invoices
  BY ReconcilerAssumption DEF Decide, Reasons
<1>2. Candidates(p) \subseteq Invoices
  BY DEF Candidates, Issued
<1>3. Candidates(p) = {} /\ p \notin Keyless
  BY <1>1, <1>2 DEF Found, Decide
<1> QED BY <1>3 DEF Candidates, Left

LEMMA LeavesApply ==
  ASSUME IInv, NEW e \in Engines, Apply(e), Leaves(e), \A p \in Payments : Left(p) => Left(p)'
  PROVE  Leaves(e)'
<1>1. EngineBase /\ Base /\ rows[e] \subseteq Recorded
  BY DEF IInv, Base, BookInv, Stage
<1>2. CASE FindInvoice(e)
  <2>1. rows[e] # {} /\ UNCHANGED <<rows, staged>>
    BY <1>1, <1>2, FindInvoiceEffect
  <2>2. Hand(e) \in Recorded /\ Hand(e) \in Payments /\ Hand(e)' = Hand(e)
    BY <1>1, <2>1, HandIn DEF Hand
  <2>3. PICK i \in Found(Hand(e)) : choice' = [choice EXCEPT ![e] = Decide(Hand(e), i)]
    BY <1>2 DEF FindInvoice
  <2>4. choice'[e] = Decide(Hand(e), i)
    BY <1>1, <2>3 DEF EngineBase
  <2>5. choice'[e] = "no_invoice" => Left(Hand(e))
    BY <2>2, <2>4, NoneFound
  <2> QED BY <2>1, <2>2, <2>5 DEF Leaves
<1>3. CASE ~FindInvoice(e)
  <2>1. pc'[e] # "unmatch"
    BY <1>1, <1>3, InsertAllocationEffect, MarkMatchedEffect, LockInvoiceEffect,
       UpdateInvoiceEffect, MarkUnmatchedEffect DEF Apply
  <2>2. ASSUME NEW p \in Payments, staged'[e].reason[p] = "no_invoice" PROVE Left(p)
    BY <1>1, <2>2, ApplyReasons DEF Leaves
  <2> QED BY <2>1, <2>2 DEF Leaves
<1> QED BY <1>2, <1>3

LEMMA StrandInvNext ==
  ASSUME InOrder, IInv, StrandInv, [Next]_vars
  PROVE  StrandInv'
<1>1. Base /\ TableStep /\ InsertingNewer
  BY TableNext DEF IInv, StrandInv
<1>2. \A p \in Payments : Left(p) => Left(p)'
  BY <1>1, LeftStays
<1>3. InsertingNewer'
  BY <1>1, InsertingNewerNext
<1>4. ASSUME NEW p \in Payments, reason'[p] = "no_invoice" PROVE Left(p)'
  <2>1. CASE reason'[p] = reason[p]
    BY <1>2, <1>4, <2>1 DEF StrandInv
  <2>2. CASE reason'[p] # reason[p]
    <3>1. reason'[p] # None
      BY <1>4, ReconcilerAssumption DEF Reasons
    <3>2. PICK e \in Engines : CommitPass(e) /\ staged[e].reason[p] = reason'[p]
      BY <1>1, <2>2, <3>1, ReasonStep
    <3> QED BY <1>2, <1>4, <3>2 DEF StrandInv, Leaves
  <2> QED BY <2>1, <2>2
<1>5. ASSUME NEW f \in Engines, UNCHANGED <<pc[f], rows[f], staged[f], choice[f]>>
      PROVE  Leaves(f)'
  <2>1. Hand(f)' = Hand(f)
    BY <1>5 DEF Hand
  <2>2. pc[f] = "unmatch" => Hand(f) \in Payments
    BY <1>1, HandIn DEF Base, Place, AtRow
  <2> QED BY <1>2, <1>5, <2>1, <2>2 DEF StrandInv, Leaves
<1>6. CASE Elsewhere
  BY <1>3, <1>4, <1>5, <1>6, ElsewhereEffect DEF StrandInv, engineVars, passVars
<1>7. ASSUME NEW e \in Engines, Does(e) PROVE StrandInv'
  <2>1. \A f \in Engines \ {e} : Leaves(f)'
    BY <1>1, <1>5, <1>7, DoesEffect DEF OthersKept
  <2>2. Leaves(e)'
    <3>1. CASE Apply(e)
      BY <1>2, <3>1, LeavesApply DEF StrandInv
    <3>2. CASE LockCursor(e) \/ ReadPayments(e) \/ SelectRecheck(e)
      <4>1. staged'[e] = Nothing /\ pc'[e] # "unmatch"
        BY <1>1, <3>2, LockCursorEffect, ReadPaymentsEffect, SelectRecheckEffect
           DEF Base, Place, Outside, LockCursor, Reads
      <4> QED BY <4>1, ReconcilerAssumption DEF Leaves, Nothing, Reasons
    <3>3. CASE CommitPass(e) \/ RollBack(e) \/ BeginRun(e)
      <4>1. staged'[e] = Nothing /\ pc'[e] # "unmatch"
        BY <1>1, <3>3, CommitPassEffect, RollBackEffect, BeginRunEffect DEF Ended, Outside
      <4> QED BY <4>1, ReconcilerAssumption DEF Leaves, Nothing, Reasons
    <3> QED BY <1>7, <3>1, <3>2, <3>3 DEF Does
  <2> QED BY <1>3, <1>4, <2>1, <2>2 DEF StrandInv
<1> QED BY <1>6, <1>7, NextSplit

(* When inserts commit in the order they began, every payment left without *)
(* an invoice is rechecked once an invoice it names is there, for as long  *)
(* as it is recent: comparing issued_at with recorded_at loses none.       *)
THEOREM NoPaymentStranded ==
  ASSUME InOrder
  PROVE  Spec => []NoneStranded
<1> DEFINE Inv == IInv /\ HistoryBase /\ RowsInv /\ ReasonsBehind /\ StrandInv
<1>1. Init => Inv
  <2>1. Init => HistoryBase
    BY DEF Init, HistoryBase
  <2> QED BY <2>1, BaseInit, BookInvInit, LedgerInit, RowsInvInit, StrandInit DEF IInv
<1>2. Inv /\ [Next]_vars => Inv'
  <2> SUFFICES ASSUME Inv, [Next]_vars PROVE Inv'
    OBVIOUS
  <2>1. Base /\ BookInv
    BY DEF IInv
  <2>2. IInv'
    BY <2>1, BaseNext, BookInvNext, LedgerNext DEF IInv
  <2> QED BY <2>1, <2>2, HistoryNext, RowsInvNext, ReasonsBehindNext, StrandInvNext
<1>3. Inv => NoneStranded
  <2> SUFFICES ASSUME Inv, NEW p \in recent, status[p] = "unmatched", reason[p] = "no_invoice",
                      NEW i \in Candidates(p)
               PROVE  p \in Recheckable
    BY DEF NoneStranded
  <2>1. p \in Payments /\ reason[p] # None
    BY ReconcilerAssumption DEF HistoryBase, Reasons
  <2>2. p <= cursor /\ Left(p)
    BY <2>1 DEF ReasonsBehind, StrandInv
  <2>3. i \in Issued /\ Account[i] = Account[p] /\ i \in ByReference[p] \cup ByNumber[p]
    BY DEF Candidates
  <2> QED BY <2>2, <2>3 DEF Left, Recheckable
<1> QED BY <1>1, <1>2, <1>3, PTL DEF Spec

-----------------------------------------------------------------------------
(* The tables are a Settlement.                                            *)

LEMMA SumIsEarned ==
  ASSUME NEW i, NEW entries
  PROVE  Books!Earned(entries, i) = Sum({p \in Payments : entries[p] = i})
BY Zenon DEF Books!Earned, Books!MapThenSumSet, Books!MapThenFoldSet, Sum, MapThenSumSet,
             MapThenFoldSet

(* A step that adds entries to issued invoices is Settle.                  *)
LEMMA SettleStep ==
  ASSUME IInv, IInv',
         \A p \in Payments : alloc'[p] = alloc[p] \/ (alloc[p] = None /\ alloc'[p] \in Issued),
         Issued' = Issued,
         \A i \in Invoices : standing'[i] = "cancelled" <=> standing[i] = "cancelled"
  PROVE  Books!Settle
<1>1. /\ alloc' \in [Payments -> Invoices \cup {None}]
      /\ received' \in [Invoices -> Nat]
      /\ standing \in [Invoices -> Standings] /\ standing' \in [Invoices -> Standings]
  BY DEF IInv, Base, TableBase, LedgerInv, InvoiceBase
<1>2. ASSUME NEW i \in Invoices
      PROVE  received'[i] = Sum({p \in Payments : alloc'[p] = i})
  <2>1. CASE i \in Issued'
    BY <2>1 DEF IInv, LedgerInv, ReceivedIsAllocated
  <2>2. CASE i \notin Issued'
    <3>1. received'[i] = 0 /\ \A p \in Payments : alloc'[p] # i
      BY <2>2 DEF IInv, LedgerInv, Unissued, Untouched
    <3>2. {p \in Payments : alloc'[p] = i} = {}
      BY <3>1
    <3> QED BY <3>1, <3>2, SumEmpty
  <2> QED BY <2>1, <2>2
<1>3. ASSUME NEW i \in Issued, standing[i] # "cancelled"
      PROVE  standing'[i] = Books!Standing(i, received'[i])
  <2>1. i \in Invoices /\ i \in Issued' /\ standing'[i] # "cancelled"
    BY <1>3 DEF Issued
  <2>2. standing'[i] = StatusFor(i, received[i])'
    BY <2>1 DEF IInv, LedgerInv, ReceivedIsAllocated
  <2>3. received'[i] \in Nat /\ Amount[i] \in Nat
    BY <1>1, <2>1, ReconcilerAssumption
  <2> QED BY <2>1, <2>2, <2>3 DEF StatusFor, Books!Standing
<1> DEFINE shown == [i \in Invoices |-> IF standing[i] = "inserting" THEN "absent" ELSE standing[i]]
<1>4. /\ \A i \in Invoices : i \in Issued => shown[i] = standing[i] /\ shown'[i] = standing'[i]
      /\ \A i \in Invoices : i \notin Issued => shown[i] = "absent" /\ shown'[i] = "absent"
  <2>1. \A i \in Invoices : i \in Issued <=> standing[i] \notin {"absent", "inserting"}
    BY DEF Issued
  <2>2. \A i \in Invoices : i \in Issued <=> standing'[i] \notin {"absent", "inserting"}
    BY DEF Issued
  <2> QED BY <2>1, <2>2
<1>5. \A p \in Payments :
        alloc'[p] = alloc[p] \/ (alloc[p] = None /\ shown[alloc'[p]] # "absent")
  BY <1>4 DEF Issued
<1>6. received' = [i \in Invoices |-> Books!Earned(alloc', i)]
  BY <1>1, <1>2, SumIsEarned
<1>7. shown' = [i \in Invoices |->
                  IF shown[i] \in {"absent", "cancelled"}
                    THEN shown[i] ELSE Books!Standing(i, received'[i])]
  <2>1. shown' = [i \in Invoices |-> shown'[i]]
    OBVIOUS
  <2>2. ASSUME NEW i \in Invoices
        PROVE  shown'[i] = IF shown[i] \in {"absent", "cancelled"}
                             THEN shown[i] ELSE Books!Standing(i, received'[i])
    <3> HIDE DEF shown
    <3>1. CASE i \notin Issued
      BY <1>4, <3>1
    <3>2. CASE i \in Issued /\ standing[i] = "cancelled"
      BY <1>4, <3>2
    <3>3. CASE i \in Issued /\ standing[i] # "cancelled"
      <4>1. shown'[i] = Books!Standing(i, received'[i])
        BY <1>3, <1>4, <3>3
      <4>2. shown[i] \notin {"absent", "cancelled"}
        BY <1>4, <3>3 DEF Issued
      <4> QED BY <4>1, <4>2
    <3> QED BY <3>1, <3>2, <3>3
  <2> HIDE DEF shown
  <2> QED BY <2>1, <2>2
<1> QED BY <1>1, <1>5, <1>6, <1>7 DEF Books!Settle

LEMMA CommitSettles ==
  ASSUME IInv, IInv', NEW e \in Engines, CommitPass(e)
  PROVE  Books!Settle
<1> DEFINE w == staged[e]
<1>1. /\ alloc' = [p \in Payments |-> IF w.alloc[p] # None THEN w.alloc[p] ELSE alloc[p]]
      /\ standing' = [i \in Invoices |-> IF w.received[i] # None
                                           THEN StatusFor(i, w.received[i]) ELSE standing[i]]
  BY DEF CommitPass
<1>2. /\ \A i \in Invoices \ Issued :
           w.received[i] = None /\ \A p \in Payments : w.alloc[p] # i
      /\ \A p \in Payments : w.alloc[p] # None => alloc[p] = None /\ w.alloc[p] \in Invoices
      /\ standing \in [Invoices -> Standings]
  <2>1. /\ Shape(w) /\ Entries(e) /\ InvoiceBase
        /\ \A i \in Invoices \ Issued :
             w.received[i] = None /\ \A p \in Payments : w.alloc[p] # i
    BY Known
  <2>2. w.alloc \in [Payments -> Invoices \cup {None}]
    <3> HIDE DEF w
    <3> QED BY <2>1 DEF Shape
  <2>3. ASSUME NEW p \in Payments, w.alloc[p] # None
        PROVE  alloc[p] = None /\ w.alloc[p] \in Invoices
    <3>1. alloc[p] = None
      BY <2>1, <2>3 DEF Entries
    <3> HIDE DEF w
    <3> QED BY <2>2, <2>3, <3>1
  <2>4. standing \in [Invoices -> Standings]
    BY <2>1 DEF InvoiceBase
  <2> QED BY <2>1, <2>3, <2>4
<1> HIDE DEF w
<1>3. \A p \in Payments : alloc'[p] = alloc[p] \/ (alloc[p] = None /\ alloc'[p] \in Issued)
  BY <1>1, <1>2
<1>4. \A i \in Invoices : /\ standing'[i] = "cancelled" <=> standing[i] = "cancelled"
                          /\ i \in Issued => standing'[i] \notin {"absent", "inserting"}
                          /\ i \notin Issued => standing'[i] = standing[i]
  <2> SUFFICES ASSUME NEW i \in Invoices
               PROVE  /\ standing'[i] = "cancelled" <=> standing[i] = "cancelled"
                      /\ i \in Issued => standing'[i] \notin {"absent", "inserting"}
                      /\ i \notin Issued => standing'[i] = standing[i]
    OBVIOUS
  <2>1. CASE w.received[i] = None
    BY <1>1, <2>1 DEF Issued
  <2>2. CASE w.received[i] # None
    BY <1>1, <1>2, <2>2, StatusType
  <2> QED BY <2>1, <2>2
<1>5. Issued' = Issued
  BY <1>4 DEF Issued
<1> QED BY <1>3, <1>4, <1>5, SettleStep

LEMMA MatchSettles ==
  ASSUME IInv, IInv', NEW p \in Payments, NEW i \in Invoices, MatchByHand(p, i)
  PROVE  Books!Settle
<1> DEFINE total == Sum({q \in Payments : alloc'[q] = i})
<1>1. /\ alloc' = [alloc EXCEPT ![p] = i]
      /\ standing' = [standing EXCEPT ![i] = StatusFor(i, total)]
      /\ i \in Issued /\ status[p] = "unmatched" /\ standing[i] # "cancelled"
  BY DEF MatchByHand
<1> HIDE DEF total
<1>2. alloc[p] = None /\ alloc \in [Payments -> Invoices \cup {None}]
      /\ standing \in [Invoices -> Standings]
  BY <1>1 DEF IInv, BookInv, MatchedIsAllocated, Base, TableBase, LedgerInv, InvoiceBase
<1>3. StatusFor(i, total) \in Standings \ {"absent", "inserting", "cancelled"}
  BY <1>1, StatusType
<1>4. \A q \in Payments : alloc'[q] = alloc[q] \/ (alloc[q] = None /\ alloc'[q] \in Issued)
  BY <1>1, <1>2
<1>5. \A j \in Invoices : standing'[j] = "cancelled" <=> standing[j] = "cancelled"
  BY <1>1, <1>2, <1>3
<1>6. Issued' = Issued
  BY <1>1, <1>2, <1>3 DEF Issued
<1> QED BY <1>4, <1>5, <1>6, SettleStep

LEMMA ElsewhereBooks ==
  ASSUME IInv, IInv', Elsewhere
  PROVE  [Books!Next]_(Books!vars)
<1> DEFINE shown == [i \in Invoices |-> IF standing[i] = "inserting" THEN "absent" ELSE standing[i]]
<1>1. standing \in [Invoices -> Standings]
  BY DEF IInv, LedgerInv, InvoiceBase
<1>2. CASE \E p \in Payments, i \in Invoices : MatchByHand(p, i)
  BY <1>2, MatchSettles DEF Books!Next
<1>3. ASSUME UNCHANGED <<alloc, received>>, shown' = shown PROVE [Books!Next]_(Books!vars)
  BY <1>3 DEF Books!vars
<1>4. ASSUME NEW i \in Invoices, BeginInvoice(i) \/ AbortInvoice(i)
      PROVE  [Books!Next]_(Books!vars)
  <2>1. /\ UNCHANGED <<alloc, received>> /\ standing[i] \in {"absent", "inserting"}
        /\ \/ standing' = [standing EXCEPT ![i] = "inserting"]
           \/ standing' = [standing EXCEPT ![i] = "absent"]
    BY <1>4 DEF BeginInvoice, AbortInvoice, payVars
  <2>2. shown' = shown
    BY <1>1, <2>1
  <2> QED BY <1>3, <2>1, <2>2
<1>5. ASSUME NEW i \in Invoices, CommitInvoice(i) PROVE [Books!Next]_(Books!vars)
  <2>1. /\ UNCHANGED <<alloc, received>> /\ standing[i] = "inserting"
        /\ standing' = [standing EXCEPT ![i] = "open"]
    BY <1>5 DEF CommitInvoice, payVars
  <2>2. shown[i] = "absent" /\ shown' = [shown EXCEPT ![i] = "open"]
    BY <1>1, <2>1
  <2>3. Books!Issue(i)
    BY <2>1, <2>2 DEF Books!Issue
  <2> QED BY <2>3 DEF Books!Next
<1>6. ASSUME NEW i \in Invoices, CancelByHand(i) PROVE [Books!Next]_(Books!vars)
  <2>1. /\ UNCHANGED <<alloc, received>> /\ standing[i] \notin {"absent", "inserting", "cancelled"}
        /\ standing' = [standing EXCEPT ![i] = "cancelled"]
    BY <1>6 DEF CancelByHand, payVars, Issued
  <2>2. shown[i] \notin {"absent", "cancelled"} /\ shown' = [shown EXCEPT ![i] = "cancelled"]
    BY <1>1, <2>1
  <2>3. Books!Cancel(i)
    BY <2>1, <2>2 DEF Books!Cancel
  <2> QED BY <2>3 DEF Books!Next
<1>7. CASE \/ BeginPayment
           \/ \E p \in Payments : CommitPayment(p) \/ AbortPayment(p) \/ AgeOut(p)
           \/ \E p \in Payments : IgnoreByHand(p)
           \/ UNCHANGED vars
  <2>1. UNCHANGED <<alloc, received, standing>>
    BY <1>7 DEF BeginPayment, CommitPayment, AbortPayment, AgeOut, IgnoreByHand, vars, payVars,
                invVars
  <2> QED BY <1>3, <2>1
<1> QED BY <1>2, <1>4, <1>5, <1>6, <1>7 DEF Elsewhere

(* Every step of the tables is a step of Settlement or a stutter: an       *)
(* allocation is made once and never moved, whoever makes it, and invoices *)
(* add up at every moment.                                                 *)
THEOREM TablesSettle == Spec => ImplementsSettlement
<1>1. Init => Books!Init
  <2> SUFFICES ASSUME Init PROVE Books!Init
    OBVIOUS
  <2> QED BY DEF Init, Books!Init
<1>2. ASSUME IInv, IInv', [Next]_vars PROVE [Books!Next]_(Books!vars)
  <2>1. CASE Elsewhere
    BY <1>2, <2>1, ElsewhereBooks
  <2>2. ASSUME NEW e \in Engines, Does(e) PROVE [Books!Next]_(Books!vars)
    <3>1. CASE CommitPass(e)
      BY <1>2, <3>1, CommitSettles DEF Books!Next
    <3>2. CASE ~CommitPass(e)
      <4>1. Uncommitted(e)
        BY <1>2, <2>2, <3>2, FindInvoiceLedger, InsertAllocationLedger, MarkMatchedLedger,
           LockInvoiceLedger, UpdateInvoiceLedger, MarkUnmatchedLedger, BeforePassLedger,
           RolledBackLedger DEF Does, Apply
      <4> QED BY <4>1 DEF Uncommitted, Books!vars
    <3> QED BY <3>1, <3>2
  <2> QED BY <1>2, <2>1, <2>2, NextSplit
<1> QED BY <1>1, <1>2, IInvAlways, PTL DEF Spec, ImplementsSettlement, Books!Spec

-----------------------------------------------------------------------------
(* What a settlement promises, and therefore the tables.                   *)

LEMMA SettlementKeepsPromise == Books!Spec => Books!EntriesStand
<1>1. [Books!Next]_(Books!vars) => [Books!Stands]_(Books!vars)
  BY DEF Books!Stands, Books!Next, Books!Settle, Books!Issue, Books!Cancel
<1> QED BY <1>1, PTL DEF Books!Spec, Books!EntriesStand

(* Whatever engines, hands, crashes and deadlocks there are, an allocation *)
(* that is committed is never moved to another invoice or removed, and a   *)
(* cancelled invoice stays cancelled though payments still reach it.       *)
THEOREM AllocationsStand == Spec => Books!EntriesStand
BY TablesSettle, SettlementKeepsPromise, PTL DEF ImplementsSettlement
=============================================================================
