-------------------------- MODULE ReconcilerProofs --------------------------
(***************************************************************************)
(* Theorems about Reconciler for every value of its constants that meets   *)
(* ReconcilerAssumption: any number of payments, invoices and engines, any *)
(* batch, any lookups, whatever the backend does by hand.                  *)
(***************************************************************************)
EXTENDS Reconciler, Extrema, FiniteSetTheorems

-----------------------------------------------------------------------------
(* The smallest, the largest and the first Batch of some payments.         *)

LEMMA MinOfPayments ==
  ASSUME NEW S \in SUBSET Payments, S # {}
  PROVE  Min(S) \in S /\ \A p \in S : Min(S) <= p
<1>1. S \in SUBSET Nat
  BY DEF Payments
<1>2. \E x \in S : \A y \in S : x <= y
  BY <1>1, LeastNatural
<1> QED BY <1>2 DEF Min

LEMMA MaxOfPayments ==
  ASSUME NEW S \in SUBSET Payments, S # {}
  PROVE  Max(S) \in S /\ \A p \in S : p <= Max(S)
<1>1. S \in SUBSET (0 .. MaxPayments) /\ MaxPayments \in Nat
  BY ReconcilerAssumption DEF Payments
<1>2. PICK x \in S : \A y \in S : y <= x
  BY <1>1, GreatestUpTo
<1>3. \A y \in S : x >= y
  BY <1>1, <1>2
<1>4. Max(S) \in S /\ \A y \in S : Max(S) >= y
  BY <1>3 DEF Max
<1> QED BY <1>1, <1>4

(* What a pass reads has no gaps.                                          *)
LEMMA FirstOfPayments ==
  ASSUME NEW S \in SUBSET Payments, S # {}
  PROVE  /\ FirstOf(S) # {} /\ FirstOf(S) \subseteq S
         /\ \A p \in S : p <= Max(FirstOf(S)) => p \in FirstOf(S)
         /\ Max(FirstOf(S)) \in S
<1> DEFINE upto(p) == {q \in S : q <= p}
<1>0. S \in SUBSET Nat
  BY DEF Payments
<1>1. IsFiniteSet(S)
  <2>1. IsFiniteSet(1 .. MaxPayments)
    BY FS_Interval, ReconcilerAssumption
  <2> QED BY <2>1, FS_Subset, Zenon DEF Payments
<1>2. FirstOf(S) \subseteq S
  BY DEF FirstOf
<1>3. Min(S) \in FirstOf(S)
  <2>1. Min(S) \in S /\ \A p \in S : Min(S) <= p
    BY MinOfPayments
  <2>2. upto(Min(S)) = {Min(S)}
    <3>1. \A q \in S : q <= Min(S) => q = Min(S)
      <4> DEFINE k == Min(S)
      <4>1. k \in S /\ \A p \in S : k <= p
        BY <2>1
      <4> HIDE DEF k
      <4>2. \A q \in S : q <= k => q = k
        BY <1>0, <4>1
      <4> QED BY <4>2 DEF k
    <3>2. Min(S) <= Min(S)
      BY <1>0, <2>1
    <3> QED BY <2>1, <3>1, <3>2, Zenon
  <2>3. Cardinality(upto(Min(S))) = 1
    BY <2>2, FS_Singleton, Zenon
  <2> QED BY <2>1, <2>3, ReconcilerAssumption DEF FirstOf
<1>4. Max(FirstOf(S)) \in FirstOf(S)
  BY <1>2, <1>3, MaxOfPayments
<1>5. ASSUME NEW p \in S, p <= Max(FirstOf(S)) PROVE p \in FirstOf(S)
  <2> DEFINE m == Max(FirstOf(S))
  <2>1. m \in S /\ Cardinality(upto(m)) <= Batch
    BY <1>4 DEF FirstOf
  <2>2. upto(p) \in SUBSET upto(m)
    <3> HIDE DEF m
    <3>1. p \in Nat /\ m \in Nat /\ p <= m
      BY <1>5, <1>0, <2>1 DEF m
    <3>2. \A q \in S : q <= p => q <= m
      BY <1>0, <3>1
    <3> QED BY <3>2, Zenon
  <2>3. IsFiniteSet(upto(m))
    BY <1>1, FS_Subset
  <2>4. Cardinality(upto(p)) <= Cardinality(upto(m))
    BY <2>2, <2>3, FS_Subset
  <2>5. Cardinality(upto(p)) \in Nat /\ Cardinality(upto(m)) \in Nat
    BY <2>2, <2>3, FS_Subset, FS_CardinalityType
  <2>6. Cardinality(upto(p)) <= Batch
    BY <2>1, <2>4, <2>5, ReconcilerAssumption
  <2> QED BY <2>6 DEF FirstOf
<1> QED BY <1>2, <1>3, <1>4, <1>5

LEMMA FirstOfSubset == ASSUME NEW S PROVE FirstOf(S) \subseteq S
BY DEF FirstOf

-----------------------------------------------------------------------------
(* Types of all but the amounts, and the shape of what is staged.          *)

Shape(w) ==
  /\ w = [alloc |-> w.alloc, matched |-> w.matched, reason |-> w.reason,
          received |-> w.received]
  /\ w.alloc \in [Payments -> Invoices \cup {None}]
  /\ w.matched \in SUBSET Payments
  /\ w.reason \in [Payments -> Reasons \cup {None}]

StagedShape == /\ staged = [e \in Engines |-> staged[e]]
               /\ \A e \in Engines : Shape(staged[e])

(* The payments table.                                                     *)
TableBase ==
  /\ nextId \in 1 .. MaxPayments + 1
  /\ status \in [Payments -> {"absent", "inserting", "unmatched", "matched", "ignored"}]
  /\ reason \in [Payments -> Reasons \cup {None}]
  /\ alloc \in [Payments -> Invoices \cup {None}]

(* The engines, the cursor and the locks.                                  *)
EngineBase ==
  /\ cursor \in 0 .. MaxPayments
  /\ curLock \in Engines \cup {None}
  /\ payLock \in [Payments -> Engines \cup {None}]
  /\ pc \in [Engines -> Places]
  /\ rows \in [Engines -> SUBSET Payments]
  /\ upper \in [Engines -> 0 .. MaxPayments]
  /\ choice \in [Engines -> Invoices \cup Reasons \cup {None}]
  /\ worked \in [Engines -> BOOLEAN]
  /\ erred \in [Engines -> BOOLEAN]
  /\ seen \in [Engines -> SUBSET Payments]
  /\ StagedShape

(* What the place of an engine says of it.                                 *)
AtRow == {"allocate", "mark", "recalc", "update", "unmatch"}
Outside == {"idle", "read", "recheck", "done", "failed"}

Place(e) ==
  /\ pc[e] \in AtRow => rows[e] # {}
  /\ pc[e] \in AtRow \ {"unmatch"} => choice[e] \in Invoices
  /\ pc[e] = "unmatch" => choice[e] \in Reasons
  /\ pc[e] \in Outside => rows[e] = {} /\ staged[e] = Nothing
  /\ curLock = e => pc[e] \in AtRow \cup {"read", "apply"}
  /\ pc[e] = "read" => curLock = e

Base == TableBase /\ EngineBase /\ \A e \in Engines : Place(e)

LEMMA NothingShape == Shape(Nothing)
BY DEF Shape, Nothing

(* An engine stages something else.                                        *)
LEMMA StagedSet ==
  ASSUME StagedShape, NEW e \in Engines, NEW w, Shape(w), staged' = [staged EXCEPT ![e] = w]
  PROVE  /\ StagedShape'
         /\ staged'[e] = w
         /\ \A f \in Engines \ {e} : staged'[f] = staged[f]
<1>1. /\ staged'[e] = w
      /\ \A f \in Engines \ {e} : staged'[f] = staged[f]
      /\ staged' = [f \in Engines |-> staged'[f]]
  BY DEF StagedShape
<1> QED BY <1>1 DEF StagedShape

LEMMA StagedAllocSet ==
  ASSUME StagedShape, NEW e \in Engines, NEW p \in Payments, NEW i \in Invoices \cup {None},
         staged' = [staged EXCEPT ![e].alloc[p] = i]
  PROVE  /\ StagedShape'
         /\ \A f \in Engines \ {e} : staged'[f] = staged[f]
         /\ staged'[e].matched = staged[e].matched /\ staged'[e].reason = staged[e].reason
         /\ staged'[e].alloc[p] = i
         /\ \A q \in Payments \ {p} : staged'[e].alloc[q] = staged[e].alloc[q]
<1> DEFINE a == [staged[e].alloc EXCEPT ![p] = i]
           w == [alloc |-> a, matched |-> staged[e].matched, reason |-> staged[e].reason,
                 received |-> staged[e].received]
<1>1. Shape(staged[e])
  BY DEF StagedShape
<1>2. a \in [Payments -> Invoices \cup {None}] /\ a[p] = i
      /\ \A q \in Payments \ {p} : a[q] = staged[e].alloc[q]
  BY <1>1 DEF Shape
<1>3. [staged[e] EXCEPT !.alloc = a] = w
  <2> HIDE DEF a
  <2> QED BY <1>1 DEF Shape
<1>4. staged' = [staged EXCEPT ![e] = w]
  BY <1>3
<1>5. /\ w.alloc = a /\ w.matched = staged[e].matched /\ w.reason = staged[e].reason
      /\ w.received = staged[e].received
  OBVIOUS
<1>6. Shape(w)
  <2> HIDE DEF a
  <2> QED BY <1>1, <1>2 DEF Shape
<1> HIDE DEF w
<1>7. /\ StagedShape'
      /\ staged'[e] = w
      /\ \A f \in Engines \ {e} : staged'[f] = staged[f]
  BY <1>4, <1>6, StagedSet
<1> HIDE DEF a
<1> QED BY <1>2, <1>5, <1>7

LEMMA StagedMatchedSet ==
  ASSUME StagedShape, NEW e \in Engines, NEW ps \in SUBSET Payments,
         staged' = [staged EXCEPT ![e].matched = @ \cup ps]
  PROVE  /\ StagedShape'
         /\ \A f \in Engines \ {e} : staged'[f] = staged[f]
         /\ staged'[e].alloc = staged[e].alloc /\ staged'[e].reason = staged[e].reason
         /\ staged'[e].matched = staged[e].matched \cup ps
<1> DEFINE m == staged[e].matched \cup ps
           w == [alloc |-> staged[e].alloc, matched |-> m, reason |-> staged[e].reason,
                 received |-> staged[e].received]
<1>1. Shape(staged[e])
  BY DEF StagedShape
<1>2. [staged[e] EXCEPT !.matched = m] = w
  BY <1>1 DEF Shape
<1>3. staged' = [staged EXCEPT ![e] = w]
  BY <1>2
<1>4. Shape(w)
  BY <1>1 DEF Shape
<1>5. w.alloc = staged[e].alloc /\ w.matched = m /\ w.reason = staged[e].reason
  OBVIOUS
<1> HIDE DEF w
<1>6. /\ StagedShape'
      /\ staged'[e] = w
      /\ \A f \in Engines \ {e} : staged'[f] = staged[f]
  BY <1>3, <1>4, StagedSet
<1> QED BY <1>5, <1>6

LEMMA StagedReasonSet ==
  ASSUME StagedShape, NEW e \in Engines, NEW p \in Payments, NEW r \in Reasons \cup {None},
         staged' = [staged EXCEPT ![e].reason[p] = r]
  PROVE  /\ StagedShape'
         /\ \A f \in Engines \ {e} : staged'[f] = staged[f]
         /\ staged'[e].alloc = staged[e].alloc /\ staged'[e].matched = staged[e].matched
         /\ staged'[e].reason[p] = r
         /\ \A q \in Payments \ {p} : staged'[e].reason[q] = staged[e].reason[q]
<1> DEFINE a == [staged[e].reason EXCEPT ![p] = r]
           w == [alloc |-> staged[e].alloc, matched |-> staged[e].matched, reason |-> a,
                 received |-> staged[e].received]
<1>1. Shape(staged[e])
  BY DEF StagedShape
<1>2. a \in [Payments -> Reasons \cup {None}] /\ a[p] = r
      /\ \A q \in Payments \ {p} : a[q] = staged[e].reason[q]
  BY <1>1 DEF Shape
<1>3. [staged[e] EXCEPT !.reason = a] = w
  <2> HIDE DEF a
  <2> QED BY <1>1 DEF Shape
<1>4. staged' = [staged EXCEPT ![e] = w]
  BY <1>3
<1>5. w.alloc = staged[e].alloc /\ w.matched = staged[e].matched /\ w.reason = a
  OBVIOUS
<1>6. Shape(w)
  <2> HIDE DEF a
  <2> QED BY <1>1, <1>2 DEF Shape
<1> HIDE DEF w
<1>7. /\ StagedShape'
      /\ staged'[e] = w
      /\ \A f \in Engines \ {e} : staged'[f] = staged[f]
  BY <1>4, <1>6, StagedSet
<1> HIDE DEF a
<1> QED BY <1>2, <1>5, <1>7

LEMMA StagedReceivedSet ==
  ASSUME StagedShape, NEW e \in Engines, NEW i, NEW n,
         staged' = [staged EXCEPT ![e].received[i] = n]
  PROVE  /\ StagedShape'
         /\ \A f \in Engines \ {e} : staged'[f] = staged[f]
         /\ staged'[e].alloc = staged[e].alloc /\ staged'[e].matched = staged[e].matched
         /\ staged'[e].reason = staged[e].reason
<1> DEFINE r == [staged[e].received EXCEPT ![i] = n]
           w == [alloc |-> staged[e].alloc, matched |-> staged[e].matched,
                 reason |-> staged[e].reason, received |-> r]
<1>1. Shape(staged[e])
  BY DEF StagedShape
<1>2. [staged[e] EXCEPT !.received = r] = w
  <2> HIDE DEF r
  <2> QED BY <1>1 DEF Shape
<1>3. staged' = [staged EXCEPT ![e] = w]
  BY <1>2
<1>4. Shape(w)
  <2> HIDE DEF r
  <2> QED BY <1>1 DEF Shape
<1>5. w.alloc = staged[e].alloc /\ w.matched = staged[e].matched /\ w.reason = staged[e].reason
  OBVIOUS
<1> HIDE DEF w
<1>6. /\ StagedShape'
      /\ staged'[e] = w
      /\ \A f \in Engines \ {e} : staged'[f] = staged[f]
  BY <1>3, <1>4, StagedSet
<1> QED BY <1>5, <1>6

-----------------------------------------------------------------------------
(* What the parts of the actions do.                                       *)

LEMMA HandIn ==
  ASSUME EngineBase, NEW e \in Engines, rows[e] # {}
  PROVE  Hand(e) \in rows[e] /\ Hand(e) \in Payments
<1>1. rows[e] \in SUBSET Payments
  BY DEF EngineBase
<1> QED BY <1>1, MinOfPayments DEF Hand

LEMMA DecideType ==
  ASSUME NEW p \in Payments, NEW i \in Found(p)
  PROVE  Decide(p, i) \in Invoices \cup Reasons
<1>1. Candidates(p) \subseteq Invoices
  BY DEF Candidates, Issued
<1>2. i = None \/ i \in Invoices
  BY <1>1 DEF Found
<1> QED BY <1>2 DEF Decide, Reasons

LEMMA EntryType ==
  ASSUME Base, NEW e \in Engines, pc[e] = "allocate"
  PROVE  /\ Entry(e) \in Invoices \cup {None}
         /\ Entry(e) # None \/ alloc[Hand(e)] # None
<1>1. choice[e] \in Invoices
  BY DEF Base, Place, AtRow
<1> QED BY <1>1, ReconcilerAssumption DEF Entry

(* The engine's place changes, no other's.                                 *)
LEMMA GotoEffect ==
  ASSUME EngineBase, NEW e \in Engines, NEW place \in Places, Goto(e, place)
  PROVE  /\ pc' \in [Engines -> Places]
         /\ pc'[e] = place
         /\ \A f \in Engines \ {e} : pc'[f] = pc[f]
BY DEF EngineBase, Goto

LEMMA AfterTickType ==
  ASSUME NEW e \in Engines, NEW error \in BOOLEAN, NEW work \in BOOLEAN
  PROVE  /\ AfterTick(e, error, work) \in {"idle", "failed", "done"}
         /\ AfterTick(e, error, work) = "done" => ~error /\ ~work
BY DEF AfterTick

LEMMA EndTickEffect ==
  ASSUME EngineBase, NEW e \in Engines, NEW error \in BOOLEAN, NEW work \in BOOLEAN,
         EndTick(e, error, work)
  PROVE  /\ pc' \in [Engines -> Places]
         /\ pc'[e] \in {"idle", "failed", "done"}
         /\ pc'[e] = "done" => ~error /\ ~work
         /\ worked' \in [Engines -> BOOLEAN] /\ erred' \in [Engines -> BOOLEAN]
         /\ \A f \in Engines \ {e} : /\ pc'[f] = pc[f] /\ worked'[f] = worked[f]
                                     /\ erred'[f] = erred[f]
         /\ seen' = seen
<1> DEFINE place == AfterTick(e, error, work)
<1>1. place \in {"idle", "failed", "done"} /\ (place = "done" => ~error /\ ~work)
  BY AfterTickType
<1>2. Goto(e, place)
  BY DEF EndTick
<1> HIDE DEF place
<1>3. place \in Places
  BY <1>1 DEF Places
<1> QED BY <1>1, <1>2, <1>3, GotoEffect DEF EndTick, EngineBase

LEMMA EndPassEffect ==
  ASSUME EngineBase, NEW e \in Engines, EndPass(e)
  PROVE  /\ rows' \in [Engines -> SUBSET Payments] /\ rows'[e] = {}
         /\ StagedShape' /\ staged'[e] = Nothing
         /\ upper' \in [Engines -> 0 .. MaxPayments]
         /\ choice' \in [Engines -> Invoices \cup Reasons \cup {None}]
         /\ curLock' \in Engines \cup {None} /\ curLock' # e
         /\ payLock' \in [Payments -> Engines \cup {None}]
         /\ \A f \in Engines \ {e} :
              /\ UNCHANGED <<rows[f], staged[f], upper[f], choice[f]>>
              /\ curLock' = f <=> curLock = f
              /\ \A p \in Payments : payLock[p] = f => payLock'[p] = f
<1>1. /\ StagedShape' /\ staged'[e] = Nothing
      /\ \A f \in Engines \ {e} : staged'[f] = staged[f]
  BY NothingShape, StagedSet DEF EndPass, EngineBase
<1>2. None \notin Engines
  BY ReconcilerAssumption
<1>3. /\ rows' \in [Engines -> SUBSET Payments] /\ rows'[e] = {}
      /\ \A f \in Engines \ {e} : rows'[f] = rows[f]
  BY DEF EndPass, EngineBase
<1>4. /\ upper' \in [Engines -> 0 .. MaxPayments]
      /\ \A f \in Engines \ {e} : upper'[f] = upper[f]
  BY ReconcilerAssumption DEF EndPass, EngineBase
<1>5. /\ choice' \in [Engines -> Invoices \cup Reasons \cup {None}]
      /\ \A f \in Engines \ {e} : choice'[f] = choice[f]
  BY DEF EndPass, EngineBase
<1>6. /\ curLock' \in Engines \cup {None} /\ curLock' # e
      /\ \A f \in Engines \ {e} : curLock' = f <=> curLock = f
  BY <1>2 DEF EndPass, EngineBase
<1>7. /\ payLock' \in [Payments -> Engines \cup {None}]
      /\ \A f \in Engines \ {e}, p \in Payments : payLock[p] = f => payLock'[p] = f
  BY <1>2 DEF EndPass, EngineBase
<1> QED BY <1>1, <1>3, <1>4, <1>5, <1>6, <1>7

(* A step inside a pass: what it may do to the others, which is nothing.   *)
OthersKept(e) ==
  \A f \in Engines \ {e} :
    /\ UNCHANGED <<pc[f], rows[f], staged[f], upper[f], choice[f], worked[f], erred[f], seen[f]>>
    /\ curLock' = f <=> curLock = f
    /\ \A p \in Payments : payLock[p] = f => payLock'[p] = f

LEMMA OthersPlaced ==
  ASSUME NEW e \in Engines, NEW f \in Engines \ {e}, OthersKept(e), Place(f)
  PROVE  Place(f)'
BY DEF OthersKept, Place

-----------------------------------------------------------------------------
(* What each step of an engine does to it; the others are kept.            *)

LEMMA LockCursorEffect ==
  ASSUME Base, NEW e \in Engines, LockCursor(e)
  PROVE  /\ EngineBase' /\ OthersKept(e) /\ Place(e)'
         /\ curLock = None /\ curLock' = e /\ pc'[e] = "read"
         /\ UNCHANGED <<payVars, cursor, rows, staged, seen>>
<1> USE DEF committed, payVars, invVars, tickVars
<1>1. EngineBase /\ Place(e) /\ None \notin Engines
  BY ReconcilerAssumption DEF Base
<1>2. UNCHANGED <<cursor, payLock, rows, upper, choice, staged, worked, erred, seen>>
  BY DEF LockCursor
<1>3. curLock = None /\ curLock' = e
  BY DEF LockCursor, CursorFree
<1>4. /\ pc' \in [Engines -> Places] /\ pc'[e] = "read"
      /\ \A f \in Engines \ {e} : pc'[f] = pc[f]
  <2>1. "read" \in Places
    BY DEF Places
  <2> QED BY <1>1, <2>1, GotoEffect DEF LockCursor
<1>5. EngineBase'
  BY <1>1, <1>2, <1>3, <1>4 DEF EngineBase, StagedShape
<1>6. OthersKept(e)
  BY <1>1, <1>2, <1>3, <1>4 DEF OthersKept
<1>7. Place(e)'
  BY <1>1, <1>2, <1>3, <1>4 DEF Place, AtRow, Outside, LockCursor
<1> QED BY <1>2, <1>3, <1>4, <1>5, <1>6, <1>7 DEF LockCursor

(* A new pass reads the recorded payments after the cursor, up to upper.   *)
Reads(e) ==
  /\ curLock' = curLock /\ pc'[e] = "apply"
  /\ upper'[e] \in Recorded /\ cursor < upper'[e]
  /\ \A p \in rows'[e] : p \in Recorded /\ cursor < p /\ p <= upper'[e]
  /\ \A p \in Recorded :
       cursor < p /\ p <= upper'[e] => p \in rows'[e] \/ status[p] # "unmatched"

LEMMA ReadPaymentsEffect ==
  ASSUME Base, NEW e \in Engines, ReadPayments(e)
  PROVE  /\ EngineBase' /\ OthersKept(e) /\ Place(e)'
         /\ curLock = e /\ pc[e] = "read"
         /\ \/ Reads(e)
            \/ /\ curLock' = None /\ pc'[e] = "recheck"
               /\ \A p \in Recorded : p <= cursor
         /\ UNCHANGED <<payVars, cursor, payLock, staged, worked, erred, seen>>
<1> USE DEF committed, payVars, invVars, tickVars
<1> DEFINE new == {p \in Recorded : p > cursor}
           first == FirstOf(new)
           chosen == {p \in first : status[p] = "unmatched"}
<1>1. /\ EngineBase /\ Place(e) /\ None \notin Engines
      /\ pc[e] = "read" /\ curLock = e /\ rows[e] = {} /\ staged[e] = Nothing
  BY ReconcilerAssumption DEF Base, Place, Outside, ReadPayments
<1>2. UNCHANGED <<payVars, cursor, payLock, choice, staged, worked, erred, seen>>
  BY DEF ReadPayments
<1>3. new \in SUBSET Payments /\ \A p \in Payments : p \in Nat
  BY DEF Recorded, Payments
<1>4. cursor \in Nat
  BY <1>1, ReconcilerAssumption DEF EngineBase
<1>5. CASE new = {}
  <2>1. /\ curLock' = None /\ Goto(e, "recheck") /\ UNCHANGED <<rows, upper>>
    BY <1>5 DEF ReadPayments
  <2>2. /\ pc' \in [Engines -> Places] /\ pc'[e] = "recheck"
        /\ \A f \in Engines \ {e} : pc'[f] = pc[f]
    <3>1. "recheck" \in Places
      BY DEF Places
    <3> QED BY <1>1, <2>1, <3>1, GotoEffect
  <2>3. EngineBase' /\ OthersKept(e)
    BY <1>1, <1>2, <2>1, <2>2 DEF EngineBase, StagedShape, OthersKept
  <2>4. Place(e)'
    BY <1>1, <1>2, <2>1, <2>2 DEF Place, AtRow, Outside
  <2>5. \A p \in Recorded : p <= cursor
    BY <1>3, <1>4, <1>5 DEF Recorded
  <2> QED BY <1>1, <1>2, <2>1, <2>2, <2>3, <2>4, <2>5
<1>6. CASE new # {}
  <2>1. /\ rows' = [rows EXCEPT ![e] = chosen]
        /\ upper' = [upper EXCEPT ![e] = Max(first)]
        /\ Goto(e, "apply") /\ curLock' = curLock
    BY <1>6 DEF ReadPayments
  <2>2. /\ first \subseteq new
        /\ \A p \in new : p <= Max(first) => p \in first
        /\ Max(first) \in new
        /\ \A p \in first : p <= Max(first)
    <3> HIDE DEF new
    <3>1. first # {} /\ first \in SUBSET Payments
      BY <1>3, <1>6, FirstOfPayments
    <3> QED BY <1>3, <1>6, <3>1, FirstOfPayments, MaxOfPayments
  <2> HIDE DEF first
  <2>3. chosen \in SUBSET Payments /\ Max(first) \in 0 .. MaxPayments
    <3>1. \A p \in Payments : p \in 0 .. MaxPayments
      BY ReconcilerAssumption DEF Payments
    <3>2. Max(first) \in Payments
      BY <1>3, <2>2
    <3> HIDE DEF new
    <3> QED BY <1>3, <2>2, <3>1, <3>2
  <2>4. /\ rows' \in [Engines -> SUBSET Payments] /\ upper' \in [Engines -> 0 .. MaxPayments]
        /\ rows'[e] = chosen /\ upper'[e] = Max(first)
        /\ \A f \in Engines \ {e} : rows'[f] = rows[f] /\ upper'[f] = upper[f]
    BY <1>1, <2>1, <2>3 DEF EngineBase
  <2>5. /\ pc' \in [Engines -> Places] /\ pc'[e] = "apply"
        /\ \A f \in Engines \ {e} : pc'[f] = pc[f]
    <3>1. "apply" \in Places
      BY DEF Places
    <3> QED BY <1>1, <2>1, <3>1, GotoEffect
  <2>6. EngineBase' /\ OthersKept(e)
    BY <1>1, <1>2, <2>1, <2>4, <2>5 DEF EngineBase, StagedShape, OthersKept
  <2>7. Place(e)'
    BY <1>1, <1>2, <2>1, <2>5 DEF Place, AtRow, Outside
  <2>8. Reads(e)
    BY <1>4, <2>1, <2>2, <2>4, <2>5 DEF Reads
  <2> QED BY <1>1, <1>2, <2>1, <2>4, <2>5, <2>6, <2>7, <2>8
<1> QED BY <1>5, <1>6

(* Recheck takes rows that nobody holds, behind the cursor.                *)
LEMMA SelectRecheckEffect ==
  ASSUME Base, NEW e \in Engines, SelectRecheck(e)
  PROVE  /\ EngineBase' /\ OthersKept(e) /\ Place(e)'
         /\ pc[e] = "recheck" /\ curLock # e
         /\ pc'[e] \in {"apply", "idle", "failed", "done"}
         /\ \A p \in rows'[e] : /\ p \in Recorded /\ p <= cursor
                                /\ ~Held(p) /\ payLock'[p] = e
         /\ pc'[e] = "done" => ~erred[e] /\ ~worked[e]
         /\ pc'[e] = "apply" => UNCHANGED <<worked, erred>>
         /\ UNCHANGED <<payVars, cursor, curLock, upper, staged, seen>>
<1> USE DEF payVars, invVars
<1> DEFINE chosen == FirstOf(Recheckable \cap Unlocked)
<1>1. /\ EngineBase /\ Place(e) /\ pc[e] = "recheck" /\ rows[e] = {} /\ curLock # e
      /\ staged[e] = Nothing
  BY DEF Base, Place, AtRow, Outside, SelectRecheck
<1>2. \A p \in chosen : p \in Recorded /\ p \in Payments /\ p <= cursor /\ ~Held(p)
  BY FirstOfSubset DEF Recheckable, Unlocked, Recorded
<1>3. /\ rows' = [rows EXCEPT ![e] = chosen]
      /\ payLock' = [p \in Payments |-> IF p \in chosen THEN e ELSE payLock[p]]
      /\ UNCHANGED <<payVars, cursor, curLock, upper, choice, staged>>
      /\ IF chosen = {} THEN EndTick(e, erred[e], worked[e])
                        ELSE Goto(e, "apply") /\ UNCHANGED <<worked, erred, seen>>
  BY DEF SelectRecheck
<1> HIDE DEF chosen
<1>4. /\ rows' \in [Engines -> SUBSET Payments] /\ rows'[e] = chosen
      /\ \A f \in Engines \ {e} : rows'[f] = rows[f]
  BY <1>1, <1>2, <1>3 DEF EngineBase
<1>5. \A p \in Payments : payLock[p] # None => p \notin chosen
  BY <1>2 DEF Held
<1>6. /\ payLock' \in [Payments -> Engines \cup {None}]
      /\ \A f \in Engines, p \in Payments : payLock[p] = f => payLock'[p] = f
      /\ \A p \in chosen : payLock'[p] = e
  BY <1>1, <1>2, <1>3, <1>5, ReconcilerAssumption DEF EngineBase
<1>7. CASE chosen = {}
  <2>1. /\ pc' \in [Engines -> Places]
        /\ pc'[e] \in {"idle", "failed", "done"}
        /\ pc'[e] = "done" => ~erred[e] /\ ~worked[e]
        /\ worked' \in [Engines -> BOOLEAN] /\ erred' \in [Engines -> BOOLEAN]
        /\ \A f \in Engines \ {e} : /\ pc'[f] = pc[f] /\ worked'[f] = worked[f]
                                    /\ erred'[f] = erred[f]
        /\ seen' = seen
    <3>1. erred[e] \in BOOLEAN /\ worked[e] \in BOOLEAN
      BY <1>1 DEF EngineBase
    <3> QED BY <1>1, <1>3, <1>7, <3>1, EndTickEffect
  <2>2. EngineBase' /\ OthersKept(e)
    BY <1>1, <1>3, <1>4, <1>6, <2>1 DEF EngineBase, StagedShape, OthersKept
  <2>3. Place(e)'
    BY <1>1, <1>3, <1>4, <1>7, <2>1 DEF Place, AtRow, Outside
  <2> QED BY <1>1, <1>2, <1>3, <1>4, <1>6, <2>1, <2>2, <2>3
<1>8. CASE chosen # {}
  <2>1. /\ pc' \in [Engines -> Places] /\ pc'[e] = "apply"
        /\ \A f \in Engines \ {e} : pc'[f] = pc[f]
    <3>1. "apply" \in Places
      BY DEF Places
    <3> QED BY <1>1, <1>3, <1>8, <3>1, GotoEffect
  <2>2. EngineBase' /\ OthersKept(e)
    BY <1>1, <1>3, <1>4, <1>6, <1>8, <2>1 DEF EngineBase, StagedShape, OthersKept
  <2>3. Place(e)'
    BY <1>1, <1>3, <1>4, <1>8, <2>1 DEF Place, AtRow, Outside
  <2> QED BY <1>1, <1>2, <1>3, <1>4, <1>6, <1>8, <2>1, <2>2, <2>3
<1> QED BY <1>7, <1>8

(* The steps of apply.  What the engine has staged changes in one field.   *)
InPass(e) ==
  /\ EngineBase' /\ OthersKept(e) /\ Place(e)'
  /\ UNCHANGED <<payVars, cursor, curLock, upper, worked, erred, seen>>
  /\ \A p \in Payments : payLock[p] = e => payLock'[p] = e

LEMMA FindInvoiceEffect ==
  ASSUME Base, NEW e \in Engines, FindInvoice(e)
  PROVE  /\ InPass(e) /\ pc[e] = "apply" /\ rows[e] # {}
         /\ pc'[e] \in {"allocate", "unmatch"}
         /\ UNCHANGED <<rows, staged>>
<1> USE DEF committed, payVars, invVars, tickVars, locks
<1>1. EngineBase /\ Place(e) /\ pc[e] = "apply" /\ rows[e] # {}
  BY DEF Base, FindInvoice
<1>2. UNCHANGED <<payVars, cursor, worked, erred, seen, curLock, payLock, rows, upper, staged>>
  BY DEF FindInvoice
<1>3. PICK i \in Found(Hand(e)) :
        /\ choice' = [choice EXCEPT ![e] = Decide(Hand(e), i)]
        /\ Goto(e, IF Decide(Hand(e), i) \in Invoices THEN "allocate" ELSE "unmatch")
  BY DEF FindInvoice
<1> DEFINE decision == Decide(Hand(e), i)
           place == IF decision \in Invoices THEN "allocate" ELSE "unmatch"
<1>4. decision \in Invoices \cup Reasons
  BY <1>1, HandIn, DecideType
<1>5. choice' = [choice EXCEPT ![e] = decision] /\ Goto(e, place)
  BY <1>3
<1> HIDE DEF decision
<1>6. /\ choice' \in [Engines -> Invoices \cup Reasons \cup {None}]
      /\ choice'[e] = decision
      /\ \A f \in Engines \ {e} : choice'[f] = choice[f]
  BY <1>1, <1>4, <1>5 DEF EngineBase
<1>7. place \in {"allocate", "unmatch"} /\ place \in Places
  BY DEF Places
<1>8. (place = "allocate" => decision \in Invoices) /\ (place = "unmatch" => decision \in Reasons)
  BY <1>4
<1> HIDE DEF place
<1>9. /\ pc' \in [Engines -> Places] /\ pc'[e] = place
      /\ \A f \in Engines \ {e} : pc'[f] = pc[f]
  BY <1>1, <1>5, <1>7, GotoEffect
<1>10. EngineBase' /\ OthersKept(e)
  BY <1>1, <1>2, <1>6, <1>9 DEF EngineBase, StagedShape, OthersKept
<1>11. Place(e)'
  BY <1>1, <1>2, <1>6, <1>7, <1>8, <1>9 DEF Place, AtRow, Outside
<1> QED BY <1>1, <1>2, <1>7, <1>9, <1>10, <1>11 DEF InPass

LEMMA InsertAllocationEffect ==
  ASSUME Base, NEW e \in Engines, InsertAllocation(e)
  PROVE  /\ InPass(e) /\ pc[e] = "allocate" /\ pc'[e] = "mark"
         /\ UNCHANGED rows
         /\ staged'[e].matched = staged[e].matched /\ staged'[e].reason = staged[e].reason
         /\ staged'[e].alloc[Hand(e)] # None \/ alloc[Hand(e)] # None
         /\ \A q \in Payments \ {Hand(e)} : staged'[e].alloc[q] = staged[e].alloc[q]
<1> USE DEF committed, payVars, invVars, tickVars, locks
<1>1. EngineBase /\ Place(e) /\ pc[e] = "allocate" /\ rows[e] # {} /\ choice[e] \in Invoices
  BY DEF Base, Place, AtRow, InsertAllocation
<1>2. UNCHANGED <<payVars, cursor, worked, erred, seen, curLock, payLock, rows, upper, choice>>
  BY DEF InsertAllocation
<1> DEFINE p == Hand(e)
           i == Entry(e)
<1>3. p \in Payments /\ i \in Invoices \cup {None} /\ (i # None \/ alloc[p] # None)
  BY <1>1, HandIn, EntryType
<1>4. staged' = [staged EXCEPT ![e].alloc[p] = i]
  BY DEF InsertAllocation
<1> HIDE DEF p, i
<1>5. /\ StagedShape'
      /\ \A f \in Engines \ {e} : staged'[f] = staged[f]
      /\ staged'[e].matched = staged[e].matched /\ staged'[e].reason = staged[e].reason
      /\ staged'[e].alloc[p] = i
      /\ \A q \in Payments \ {p} : staged'[e].alloc[q] = staged[e].alloc[q]
  <2>1. StagedShape /\ i \in Invoices \cup {None}
    BY <1>1, <1>3 DEF EngineBase
  <2> QED BY <1>3, <1>4, <2>1, StagedAllocSet
<1>6. /\ pc' \in [Engines -> Places] /\ pc'[e] = "mark"
      /\ \A f \in Engines \ {e} : pc'[f] = pc[f]
  <2>1. "mark" \in Places
    BY DEF Places
  <2> QED BY <1>1, <2>1, GotoEffect DEF InsertAllocation
<1>7. EngineBase' /\ OthersKept(e)
  BY <1>1, <1>2, <1>5, <1>6 DEF EngineBase, OthersKept
<1>8. Place(e)'
  BY <1>1, <1>2, <1>6 DEF Place, AtRow, Outside
<1> QED BY <1>1, <1>2, <1>3, <1>5, <1>6, <1>7, <1>8 DEF InPass, p

LEMMA MarkMatchedEffect ==
  ASSUME Base, NEW e \in Engines, MarkMatched(e)
  PROVE  /\ InPass(e) /\ pc[e] = "mark" /\ pc'[e] = "recalc"
         /\ UNCHANGED rows
         /\ staged'[e].alloc = staged[e].alloc /\ staged'[e].reason = staged[e].reason
         /\ staged'[e].matched = staged[e].matched \cup {Hand(e)}
<1> USE DEF committed, payVars, invVars, tickVars, locks
<1>1. EngineBase /\ Place(e) /\ pc[e] = "mark" /\ rows[e] # {} /\ choice[e] \in Invoices
  BY DEF Base, Place, AtRow, MarkMatched
<1>2. UNCHANGED <<payVars, cursor, worked, erred, seen, curLock, rows, upper, choice>>
  BY DEF MarkMatched
<1> DEFINE p == Hand(e)
<1>3. p \in Payments
  BY <1>1, HandIn
<1>4. /\ staged' = [staged EXCEPT ![e].matched = @ \cup {p}]
      /\ payLock' = [payLock EXCEPT ![p] = e]
      /\ payLock[p] \in {None, e}
  BY DEF MarkMatched, Marked, Free
<1> HIDE DEF p
<1>5. /\ StagedShape'
      /\ \A f \in Engines \ {e} : staged'[f] = staged[f]
      /\ staged'[e].alloc = staged[e].alloc /\ staged'[e].reason = staged[e].reason
      /\ staged'[e].matched = staged[e].matched \cup {p}
  <2>1. StagedShape /\ {p} \in SUBSET Payments
    BY <1>1, <1>3 DEF EngineBase
  <2>2. staged' = [staged EXCEPT ![e].matched = @ \cup {p}]
    BY <1>4
  <2> DEFINE ps == {p}
  <2> HIDE DEF ps
  <2>3. /\ StagedShape'
        /\ \A f \in Engines \ {e} : staged'[f] = staged[f]
        /\ staged'[e].alloc = staged[e].alloc /\ staged'[e].reason = staged[e].reason
        /\ staged'[e].matched = staged[e].matched \cup ps
    BY <2>1, <2>2, StagedMatchedSet DEF ps
  <2> QED BY <2>3 DEF ps
<1>6. /\ payLock' \in [Payments -> Engines \cup {None}]
      /\ \A f \in Engines, q \in Payments : payLock[q] = f => payLock'[q] = f
  BY <1>1, <1>3, <1>4, ReconcilerAssumption DEF EngineBase
<1>7. /\ pc' \in [Engines -> Places] /\ pc'[e] = "recalc"
      /\ \A f \in Engines \ {e} : pc'[f] = pc[f]
  <2>1. "recalc" \in Places
    BY DEF Places
  <2> QED BY <1>1, <2>1, GotoEffect DEF MarkMatched
<1>8. EngineBase' /\ OthersKept(e)
  BY <1>1, <1>2, <1>5, <1>6, <1>7 DEF EngineBase, OthersKept
<1>9. Place(e)'
  BY <1>1, <1>2, <1>7 DEF Place, AtRow, Outside
<1> QED BY <1>1, <1>2, <1>5, <1>6, <1>7, <1>8, <1>9 DEF InPass, p

LEMMA LockInvoiceEffect ==
  ASSUME Base, NEW e \in Engines, LockInvoice(e)
  PROVE  /\ InPass(e) /\ pc[e] = "recalc" /\ pc'[e] = "update"
         /\ UNCHANGED <<rows, staged>>
<1> USE DEF committed, payVars, invVars, tickVars, locks
<1>1. EngineBase /\ Place(e) /\ pc[e] = "recalc" /\ rows[e] # {} /\ choice[e] \in Invoices
  BY DEF Base, Place, AtRow, LockInvoice
<1>2. UNCHANGED <<payVars, cursor, worked, erred, seen, curLock, payLock, rows, upper, choice,
                  staged>>
  BY DEF LockInvoice
<1>3. /\ pc' \in [Engines -> Places] /\ pc'[e] = "update"
      /\ \A f \in Engines \ {e} : pc'[f] = pc[f]
  <2>1. "update" \in Places
    BY DEF Places
  <2> QED BY <1>1, <2>1, GotoEffect DEF LockInvoice
<1>4. EngineBase' /\ OthersKept(e)
  BY <1>1, <1>2, <1>3 DEF EngineBase, StagedShape, OthersKept
<1>5. Place(e)'
  BY <1>1, <1>2, <1>3 DEF Place, AtRow, Outside
<1> QED BY <1>1, <1>2, <1>3, <1>4, <1>5 DEF InPass

LEMMA RowDoneEffect ==
  ASSUME EngineBase, NEW e \in Engines, RowDone(e)
  PROVE  /\ rows' \in [Engines -> SUBSET Payments]
         /\ rows'[e] = rows[e] \ {Hand(e)}
         /\ \A f \in Engines \ {e} : rows'[f] = rows[f]
<1> DEFINE p == Hand(e)
<1>1. rows' = [rows EXCEPT ![e] = @ \ {p}]
  BY DEF RowDone
<1> HIDE DEF p
<1>2. /\ rows' \in [Engines -> SUBSET Payments]
      /\ rows'[e] = rows[e] \ {p}
      /\ \A f \in Engines \ {e} : rows'[f] = rows[f]
  BY <1>1 DEF EngineBase
<1> QED BY <1>2 DEF p

LEMMA UpdateInvoiceEffect ==
  ASSUME Base, NEW e \in Engines, UpdateInvoice(e)
  PROVE  /\ InPass(e) /\ pc[e] = "update" /\ pc'[e] = "apply"
         /\ rows'[e] = rows[e] \ {Hand(e)}
         /\ staged'[e].alloc = staged[e].alloc /\ staged'[e].matched = staged[e].matched
         /\ staged'[e].reason = staged[e].reason
<1> USE DEF committed, payVars, invVars, tickVars, locks
<1>1. EngineBase /\ Place(e) /\ pc[e] = "update"
  BY DEF Base, UpdateInvoice
<1>2. UNCHANGED <<payVars, cursor, worked, erred, seen, curLock, payLock, upper, choice>>
  BY DEF UpdateInvoice
<1>3. staged' = [staged EXCEPT ![e].received[choice[e]] = sum[e]] /\ RowDone(e)
  BY DEF UpdateInvoice
<1>4. /\ StagedShape'
      /\ \A f \in Engines \ {e} : staged'[f] = staged[f]
      /\ staged'[e].alloc = staged[e].alloc /\ staged'[e].matched = staged[e].matched
      /\ staged'[e].reason = staged[e].reason
  BY <1>1, <1>3, StagedReceivedSet DEF EngineBase
<1>5. /\ rows' \in [Engines -> SUBSET Payments]
      /\ rows'[e] = rows[e] \ {Hand(e)}
      /\ \A f \in Engines \ {e} : rows'[f] = rows[f]
  BY <1>1, <1>3, RowDoneEffect
<1>6. /\ pc' \in [Engines -> Places] /\ pc'[e] = "apply"
      /\ \A f \in Engines \ {e} : pc'[f] = pc[f]
  <2>1. "apply" \in Places
    BY DEF Places
  <2> QED BY <1>1, <2>1, GotoEffect DEF UpdateInvoice
<1>7. EngineBase' /\ OthersKept(e)
  BY <1>1, <1>2, <1>4, <1>5, <1>6 DEF EngineBase, OthersKept
<1>8. Place(e)'
  BY <1>1, <1>2, <1>6 DEF Place, AtRow, Outside
<1> QED BY <1>1, <1>2, <1>4, <1>5, <1>6, <1>7, <1>8 DEF InPass

LEMMA MarkUnmatchedEffect ==
  ASSUME Base, NEW e \in Engines, MarkUnmatched(e)
  PROVE  /\ InPass(e) /\ pc[e] = "unmatch" /\ pc'[e] = "apply"
         /\ rows'[e] = rows[e] \ {Hand(e)}
         /\ staged'[e].alloc = staged[e].alloc /\ staged'[e].matched = staged[e].matched
         /\ \A q \in Payments : staged[e].reason[q] # None => staged'[e].reason[q] # None
         /\ status[Hand(e)] # "unmatched" \/ staged'[e].reason[Hand(e)] # None
<1> USE DEF committed, payVars, invVars, tickVars, locks
<1>1. EngineBase /\ Place(e) /\ pc[e] = "unmatch" /\ rows[e] # {} /\ choice[e] \in Reasons
  BY DEF Base, Place, AtRow, MarkUnmatched
<1>2. UNCHANGED <<payVars, cursor, worked, erred, seen, curLock, upper, choice>>
  BY DEF MarkUnmatched
<1> DEFINE p == Hand(e)
<1>3. p \in Payments
  BY <1>1, HandIn
<1>4. /\ \/ payLock' = [payLock EXCEPT ![p] = e]
            /\ staged' = [staged EXCEPT ![e].reason[p] = choice[e]]
         \/ status[p] # "unmatched" /\ UNCHANGED <<payLock, staged>>
      /\ payLock[p] \in {None, e}
      /\ RowDone(e)
  BY DEF MarkUnmatched, Free
<1>5. /\ rows' \in [Engines -> SUBSET Payments]
      /\ rows'[e] = rows[e] \ {p}
      /\ \A f \in Engines \ {e} : rows'[f] = rows[f]
  BY <1>1, <1>4, RowDoneEffect
<1> HIDE DEF p
<1>6. /\ payLock' \in [Payments -> Engines \cup {None}]
      /\ \A f \in Engines, q \in Payments : payLock[q] = f => payLock'[q] = f
  BY <1>1, <1>3, <1>4, ReconcilerAssumption DEF EngineBase
<1>7. /\ StagedShape'
      /\ \A f \in Engines \ {e} : staged'[f] = staged[f]
      /\ staged'[e].alloc = staged[e].alloc /\ staged'[e].matched = staged[e].matched
      /\ \A q \in Payments : staged[e].reason[q] # None => staged'[e].reason[q] # None
      /\ status[p] # "unmatched" \/ staged'[e].reason[p] # None
  <2>1. choice[e] # None
    BY <1>1, ReconcilerAssumption
  <2>2. CASE staged' = [staged EXCEPT ![e].reason[p] = choice[e]]
    <3>1. /\ StagedShape'
          /\ \A f \in Engines \ {e} : staged'[f] = staged[f]
          /\ staged'[e].alloc = staged[e].alloc /\ staged'[e].matched = staged[e].matched
          /\ staged'[e].reason[p] = choice[e]
          /\ \A q \in Payments \ {p} : staged'[e].reason[q] = staged[e].reason[q]
      BY <1>1, <1>3, <2>2, StagedReasonSet DEF EngineBase
    <3> QED BY <2>1, <3>1
  <2>3. CASE status[p] # "unmatched" /\ UNCHANGED <<payLock, staged>>
    BY <1>1, <2>3 DEF EngineBase, StagedShape
  <2> QED BY <1>4, <2>2, <2>3
<1>8. /\ pc' \in [Engines -> Places] /\ pc'[e] = "apply"
      /\ \A f \in Engines \ {e} : pc'[f] = pc[f]
  <2>1. "apply" \in Places
    BY DEF Places
  <2> QED BY <1>1, <2>1, GotoEffect DEF MarkUnmatched
<1>9. EngineBase' /\ OthersKept(e)
  BY <1>1, <1>2, <1>5, <1>6, <1>7, <1>8 DEF EngineBase, OthersKept
<1>10. Place(e)'
  BY <1>1, <1>2, <1>8 DEF Place, AtRow, Outside
<1> QED BY <1>1, <1>2, <1>5, <1>6, <1>7, <1>8, <1>9, <1>10 DEF InPass, p

(* A pass that has ended leaves nothing behind.                            *)
Ended(e) ==
  /\ EngineBase' /\ OthersKept(e) /\ Place(e)'
  /\ rows'[e] = {} /\ staged'[e] = Nothing /\ curLock' # e
  /\ pc'[e] \in Outside

LEMMA EndedBy ==
  ASSUME EngineBase, NEW e \in Engines, EndPass(e), cursor' \in 0 .. MaxPayments,
         pc' \in [Engines -> Places], pc'[e] \in Outside \ {"read"},
         worked' \in [Engines -> BOOLEAN], erred' \in [Engines -> BOOLEAN],
         seen' \in [Engines -> SUBSET Payments],
         \A f \in Engines \ {e} : UNCHANGED <<pc[f], worked[f], erred[f], seen[f]>>
  PROVE  Ended(e)
<1>1. /\ rows' \in [Engines -> SUBSET Payments] /\ rows'[e] = {}
      /\ StagedShape' /\ staged'[e] = Nothing
      /\ upper' \in [Engines -> 0 .. MaxPayments]
      /\ choice' \in [Engines -> Invoices \cup Reasons \cup {None}]
      /\ curLock' \in Engines \cup {None} /\ curLock' # e
      /\ payLock' \in [Payments -> Engines \cup {None}]
  BY EndPassEffect
<1>2. \A f \in Engines \ {e} :
        /\ UNCHANGED <<rows[f], staged[f], upper[f], choice[f]>>
        /\ curLock' = f <=> curLock = f
        /\ \A p \in Payments : payLock[p] = f => payLock'[p] = f
  BY EndPassEffect
<1>3. EngineBase'
  BY <1>1 DEF EngineBase
<1>4. OthersKept(e)
  BY <1>2 DEF OthersKept
<1>5. Place(e)'
  BY <1>1 DEF Place, AtRow, Outside
<1> QED BY <1>1, <1>3, <1>4, <1>5 DEF Ended

LEMMA RollBackEffect ==
  ASSUME Base, NEW e \in Engines, RollBack(e)
  PROVE  /\ Ended(e)
         /\ pc'[e] # "done"
         /\ pc'[e] = "recheck" => erred'[e]
         /\ UNCHANGED <<payVars, cursor, seen>>
<1> USE DEF payVars, invVars
<1>1. EngineBase
  BY DEF Base
<1>2. EndPass(e) /\ UNCHANGED <<payVars, cursor>>
  BY DEF RollBack
<1>3. CASE curLock = e
  <2>1. Goto(e, "recheck") /\ erred' = [erred EXCEPT ![e] = TRUE] /\ UNCHANGED <<worked, seen>>
    BY <1>3 DEF RollBack, InNewPass
  <2>2. /\ pc' \in [Engines -> Places] /\ pc'[e] = "recheck"
        /\ \A f \in Engines \ {e} : pc'[f] = pc[f]
    <3>1. "recheck" \in Places
      BY DEF Places
    <3> QED BY <1>1, <2>1, <3>1, GotoEffect
  <2>3. /\ erred' \in [Engines -> BOOLEAN] /\ erred'[e]
        /\ \A f \in Engines \ {e} : erred'[f] = erred[f]
    BY <1>1, <2>1 DEF EngineBase
  <2>4. Ended(e)
    BY <1>1, <1>2, <2>1, <2>2, <2>3, EndedBy DEF EngineBase, Outside
  <2> QED BY <1>2, <2>1, <2>2, <2>3, <2>4
<1>4. CASE curLock # e
  <2>1. EndTick(e, TRUE, worked[e]) /\ worked[e] \in BOOLEAN
    BY <1>1, <1>4 DEF RollBack, InNewPass, EngineBase
  <2>2. /\ pc' \in [Engines -> Places]
        /\ pc'[e] \in {"idle", "failed", "done"} /\ pc'[e] # "done"
        /\ worked' \in [Engines -> BOOLEAN] /\ erred' \in [Engines -> BOOLEAN]
        /\ \A f \in Engines \ {e} : /\ pc'[f] = pc[f] /\ worked'[f] = worked[f]
                                    /\ erred'[f] = erred[f]
        /\ seen' = seen
    BY <1>1, <2>1, EndTickEffect
  <2>3. Ended(e)
    BY <1>1, <1>2, <2>2, EndedBy DEF EngineBase, Outside
  <2> QED BY <1>2, <2>2, <2>3
<1> QED BY <1>3, <1>4

LEMMA BeginRunEffect ==
  ASSUME Base, NEW e \in Engines, BeginRun(e)
  PROVE  /\ Ended(e)
         /\ pc'[e] = "idle"
         /\ seen'[e] \subseteq Recorded
         /\ UNCHANGED <<payVars, cursor>>
<1> USE DEF payVars, invVars
<1>1. EngineBase
  BY DEF Base
<1>2. EndPass(e) /\ Goto(e, "idle") /\ UNCHANGED <<payVars, cursor>>
  BY DEF BeginRun
<1>3. /\ pc' \in [Engines -> Places] /\ pc'[e] = "idle"
      /\ \A f \in Engines \ {e} : pc'[f] = pc[f]
  <2>1. "idle" \in Places
    BY DEF Places
  <2> QED BY <1>1, <1>2, <2>1, GotoEffect
<1>4. Recorded \in SUBSET Payments
  BY DEF Recorded
<1>5. /\ worked' \in [Engines -> BOOLEAN] /\ erred' \in [Engines -> BOOLEAN]
      /\ \A f \in Engines \ {e} : worked'[f] = worked[f] /\ erred'[f] = erred[f]
  BY <1>1 DEF BeginRun, EngineBase
<1> DEFINE found == IF e \in OnceEngines THEN Recorded ELSE {}
<1>6. found \in SUBSET Payments /\ found \subseteq Recorded /\ seen' = [seen EXCEPT ![e] = found]
  BY <1>4 DEF BeginRun
<1> HIDE DEF found
<1>7. /\ seen' \in [Engines -> SUBSET Payments] /\ seen'[e] \subseteq Recorded
      /\ \A f \in Engines \ {e} : seen'[f] = seen[f]
  BY <1>1, <1>6 DEF EngineBase
<1>8. Ended(e)
  BY <1>1, <1>2, <1>3, <1>5, <1>7, EndedBy DEF EngineBase, Outside
<1> QED BY <1>2, <1>3, <1>7, <1>8

(* The tables take over what was staged.                                   *)
TakesOver(w) ==
  \A p \in Payments :
    /\ status'[p] = IF p \in w.matched THEN "matched" ELSE status[p]
    /\ reason'[p] = IF p \in w.matched THEN None
                    ELSE IF w.reason[p] # None THEN w.reason[p] ELSE reason[p]
    /\ alloc'[p] = IF w.alloc[p] # None THEN w.alloc[p] ELSE alloc[p]

LEMMA CommitPassEffect ==
  ASSUME Base, NEW e \in Engines, CommitPass(e)
  PROVE  /\ Ended(e) /\ TableBase' /\ TakesOver(staged[e])
         /\ pc[e] = "apply" /\ rows[e] = {}
         /\ \/ curLock = e /\ cursor' = upper[e] /\ pc'[e] = "recheck" /\ worked'[e]
            \/ /\ curLock # e /\ cursor' = cursor /\ pc'[e] # "recheck"
               /\ pc'[e] = "done" => ~erred[e] /\ ~worked[e]
         /\ UNCHANGED <<nextId, seen>>
<1>1. TableBase /\ EngineBase /\ Shape(staged[e])
  BY DEF Base, EngineBase, StagedShape
<1> DEFINE w == staged[e]
<1>2. /\ status' = [p \in Payments |-> IF p \in w.matched THEN "matched" ELSE status[p]]
      /\ reason' = [p \in Payments |-> IF p \in w.matched THEN None
                                   ELSE IF w.reason[p] # None THEN w.reason[p] ELSE reason[p]]
      /\ alloc' = [p \in Payments |-> IF w.alloc[p] # None THEN w.alloc[p] ELSE alloc[p]]
      /\ nextId' = nextId
      /\ EndPass(e) /\ pc[e] = "apply" /\ rows[e] = {}
  BY DEF CommitPass
<1>3. TakesOver(w)
  BY <1>2 DEF TakesOver
<1>4. TableBase'
  <2> HIDE DEF w
  <2>1. Shape(w)
    BY <1>1 DEF w
  <2>2. status' \in [Payments -> {"absent", "inserting", "unmatched", "matched", "ignored"}]
    BY <1>1, <1>2 DEF TableBase
  <2>3. reason' \in [Payments -> Reasons \cup {None}]
    BY <1>1, <1>2, <2>1 DEF TableBase, Shape
  <2>4. alloc' \in [Payments -> Invoices \cup {None}]
    BY <1>1, <1>2, <2>1 DEF TableBase, Shape
  <2> QED BY <1>1, <1>2, <2>2, <2>3, <2>4 DEF TableBase
<1>5. CASE curLock = e
  <2>1. /\ cursor' = upper[e] /\ Goto(e, "recheck") /\ worked' = [worked EXCEPT ![e] = TRUE]
        /\ UNCHANGED <<erred, seen>>
    BY <1>5 DEF CommitPass, InNewPass, Upper
  <2>2. /\ pc' \in [Engines -> Places] /\ pc'[e] = "recheck"
        /\ \A f \in Engines \ {e} : pc'[f] = pc[f]
    <3>1. "recheck" \in Places
      BY DEF Places
    <3> QED BY <1>1, <2>1, <3>1, GotoEffect
  <2>3. /\ worked' \in [Engines -> BOOLEAN] /\ worked'[e]
        /\ \A f \in Engines \ {e} : worked'[f] = worked[f]
    BY <1>1, <2>1 DEF EngineBase
  <2>4. cursor' \in 0 .. MaxPayments
    BY <1>1, <2>1 DEF EngineBase
  <2>5. Ended(e)
    BY <1>1, <1>2, <2>1, <2>2, <2>3, <2>4, EndedBy DEF EngineBase, Outside
  <2> QED BY <1>2, <1>3, <1>4, <1>5, <2>1, <2>2, <2>3, <2>5
<1>6. CASE curLock # e
  <2> DEFINE work == worked[e] \/ w.matched # {}
  <2>1. /\ cursor' = cursor /\ EndTick(e, erred[e], work)
        /\ erred[e] \in BOOLEAN /\ work \in BOOLEAN
    BY <1>1, <1>6 DEF CommitPass, InNewPass, Upper, EngineBase
  <2>2. work = FALSE => ~worked[e]
    BY <1>1 DEF EngineBase
  <2> HIDE DEF work
  <2>3. /\ pc' \in [Engines -> Places]
        /\ pc'[e] \in {"idle", "failed", "done"}
        /\ pc'[e] = "done" => ~erred[e] /\ ~work
        /\ worked' \in [Engines -> BOOLEAN] /\ erred' \in [Engines -> BOOLEAN]
        /\ \A f \in Engines \ {e} : /\ pc'[f] = pc[f] /\ worked'[f] = worked[f]
                                    /\ erred'[f] = erred[f]
        /\ seen' = seen
    BY <1>1, <2>1, EndTickEffect
  <2>4. Ended(e)
    BY <1>1, <1>2, <2>1, <2>3, EndedBy DEF EngineBase, Outside
  <2> QED BY <1>2, <1>3, <1>4, <1>6, <2>1, <2>2, <2>3, <2>4
<1> QED BY <1>5, <1>6

-----------------------------------------------------------------------------
(* What everybody else does to the payments.                               *)

(* One payment changes, or none; a decided one never becomes undecided.    *)
Elsewhere ==
  \/ BeginPayment
  \/ \E p \in Payments : CommitPayment(p) \/ AbortPayment(p) \/ AgeOut(p)
  \/ \E i \in Invoices : BeginInvoice(i) \/ CommitInvoice(i) \/ AbortInvoice(i)
  \/ \E p \in Payments, i \in Invoices : MatchByHand(p, i)
  \/ \E p \in Payments : IgnoreByHand(p)
  \/ \E i \in Invoices : CancelByHand(i)
  \/ UNCHANGED vars

LEMMA ElsewhereEffect ==
  ASSUME Elsewhere
  PROVE  UNCHANGED engineVars
BY DEF Elsewhere, BeginPayment, CommitPayment, AbortPayment, AgeOut, BeginInvoice, CommitInvoice,
       AbortInvoice, MatchByHand, IgnoreByHand, CancelByHand, vars

LEMMA ElsewhereBase ==
  ASSUME Base, Elsewhere
  PROVE  Base'
<1>1. TableBase /\ EngineBase
  BY DEF Base
<1>2. EngineBase' /\ \A e \in Engines : Place(e)'
  BY <1>1, ElsewhereEffect
     DEF Base, EngineBase, StagedShape, Place, engineVars, locks, passVars, tickVars
<1>3. CASE BeginPayment
  <2>1. nextId \in Nat /\ nextId <= MaxPayments /\ nextId >= 1
    BY <1>1, <1>3, ReconcilerAssumption DEF BeginPayment, Payments, TableBase
  <2>2. nextId' \in 1 .. MaxPayments + 1
    BY <1>3, <2>1, ReconcilerAssumption DEF BeginPayment
  <2> QED BY <1>1, <1>2, <1>3, <2>2 DEF BeginPayment, TableBase, Base
<1>4. CASE \E p \in Payments : CommitPayment(p) \/ AbortPayment(p) \/ IgnoreByHand(p)
  BY <1>1, <1>2, <1>4 DEF CommitPayment, AbortPayment, IgnoreByHand, TableBase, Base
<1>5. CASE \E p \in Payments, i \in Invoices : MatchByHand(p, i)
  BY <1>1, <1>2, <1>5 DEF MatchByHand, TableBase, Base
<1>6. CASE \/ \E p \in Payments : AgeOut(p)
           \/ \E i \in Invoices : BeginInvoice(i) \/ CommitInvoice(i) \/ AbortInvoice(i)
           \/ \E i \in Invoices : CancelByHand(i)
           \/ UNCHANGED vars
  BY <1>1, <1>2, <1>6
     DEF AgeOut, BeginInvoice, CommitInvoice, AbortInvoice, CancelByHand, vars, payVars,
         TableBase, Base
<1> QED BY <1>3, <1>4, <1>5, <1>6 DEF Elsewhere

-----------------------------------------------------------------------------
(* All steps.                                                              *)

Does(e) == \/ LockCursor(e) \/ ReadPayments(e) \/ SelectRecheck(e) \/ Apply(e)
           \/ CommitPass(e) \/ RollBack(e) \/ BeginRun(e)

LEMMA NextSplit ==
  ASSUME [Next]_vars
  PROVE  Elsewhere \/ \E e \in Engines : Does(e)
BY Zenon DEF Next, Step, Elsewhere, Does, PassFails, Crash, BreakDeadlock, RunAgain

(* The steps of apply, in what they share.                                 *)
LEMMA ApplyEffect ==
  ASSUME Base, NEW e \in Engines, Apply(e)
  PROVE  /\ InPass(e) /\ rows'[e] \subseteq rows[e]
         /\ pc[e] \in AtRow \cup {"apply"} /\ pc'[e] \in AtRow \cup {"apply"}
<1>1. CASE FindInvoice(e)
  BY <1>1, FindInvoiceEffect DEF AtRow
<1>2. CASE InsertAllocation(e)
  BY <1>2, InsertAllocationEffect DEF AtRow
<1>3. CASE MarkMatched(e)
  BY <1>3, MarkMatchedEffect DEF AtRow
<1>4. CASE LockInvoice(e)
  BY <1>4, LockInvoiceEffect DEF AtRow
<1>5. CASE UpdateInvoice(e)
  BY <1>5, UpdateInvoiceEffect DEF AtRow
<1>6. CASE MarkUnmatched(e)
  BY <1>6, MarkUnmatchedEffect DEF AtRow
<1> QED BY <1>1, <1>2, <1>3, <1>4, <1>5, <1>6 DEF Apply

LEMMA DoesEffect ==
  ASSUME Base, NEW e \in Engines, Does(e)
  PROVE  EngineBase' /\ OthersKept(e) /\ Place(e)'
BY LockCursorEffect, ReadPaymentsEffect, SelectRecheckEffect, ApplyEffect, CommitPassEffect,
   RollBackEffect, BeginRunEffect
   DEF Does, InPass, Ended

(* But for the commit of a pass, no engine touches the payments.           *)
LEMMA DoesKeeps ==
  ASSUME Base, NEW e \in Engines, Does(e), ~CommitPass(e)
  PROVE  UNCHANGED <<payVars, cursor>>
BY LockCursorEffect, ReadPaymentsEffect, SelectRecheckEffect, ApplyEffect,
   RollBackEffect, BeginRunEffect
   DEF Does, InPass

LEMMA BaseInit == Init => Base
<1> SUFFICES ASSUME Init PROVE Base
  OBVIOUS
<1>1. TableBase
  BY ReconcilerAssumption DEF Init, TableBase
<1>2. StagedShape
  BY NothingShape DEF Init, StagedShape
<1>3. EngineBase
  BY <1>2, ReconcilerAssumption DEF Init, EngineBase, Places
<1>4. \A e \in Engines : Place(e)
  BY ReconcilerAssumption DEF Init, Place, AtRow, Outside
<1> QED BY <1>1, <1>3, <1>4 DEF Base

LEMMA BaseNext ==
  ASSUME Base, [Next]_vars
  PROVE  Base'
<1>1. ASSUME NEW e \in Engines, Does(e) PROVE Base'
  <2>1. EngineBase' /\ \A f \in Engines : Place(f)'
    BY <1>1, DoesEffect, OthersPlaced DEF Base
  <2>2. CASE CommitPass(e)
    BY <2>1, <2>2, CommitPassEffect DEF Base
  <2>3. CASE ~CommitPass(e)
    BY <1>1, <2>1, <2>3, DoesKeeps DEF Base, TableBase, payVars
  <2> QED BY <2>2, <2>3
<1> QED BY <1>1, NextSplit, ElsewhereBase

-----------------------------------------------------------------------------
(* One pass per payment.                                                   *)

(* A new pass works ahead of the cursor, and the cursor moves only to its  *)
(* upper end; a recheck works behind it, on payments it has locked.        *)
PassRows(e) ==
  /\ curLock = e /\ pc[e] # "read" => cursor <= upper[e]
  /\ curLock = e => \A p \in rows[e] : cursor < p
  /\ curLock # e => \A p \in rows[e] : p <= cursor /\ payLock[p] = e

RowsInv == \A e \in Engines : PassRows(e)

LEMMA CursorGrows ==
  ASSUME Base, RowsInv, [Next]_vars
  PROVE  cursor <= cursor'
<1>1. cursor \in Nat
  BY ReconcilerAssumption DEF Base, EngineBase
<1>2. CASE Elsewhere
  BY <1>1, <1>2, ElsewhereEffect DEF engineVars
<1>3. ASSUME NEW e \in Engines, Does(e) PROVE cursor <= cursor'
  <2>1. CASE CommitPass(e)
    BY <1>1, <2>1, CommitPassEffect DEF RowsInv, PassRows
  <2>2. CASE ~CommitPass(e)
    BY <1>1, <1>3, <2>2, DoesKeeps
  <2> QED BY <2>1, <2>2
<1> QED BY <1>2, <1>3, NextSplit

LEMMA RowsInvInit == Init => RowsInv
BY ReconcilerAssumption DEF Init, RowsInv, PassRows

LEMMA RowsInvNext ==
  ASSUME Base, RowsInv, [Next]_vars
  PROVE  RowsInv'
<1>1. CASE Elsewhere
  BY <1>1, ElsewhereEffect DEF RowsInv, PassRows, engineVars, locks, passVars
<1>2. ASSUME NEW e \in Engines, Does(e) PROVE RowsInv'
  <2>1. EngineBase /\ EngineBase' /\ OthersKept(e) /\ Place(e) /\ None \notin Engines
    BY <1>2, DoesEffect, ReconcilerAssumption DEF Base
  <2>2. cursor <= cursor' /\ cursor \in Nat /\ cursor' \in Nat
    BY <2>1, CursorGrows, ReconcilerAssumption DEF EngineBase
  <2>3. \A p \in Payments : p \in Nat
    BY DEF Payments
  <2>4. CommitPass(e) /\ cursor' # cursor => curLock = e
    BY CommitPassEffect
  <2>5. cursor' # cursor => curLock = e
    BY <1>2, <2>4, DoesKeeps
  <2>6. ASSUME NEW f \in Engines \ {e} PROVE PassRows(f)'
    <3>1. /\ UNCHANGED <<pc[f], rows[f], upper[f]>>
          /\ curLock' = f <=> curLock = f
          /\ \A p \in Payments : payLock[p] = f => payLock'[p] = f
      BY <2>1 DEF OthersKept
    <3>2. rows[f] \subseteq Payments
      BY <2>1 DEF EngineBase
    <3>3. CASE curLock = f
      BY <2>5, <3>1, <3>3 DEF RowsInv, PassRows
    <3>4. CASE curLock # f
      <4>1. \A p \in rows[f] : p <= cursor /\ payLock[p] = f
        BY <3>4 DEF RowsInv, PassRows
      <4>2. \A p \in rows[f] : p <= cursor'
        BY <2>2, <2>3, <3>2, <4>1
      <4> QED BY <3>1, <3>2, <3>4, <4>1, <4>2 DEF PassRows
    <3> QED BY <3>3, <3>4
  <2>7. PassRows(e)'
    <3>1. CASE LockCursor(e)
      BY <3>1, LockCursorEffect DEF PassRows, Base, Place, Outside, LockCursor
    <3>2. CASE ReadPayments(e)
      <4>1. /\ curLock = e /\ pc[e] = "read" /\ cursor' = cursor
        BY <3>2, ReadPaymentsEffect
      <4>2. CASE Reads(e)
        BY <2>2, <2>3, <4>1, <4>2 DEF Reads, PassRows, Recorded
      <4>3. CASE curLock' = None /\ pc'[e] = "recheck"
        BY <3>2, <2>1, <4>3, ReadPaymentsEffect DEF PassRows, Place, Outside
      <4> QED BY <3>2, <4>2, <4>3, ReadPaymentsEffect
    <3>3. CASE SelectRecheck(e)
      BY <3>3, SelectRecheckEffect DEF PassRows
    <3>4. CASE Apply(e)
      <4>1. InPass(e) /\ rows'[e] \subseteq rows[e] /\ pc[e] \in AtRow \cup {"apply"}
        BY <3>4, ApplyEffect
      <4>2. rows[e] \subseteq Payments
        BY <2>1 DEF EngineBase
      <4> QED BY <4>1, <4>2 DEF InPass, RowsInv, PassRows, AtRow
    <3>5. CASE CommitPass(e) \/ RollBack(e) \/ BeginRun(e)
      <4>1. Ended(e)
        BY <3>5, CommitPassEffect, RollBackEffect, BeginRunEffect
      <4> QED BY <4>1 DEF Ended, PassRows
    <3> QED BY <1>2, <3>1, <3>2, <3>3, <3>4, <3>5 DEF Does
  <2> QED BY <2>6, <2>7 DEF RowsInv
<1> QED BY <1>1, <1>2, NextSplit

LEMMA RowsAlways == Spec => [](Base /\ RowsInv)
<1>1. Init => Base /\ RowsInv
  BY BaseInit, RowsInvInit
<1>2. Base /\ RowsInv /\ [Next]_vars => (Base /\ RowsInv)'
  BY BaseNext, RowsInvNext
<1> QED BY <1>1, <1>2, PTL DEF Spec

(* No two passes work on one payment, whatever engines and hands do: the   *)
(* cursor's lock, the cursor itself and `skip locked` keep them apart.     *)
THEOREM PassesApart == Spec => []OnePassPerPayment
<1>1. Base /\ RowsInv => OnePassPerPayment
  <2> SUFFICES ASSUME Base, RowsInv, NEW e \in Engines, NEW f \in Engines, e # f,
                      NEW p \in rows[e] \cap rows[f]
               PROVE  FALSE
    BY DEF OnePassPerPayment
  <2>1. cursor \in Nat /\ p \in Nat
    BY ReconcilerAssumption DEF Base, EngineBase, Payments
  <2> QED BY <2>1 DEF RowsInv, PassRows
<1> QED BY <1>1, RowsAlways, PTL

-----------------------------------------------------------------------------
(* What passes wait for.                                                   *)

(* A pass has locked, or entered, only payments that are its own to work   *)
(* on: ahead of the cursor in a new pass, else locked and behind it.       *)
Claimed(e, p) == staged[e].alloc[p] # None \/ payLock[p] = e
Own(e, p) == IF curLock = e THEN cursor < p ELSE p <= cursor /\ payLock[p] = e

ClaimsOf(e) ==
  /\ pc[e] \in Outside => \A p \in Payments : payLock[p] # e
  /\ \A p \in Payments : Claimed(e, p) => Own(e, p)

ClaimsInv == \A e \in Engines : ClaimsOf(e)

LEMMA ClaimsInvInit == Init => ClaimsInv
BY ReconcilerAssumption DEF Init, ClaimsInv, ClaimsOf, Claimed, Nothing

(* A step of a pass takes locks for itself alone, in apply only of the     *)
(* payments of its rows.                                                   *)
LEMMA ApplyClaims ==
  ASSUME Base, NEW e \in Engines, Apply(e), NEW p \in Payments
  PROVE  /\ payLock'[p] \in {payLock[p], e}
         /\ payLock'[p] = e => payLock[p] = e \/ p \in rows[e]
         /\ staged'[e].alloc[p] # None => staged[e].alloc[p] # None \/ p \in rows[e]
<1>1. EngineBase /\ Place(e)
  BY DEF Base
<1>2. CASE FindInvoice(e) \/ LockInvoice(e)
  BY <1>2, FindInvoiceEffect, LockInvoiceEffect DEF FindInvoice, LockInvoice, locks
<1>3. CASE InsertAllocation(e)
  <2>1. Hand(e) \in rows[e]
    BY <1>1, <1>3, HandIn DEF Place, AtRow, InsertAllocation
  <2> QED BY <1>3, <2>1, InsertAllocationEffect DEF InsertAllocation, locks
<1>4. CASE MarkMatched(e)
  <2>1. Hand(e) \in rows[e]
    BY <1>1, <1>4, HandIn DEF Place, AtRow, MarkMatched
  <2>2. payLock' = [payLock EXCEPT ![Hand(e)] = e] /\ staged'[e].alloc = staged[e].alloc
    BY <1>4, MarkMatchedEffect DEF MarkMatched
  <2> QED BY <1>1, <2>1, <2>2 DEF EngineBase
<1>5. CASE UpdateInvoice(e)
  BY <1>5, UpdateInvoiceEffect DEF UpdateInvoice, committed
<1>6. CASE MarkUnmatched(e)
  <2>1. Hand(e) \in rows[e]
    BY <1>1, <1>6, HandIn DEF Place, AtRow, MarkUnmatched
  <2>2. /\ payLock' = payLock \/ payLock' = [payLock EXCEPT ![Hand(e)] = e]
        /\ staged'[e].alloc = staged[e].alloc
    BY <1>6, MarkUnmatchedEffect DEF MarkUnmatched
  <2> QED BY <1>1, <2>1, <2>2 DEF EngineBase
<1> QED BY <1>2, <1>3, <1>4, <1>5, <1>6 DEF Apply

LEMMA EndPassClaims ==
  ASSUME NEW e \in Engines, EndPass(e), NEW p \in Payments
  PROVE  payLock'[p] # e /\ payLock'[p] \in {payLock[p], None}
BY ReconcilerAssumption DEF EndPass

LEMMA EndedClaims ==
  ASSUME Base, NEW e \in Engines, CommitPass(e) \/ RollBack(e) \/ BeginRun(e), NEW p \in Payments
  PROVE  payLock'[p] # e /\ payLock'[p] \in {payLock[p], None}
<1>1. EndPass(e)
  BY DEF CommitPass, RollBack, BeginRun
<1> QED BY <1>1, EndPassClaims

LEMMA DoesClaims ==
  ASSUME Base, NEW e \in Engines, Does(e), NEW p \in Payments
  PROVE  payLock'[p] \in {payLock[p], e, None}
<1>1. CASE LockCursor(e) \/ ReadPayments(e)
  BY <1>1 DEF LockCursor, ReadPayments
<1>2. CASE SelectRecheck(e)
  BY <1>2 DEF SelectRecheck
<1>3. CASE Apply(e)
  BY <1>3, ApplyClaims
<1>4. CASE CommitPass(e) \/ RollBack(e) \/ BeginRun(e)
  BY <1>4, EndedClaims
<1> QED BY <1>1, <1>2, <1>3, <1>4 DEF Does

LEMMA ClaimsInvNext ==
  ASSUME Base, RowsInv, ClaimsInv, [Next]_vars
  PROVE  ClaimsInv'
<1>1. CASE Elsewhere
  BY <1>1, ElsewhereEffect DEF ClaimsInv, ClaimsOf, Claimed, Own, engineVars, locks, passVars
<1>2. ASSUME NEW e \in Engines, Does(e) PROVE ClaimsInv'
  <2>1. EngineBase /\ Place(e) /\ OthersKept(e) /\ None \notin Engines /\ \A p \in Payments : p \in Nat
    BY <1>2, DoesEffect, ReconcilerAssumption DEF Base, Payments
  <2>2. cursor <= cursor' /\ cursor \in Nat /\ cursor' \in Nat
    BY <1>2, CursorGrows, DoesEffect, ReconcilerAssumption DEF Base, EngineBase
  <2>3. cursor' # cursor => curLock = e
    BY <1>2, DoesKeeps, CommitPassEffect
  <2>4. ASSUME NEW f \in Engines \ {e} PROVE ClaimsOf(f)'
    <3>1. /\ UNCHANGED <<pc[f], staged[f]>> /\ (curLock' = f <=> curLock = f)
          /\ \A p \in Payments : payLock[p] = f <=> payLock'[p] = f
      BY <1>2, <2>1, DoesClaims DEF OthersKept
    <3>2. ASSUME NEW p \in Payments, Claimed(f, p)' PROVE Own(f, p)'
      <4>1. Own(f, p)
        BY <3>1, <3>2 DEF ClaimsInv, ClaimsOf, Claimed
      <4> QED BY <2>1, <2>2, <2>3, <3>1, <4>1 DEF Own
    <3> QED BY <3>1, <3>2 DEF ClaimsInv, ClaimsOf
  <2>5. ClaimsOf(e)'
    <3>1. CASE LockCursor(e) \/ ReadPayments(e)
      <4>1. /\ pc[e] \in Outside /\ staged[e] = Nothing /\ staged'[e] = Nothing
            /\ payLock' = payLock
        BY <3>1, LockCursorEffect, ReadPaymentsEffect
           DEF Base, Place, Outside, LockCursor, ReadPayments
      <4> QED BY <4>1 DEF ClaimsInv, ClaimsOf, Claimed, Nothing
    <3>2. CASE SelectRecheck(e)
      <4>1. /\ pc[e] \in Outside /\ staged'[e] = Nothing /\ curLock' # e /\ cursor' = cursor
            /\ \A p \in rows'[e] : p <= cursor /\ payLock'[p] = e
        BY <3>2, SelectRecheckEffect DEF Base, Place, Outside
      <4>2. \A p \in Payments : payLock'[p] = e => p \in rows'[e]
        <5> DEFINE chosen == FirstOf(Recheckable \cap Unlocked)
        <5>1. \A p \in Payments : payLock'[p] = IF p \in chosen THEN e ELSE payLock[p]
          BY <3>2 DEF SelectRecheck
        <5>2. rows'[e] = chosen
          BY <2>1, <3>2 DEF SelectRecheck, EngineBase
        <5> QED BY <4>1, <5>1, <5>2 DEF ClaimsInv, ClaimsOf
      <4>3. pc'[e] \in Outside => rows'[e] = {}
        BY <1>2, DoesEffect DEF Place
      <4> QED BY <4>1, <4>2, <4>3 DEF ClaimsOf, Claimed, Own, Nothing
    <3>3. CASE Apply(e)
      <4>1. /\ UNCHANGED <<cursor, curLock>> /\ pc[e] # "read" /\ pc'[e] \notin Outside
            /\ rows[e] \subseteq Payments
            /\ \A p \in Payments : payLock[p] = e => payLock'[p] = e
        BY <2>1, <3>3, ApplyEffect DEF InPass, AtRow, Outside, EngineBase
      <4>2. ASSUME NEW p \in Payments, Claimed(e, p)' PROVE Own(e, p)'
        <5>1. Claimed(e, p) \/ p \in rows[e]
          BY <3>3, <4>2, ApplyClaims DEF Claimed
        <5>2. Own(e, p)
          BY <5>1 DEF ClaimsInv, ClaimsOf, RowsInv, PassRows, Own
        <5> QED BY <4>1, <5>2 DEF Own
      <4> QED BY <4>1, <4>2 DEF ClaimsOf
    <3>4. CASE CommitPass(e) \/ RollBack(e) \/ BeginRun(e)
      <4>1. Ended(e)
        BY <3>4, CommitPassEffect, RollBackEffect, BeginRunEffect
      <4>2. \A p \in Payments : payLock'[p] # e
        BY <3>4, EndedClaims
      <4> QED BY <4>1, <4>2 DEF Ended, ClaimsOf, Claimed, Nothing
    <3> QED BY <1>2, <3>1, <3>2, <3>3, <3>4 DEF Does
  <2> QED BY <2>4, <2>5 DEF ClaimsInv
<1> QED BY <1>1, <1>2, NextSplit

(* Passes wait for each other over invoices alone, for any number of       *)
(* engines and any batch: what two of them claim never meets.              *)
THEOREM InvoicesContended == Spec => []WaitsOverInvoices
<1>1. Init => Base /\ RowsInv /\ ClaimsInv
  BY BaseInit, RowsInvInit, ClaimsInvInit
<1>2. Base /\ RowsInv /\ ClaimsInv /\ [Next]_vars => (Base /\ RowsInv /\ ClaimsInv)'
  BY BaseNext, RowsInvNext, ClaimsInvNext
<1>3. Base /\ RowsInv /\ ClaimsInv => WaitsOverInvoices
  <2> SUFFICES ASSUME Base, RowsInv, ClaimsInv, NEW e \in Engines, NEW f \in Engines,
                      WaitsFor(e, f)
               PROVE  /\ pc[e] \in {"allocate", "recalc"}
                      /\ invLock[choice[e]] = f \/ Sharing(f, choice[e])
    BY DEF WaitsOverInvoices
  <2>1. CASE \/ pc[e] = "allocate" /\ Entering(f, Hand(e))
             \/ pc[e] \in {"mark", "unmatch"} /\ payLock[Hand(e)] = f
    <3>1. Hand(e) \in rows[e] /\ Hand(e) \in Payments /\ e # f
      BY <2>1, HandIn DEF Base, Place, AtRow, WaitsFor
    <3>2. Own(e, Hand(e)) /\ Own(f, Hand(e))
      BY <2>1, <3>1 DEF RowsInv, PassRows, ClaimsInv, ClaimsOf, Claimed, Entering, Own
    <3>3. cursor \in Nat /\ Hand(e) \in Nat
      BY <3>1, ReconcilerAssumption DEF Base, EngineBase, Payments
    <3> QED BY <3>1, <3>2, <3>3 DEF Own
  <2>2. CASE \/ pc[e] = "allocate" /\ invLock[choice[e]] = f
             \/ pc[e] = "recalc" /\ (invLock[choice[e]] = f \/ Sharing(f, choice[e]))
    BY <2>2
  <2> QED BY <2>1, <2>2 DEF WaitsFor
<1> QED BY <1>1, <1>2, <1>3, PTL DEF Spec

-----------------------------------------------------------------------------
(* The books: statuses and allocations, with what is staged.               *)

(* Ids not given out yet have no row.                                      *)
FreshAbsent == \A p \in Payments : nextId <= p => status[p] = "absent"

(* What is staged is of recorded payments, and each is or will be          *)
(* allocated if and only if it is to be marked, but for the one in hand    *)
(* between the two statements.                                             *)
Stage(e) ==
  /\ rows[e] \subseteq Recorded /\ staged[e].matched \subseteq Recorded
  /\ \A p \in staged[e].matched : staged[e].alloc[p] # None \/ alloc[p] # None
  /\ \A p \in Payments : staged[e].alloc[p] # None =>
       p \in staged[e].matched \/ (pc[e] = "mark" /\ p = Hand(e))
  /\ pc[e] = "mark" => staged[e].alloc[Hand(e)] # None \/ alloc[Hand(e)] # None
  /\ pc[e] \in {"recalc", "update"} => Hand(e) \in staged[e].matched

BookInv == MatchedIsAllocated /\ FreshAbsent /\ \A e \in Engines : Stage(e)

Settled(p) == status[p] # "unmatched" \/ reason[p] # None

(* What becomes of the payments in a step: rows stay, decisions stay.      *)
TableStep ==
  /\ MatchedIsAllocated' /\ FreshAbsent'
  /\ \A p \in Payments :
       /\ alloc[p] # None => alloc'[p] # None
       /\ p \in Recorded => p \in Recorded' /\ (Settled(p) => Settled(p)')
       /\ p \in Recorded' => p \in Recorded \/ CommitPayment(p)

LEMMA TableSame ==
  ASSUME BookInv, UNCHANGED <<nextId, status, reason, alloc>>
  PROVE  TableStep
BY DEF BookInv, MatchedIsAllocated, FreshAbsent, TableStep, Recorded, Settled

LEMMA TableElsewhere ==
  ASSUME Base, BookInv, Elsewhere
  PROVE  TableStep
<1>1. TableBase /\ MatchedIsAllocated /\ FreshAbsent
  BY DEF Base, BookInv
<1>2. CASE BeginPayment
  <2>1. /\ nextId \in Payments /\ nextId \in Nat /\ status[nextId] = "absent"
        /\ nextId' = nextId + 1
        /\ status' = [status EXCEPT ![nextId] = "inserting"]
        /\ UNCHANGED <<reason, alloc>>
    BY <1>1, <1>2 DEF BeginPayment, FreshAbsent, Payments
  <2>2. \A p \in Payments : p \in Nat /\ status'[p] = IF p = nextId THEN "inserting" ELSE status[p]
    BY <1>1, <2>1 DEF TableBase, Payments
  <2>3. FreshAbsent'
    <3> SUFFICES ASSUME NEW p \in Payments, nextId' <= p PROVE status'[p] = "absent"
      BY DEF FreshAbsent
    <3>1. nextId <= p /\ p # nextId
      BY <2>1, <2>2
    <3> QED BY <1>1, <2>2, <3>1 DEF FreshAbsent
  <2>4. MatchedIsAllocated'
    BY <1>1, <2>1, <2>2 DEF MatchedIsAllocated
  <2> QED BY <1>1, <2>1, <2>2, <2>3, <2>4 DEF TableStep, Recorded, Settled
<1>3. ASSUME NEW p \in Payments, CommitPayment(p) PROVE TableStep
  <2>1. /\ status[p] = "inserting"
        /\ \A q \in Payments : status'[q] = IF q = p THEN "unmatched" ELSE status[q]
        /\ UNCHANGED <<nextId, reason, alloc>>
    BY <1>1, <1>3 DEF CommitPayment, TableBase
  <2>2. FreshAbsent'
    BY <1>1, <2>1 DEF FreshAbsent
  <2>3. MatchedIsAllocated'
    BY <1>1, <2>1 DEF MatchedIsAllocated
  <2> QED BY <1>3, <2>1, <2>2, <2>3 DEF TableStep, Recorded, Settled
<1>4. ASSUME NEW p \in Payments, AbortPayment(p) PROVE TableStep
  <2>1. /\ status[p] = "inserting"
        /\ \A q \in Payments : status'[q] = IF q = p THEN "absent" ELSE status[q]
        /\ UNCHANGED <<nextId, reason, alloc>>
    BY <1>1, <1>4 DEF AbortPayment, TableBase
  <2>2. FreshAbsent'
    BY <1>1, <2>1 DEF FreshAbsent
  <2>3. MatchedIsAllocated'
    BY <1>1, <2>1 DEF MatchedIsAllocated
  <2> QED BY <2>1, <2>2, <2>3 DEF TableStep, Recorded, Settled
<1>5. ASSUME NEW p \in Payments, IgnoreByHand(p) PROVE TableStep
  <2>1. /\ status[p] = "unmatched"
        /\ \A q \in Payments : status'[q] = IF q = p THEN "ignored" ELSE status[q]
        /\ UNCHANGED <<nextId, reason, alloc>>
    BY <1>1, <1>5 DEF IgnoreByHand, TableBase
  <2>2. FreshAbsent'
    BY <1>1, <2>1 DEF FreshAbsent
  <2>3. MatchedIsAllocated'
    BY <1>1, <2>1 DEF MatchedIsAllocated
  <2> QED BY <2>1, <2>2, <2>3 DEF TableStep, Recorded, Settled
<1>6. ASSUME NEW p \in Payments, NEW i \in Invoices, MatchByHand(p, i) PROVE TableStep
  <2>1. /\ status[p] = "unmatched" /\ i # None
        /\ \A q \in Payments : /\ status'[q] = IF q = p THEN "matched" ELSE status[q]
                               /\ alloc'[q] = IF q = p THEN i ELSE alloc[q]
                               /\ q # p => reason'[q] = reason[q]
        /\ UNCHANGED nextId
    BY <1>1, <1>6, ReconcilerAssumption DEF MatchByHand, TableBase
  <2>2. FreshAbsent'
    BY <1>1, <2>1 DEF FreshAbsent
  <2>3. MatchedIsAllocated'
    BY <1>1, <2>1 DEF MatchedIsAllocated
  <2> QED BY <2>1, <2>2, <2>3 DEF TableStep, Recorded, Settled
<1>7. CASE \/ \E p \in Payments : AgeOut(p)
           \/ \E i \in Invoices : BeginInvoice(i) \/ CommitInvoice(i) \/ AbortInvoice(i)
           \/ \E i \in Invoices : CancelByHand(i)
           \/ UNCHANGED vars
  <2>1. UNCHANGED <<nextId, status, reason, alloc>>
    BY <1>7 DEF AgeOut, BeginInvoice, CommitInvoice, AbortInvoice, CancelByHand, vars, payVars
  <2> QED BY <2>1, TableSame
<1> QED BY <1>2, <1>3, <1>4, <1>5, <1>6, <1>7 DEF Elsewhere

LEMMA TableCommit ==
  ASSUME Base, BookInv, NEW e \in Engines, CommitPass(e)
  PROVE  TableStep
<1>1. /\ TableBase /\ Shape(staged[e]) /\ Stage(e) /\ pc[e] = "apply"
      /\ MatchedIsAllocated /\ FreshAbsent /\ TakesOver(staged[e]) /\ UNCHANGED nextId
  BY CommitPassEffect DEF Base, BookInv, EngineBase, StagedShape
<1>2. \A p \in Payments : status'[p] = IF p \in staged[e].matched THEN "matched" ELSE status[p]
  BY <1>1 DEF TakesOver
<1>3. \A p \in staged[e].matched : p \in Payments /\ p \in Recorded
  BY <1>1 DEF Stage, Recorded
<1>4. \A p \in Payments : staged[e].alloc[p] # None => p \in staged[e].matched
  BY <1>1 DEF Stage
<1>5. FreshAbsent'
  BY <1>1, <1>2, <1>3 DEF FreshAbsent, Recorded
<1>6. \A p \in Payments : alloc'[p] = IF staged[e].alloc[p] # None THEN staged[e].alloc[p] ELSE alloc[p]
  BY <1>1 DEF TakesOver
<1>7. MatchedIsAllocated'
  <2> SUFFICES ASSUME NEW p \in Payments PROVE status'[p] = "matched" <=> alloc'[p] # None
    BY DEF MatchedIsAllocated
  <2>1. CASE p \in staged[e].matched
    <3>1. staged[e].alloc[p] # None \/ alloc[p] # None
      BY <1>1, <2>1 DEF Stage
    <3> QED BY <1>2, <1>6, <2>1, <3>1
  <2>2. CASE p \notin staged[e].matched
    BY <1>1, <1>2, <1>4, <1>6, <2>2 DEF MatchedIsAllocated
  <2> QED BY <2>1, <2>2
<1>8. ASSUME NEW p \in Payments
      PROVE  /\ alloc[p] # None => alloc'[p] # None
             /\ p \in Recorded => p \in Recorded' /\ (Settled(p) => Settled(p)')
             /\ p \in Recorded' => p \in Recorded
  <2>1. alloc[p] # None => alloc'[p] # None
    BY <1>6
  <2>2. p \in Recorded <=> p \in Recorded'
    BY <1>2, <1>3 DEF Recorded
  <2>3. reason[p] # None /\ p \notin staged[e].matched => reason'[p] # None
    BY <1>1 DEF TakesOver
  <2>4. Settled(p) => Settled(p)'
    BY <1>2, <2>3 DEF Settled
  <2> QED BY <2>1, <2>2, <2>4
<1> QED BY <1>5, <1>7, <1>8 DEF TableStep

LEMMA TableNext ==
  ASSUME Base, BookInv, [Next]_vars
  PROVE  TableStep
<1>1. ASSUME NEW e \in Engines, Does(e) PROVE TableStep
  <2>1. CASE CommitPass(e)
    BY <2>1, TableCommit
  <2>2. CASE ~CommitPass(e)
    BY <1>1, <2>2, DoesKeeps, TableSame DEF payVars
  <2> QED BY <2>1, <2>2
<1> QED BY <1>1, NextSplit, TableElsewhere

LEMMA BookInvInit == Init => BookInv
<1> SUFFICES ASSUME Init PROVE BookInv
  OBVIOUS
<1>1. MatchedIsAllocated /\ FreshAbsent
  BY DEF Init, MatchedIsAllocated, FreshAbsent
<1>2. \A e \in Engines : Stage(e)
  BY DEF Init, Stage, Nothing
<1> QED BY <1>1, <1>2 DEF BookInv

(* What one engine has in hand, through the steps of all others.           *)
LEMMA StageKept ==
  ASSUME Base, NEW f \in Engines, Stage(f), TableStep,
         UNCHANGED <<pc[f], rows[f], staged[f]>>
  PROVE  Stage(f)'
<1>1. Hand(f)' = Hand(f)
  BY DEF Hand
<1>2. rows[f] \subseteq Payments /\ Shape(staged[f])
  BY DEF Base, EngineBase, StagedShape
<1>3. rows[f] # {} => Hand(f) \in Payments
  BY HandIn DEF Base
<1>4. pc[f] = "mark" => rows[f] # {}
  BY DEF Base, Place, AtRow
<1>5. \A p \in Payments : (alloc[p] # None => alloc'[p] # None) /\ (p \in Recorded => p \in Recorded')
  BY DEF TableStep
<1> QED BY <1>1, <1>2, <1>3, <1>4, <1>5 DEF Stage, Shape

LEMMA StageApply ==
  ASSUME Base, BookInv, NEW e \in Engines, Apply(e)
  PROVE  Stage(e)'
<1>1. /\ Stage(e) /\ EngineBase /\ rows[e] \subseteq Payments /\ Place(e) /\ Shape(staged[e])
  BY DEF Base, BookInv, EngineBase, StagedShape
<1>2. UNCHANGED payVars
  BY ApplyEffect DEF InPass
<1>3. UNCHANGED <<status, alloc>> /\ Recorded' = Recorded
  BY <1>2 DEF payVars, Recorded
<1>4. rows[e] = rows'[e] => Hand(e)' = Hand(e)
  BY DEF Hand
<1>5. rows[e] # {} => Hand(e) \in Payments /\ Hand(e) \in rows[e]
  BY <1>1, HandIn
<1>6. CASE FindInvoice(e)
  BY <1>1, <1>3, <1>6, FindInvoiceEffect DEF Stage
<1>7. CASE InsertAllocation(e)
  <2>1. /\ pc[e] = "allocate" /\ pc'[e] = "mark" /\ rows'[e] = rows[e]
        /\ staged'[e].matched = staged[e].matched
        /\ staged'[e].alloc[Hand(e)] # None \/ alloc[Hand(e)] # None
        /\ \A q \in Payments \ {Hand(e)} : staged'[e].alloc[q] = staged[e].alloc[q]
    BY <1>7, InsertAllocationEffect
  <2>2. Hand(e)' = Hand(e)
    BY <1>4, <2>1
  <2>3. \A q \in staged[e].matched : q \in Payments
    BY <1>1 DEF Shape
  <2> QED BY <1>1, <1>3, <2>1, <2>2, <2>3 DEF Stage
<1>8. CASE MarkMatched(e)
  <2>1. /\ pc[e] = "mark" /\ pc'[e] = "recalc" /\ rows'[e] = rows[e]
        /\ staged'[e].alloc = staged[e].alloc
        /\ staged'[e].matched = staged[e].matched \cup {Hand(e)}
    BY <1>8, MarkMatchedEffect
  <2>2. Hand(e)' = Hand(e) /\ Hand(e) \in Recorded
    BY <1>1, <1>4, <1>5, <2>1 DEF Place, AtRow, Stage
  <2> QED BY <1>1, <1>3, <2>1, <2>2 DEF Stage
<1>9. CASE LockInvoice(e)
  <2>1. pc[e] = "recalc" /\ pc'[e] = "update" /\ UNCHANGED <<rows, staged>>
    BY <1>9, LockInvoiceEffect
  <2>2. Hand(e)' = Hand(e)
    BY <1>4, <2>1
  <2> QED BY <1>1, <1>3, <2>1, <2>2 DEF Stage
<1>10. CASE UpdateInvoice(e) \/ MarkUnmatched(e)
  <2>1. /\ pc[e] \in {"update", "unmatch"} /\ pc'[e] = "apply" /\ rows'[e] \subseteq rows[e]
        /\ staged'[e].alloc = staged[e].alloc /\ staged'[e].matched = staged[e].matched
    BY <1>10, UpdateInvoiceEffect, MarkUnmatchedEffect
  <2> QED BY <1>1, <1>3, <2>1 DEF Stage
<1> QED BY <1>6, <1>7, <1>8, <1>9, <1>10 DEF Apply

LEMMA BookInvNext ==
  ASSUME Base, BookInv, [Next]_vars
  PROVE  BookInv'
<1>1. TableStep
  BY TableNext
<1>2. CASE Elsewhere
  <2>1. \A e \in Engines : Stage(e)'
    BY <1>1, <1>2, ElsewhereEffect, StageKept DEF BookInv, engineVars, passVars
  <2> QED BY <1>1, <2>1 DEF BookInv, TableStep
<1>3. ASSUME NEW e \in Engines, Does(e) PROVE BookInv'
  <2>1. \A f \in Engines \ {e} : Stage(f)'
    BY <1>1, <1>3, DoesEffect, StageKept DEF BookInv, OthersKept
  <2>2. Stage(e)'
    <3>1. CASE Apply(e)
      BY <3>1, StageApply
    <3>2. CASE CommitPass(e) \/ RollBack(e) \/ BeginRun(e)
      <4>1. rows'[e] = {} /\ staged'[e] = Nothing /\ pc'[e] \in Outside
        BY <3>2, CommitPassEffect, RollBackEffect, BeginRunEffect DEF Ended
      <4> QED BY <4>1 DEF Stage, Nothing, Outside
    <3>3. CASE LockCursor(e) \/ ReadPayments(e) \/ SelectRecheck(e)
      <4>1. /\ pc[e] \in Outside /\ staged' = staged
            /\ pc'[e] \in Outside \cup {"apply"}
        BY <3>3, LockCursorEffect, ReadPaymentsEffect, SelectRecheckEffect
           DEF LockCursor, Reads, Outside
      <4>2. staged'[e] = Nothing
        BY <4>1 DEF Base, Place
      <4>3. rows'[e] \subseteq Recorded /\ UNCHANGED payVars
        <5>1. CASE LockCursor(e)
          BY <4>1, <5>1, LockCursorEffect DEF Base, Place
        <5>2. CASE ReadPayments(e)
          <6>1. CASE Reads(e)
            BY <5>2, <6>1, ReadPaymentsEffect DEF Reads
          <6>2. CASE ~Reads(e)
            BY <5>2, <6>2, ReadPaymentsEffect DEF Place, Outside
          <6> QED BY <6>1, <6>2
        <5>3. CASE SelectRecheck(e)
          BY <5>3, SelectRecheckEffect
        <5> QED BY <3>3, <5>1, <5>2, <5>3
      <4>4. rows'[e] \subseteq Recorded'
        BY <4>3 DEF payVars, Recorded
      <4> QED BY <4>1, <4>2, <4>4 DEF Stage, Nothing, Outside
    <3> QED BY <1>3, <3>1, <3>2, <3>3 DEF Does
  <2> QED BY <1>1, <2>1, <2>2 DEF BookInv, TableStep
<1> QED BY <1>2, <1>3, NextSplit

(* A payment is matched exactly when it is allocated, for any number of    *)
(* engines, any hands, crashes, rollbacks and broken deadlocks.            *)
THEOREM BooksAgree == Spec => []MatchedIsAllocated
<1>1. Init => Base /\ BookInv
  BY BaseInit, BookInvInit
<1>2. Base /\ BookInv /\ [Next]_vars => (Base /\ BookInv)'
  BY BaseNext, BookInvNext
<1>3. BookInv => MatchedIsAllocated
  BY DEF BookInv
<1> QED BY <1>1, <1>2, <1>3, PTL DEF Spec

-----------------------------------------------------------------------------
(* None is skipped, when inserts commit in the order they began.           *)

(* Payments come after those recorded before them.                         *)
OrderInv ==
  /\ \A p \in Recorded, q \in Payments : status[q] = "inserting" => p < q
  /\ cursor \in Recorded \cup {0}
  /\ \A e \in Engines : curLock = e /\ pc[e] # "read" => upper[e] \in Recorded

(* A new pass has still to do, has done, or need not do what it covers.    *)
Covers(e) ==
  curLock = e /\ pc[e] # "read" =>
    \A p \in Recorded : cursor < p /\ p <= upper[e] =>
      \/ p \in rows[e]
      \/ Settled(p)
      \/ p \in staged[e].matched
      \/ staged[e].reason[p] # None

SkipInv == NoneSkipped /\ OrderInv /\ \A e \in Engines : Covers(e)

LEMMA SkipInvInit == Init => SkipInv
BY ReconcilerAssumption DEF Init, SkipInv, NoneSkipped, OrderInv, Covers, Recorded

LEMMA InsertingStep ==
  ASSUME Base, [Next]_vars, ~BeginPayment, NEW q \in Payments, status'[q] = "inserting"
  PROVE  status[q] = "inserting"
<1>1. TableBase
  BY DEF Base
<1>2. CASE Elsewhere
  BY <1>1, <1>2
     DEF Elsewhere, CommitPayment, AbortPayment, AgeOut, BeginInvoice, CommitInvoice,
         AbortInvoice, MatchByHand, IgnoreByHand, CancelByHand, vars, payVars, TableBase
<1>3. ASSUME NEW e \in Engines, Does(e) PROVE status[q] = "inserting"
  <2>1. CASE CommitPass(e)
    BY <2>1, CommitPassEffect DEF TakesOver
  <2>2. CASE ~CommitPass(e)
    BY <1>3, <2>2, DoesKeeps DEF payVars
  <2> QED BY <2>1, <2>2
<1> QED BY <1>2, <1>3, NextSplit

(* The engine that moves the cursor holds its lock.                        *)
LEMMA CursorMoves ==
  ASSUME Base, [Next]_vars, cursor' # cursor
  PROVE  \E e \in Engines : CommitPass(e) /\ curLock = e /\ cursor' = upper[e]
<1>1. CASE Elsewhere
  BY <1>1, ElsewhereEffect DEF engineVars
<1>2. ASSUME NEW e \in Engines, Does(e)
      PROVE  CommitPass(e) /\ curLock = e /\ cursor' = upper[e]
  BY <1>2, DoesKeeps, CommitPassEffect
<1> QED BY <1>1, <1>2, NextSplit

LEMMA OrderInvNext ==
  ASSUME InOrder, Base, BookInv, OrderInv, [Next]_vars
  PROVE  OrderInv'
<1>1. TableStep /\ \A p \in Payments : p \in Nat
  BY TableNext DEF Payments
<1>2. Recorded \subseteq Recorded' /\ Recorded \subseteq Payments /\ Recorded' \subseteq Payments
  BY <1>1 DEF TableStep, Recorded
<1>3. ASSUME NEW p \in Recorded', NEW q \in Payments, status'[q] = "inserting"
      PROVE  p < q
  <2>1. CASE BeginPayment
    <3>1. /\ nextId \in Payments
          /\ \A r \in Payments : status'[r] = IF r = nextId THEN "inserting" ELSE status[r]
      BY <2>1 DEF BeginPayment, Base, TableBase
    <3>2. p \in Recorded
      BY <1>2, <3>1 DEF Recorded
    <3>3. CASE q = nextId
      BY <1>1, <1>2, <3>1, <3>2, <3>3 DEF BookInv, FreshAbsent, Recorded
    <3>4. CASE q # nextId
      BY <1>3, <3>1, <3>2, <3>4 DEF OrderInv
    <3> QED BY <3>3, <3>4
  <2>2. CASE ~BeginPayment
    <3>1. status[q] = "inserting"
      BY <1>3, <2>2, InsertingStep
    <3>2. CASE p \in Recorded
      BY <3>1, <3>2 DEF OrderInv
    <3>3. CASE p \notin Recorded
      <4>1. CommitPayment(p) /\ p \in Payments
        BY <1>1, <1>2, <3>3 DEF TableStep
      <4>2. p <= q /\ status'[p] = "unmatched"
        BY <3>1, <4>1 DEF CommitPayment, Base, TableBase
      <4> QED BY <1>1, <1>3, <4>1, <4>2
    <3> QED BY <3>2, <3>3
  <2> QED BY <2>1, <2>2
<1>4. cursor' \in Recorded' \cup {0}
  <2>1. CASE cursor' = cursor
    BY <1>2, <2>1 DEF OrderInv
  <2>2. CASE cursor' # cursor
    <3>1. PICK e \in Engines : CommitPass(e) /\ curLock = e /\ cursor' = upper[e]
      BY <2>2, CursorMoves
    <3>2. pc[e] # "read"
      BY <3>1, CommitPassEffect
    <3> QED BY <1>2, <3>1, <3>2 DEF OrderInv
  <2> QED BY <2>1, <2>2
<1>5. ASSUME NEW f \in Engines, curLock' = f, pc'[f] # "read"
      PROVE  upper'[f] \in Recorded'
  <2>1. CASE Elsewhere
    BY <1>2, <1>5, <2>1, ElsewhereEffect DEF OrderInv, engineVars, locks, passVars
  <2>2. ASSUME NEW e \in Engines, Does(e), e # f PROVE upper'[f] \in Recorded'
    BY <1>2, <1>5, <2>2, DoesEffect DEF OthersKept, OrderInv
  <2>3. CASE Does(f)
    <3>1. CASE LockCursor(f)
      BY <1>5, <3>1, LockCursorEffect
    <3>2. CASE ReadPayments(f)
      BY <1>2, <1>5, <3>2, ReadPaymentsEffect, ReconcilerAssumption DEF Reads
    <3>3. CASE SelectRecheck(f)
      BY <1>5, <3>3, SelectRecheckEffect
    <3>4. CASE Apply(f)
      BY <1>2, <1>5, <3>4, ApplyEffect DEF InPass, OrderInv, AtRow
    <3>5. CASE CommitPass(f) \/ RollBack(f) \/ BeginRun(f)
      BY <1>5, <3>5, CommitPassEffect, RollBackEffect, BeginRunEffect DEF Ended
    <3> QED BY <2>3, <3>1, <3>2, <3>3, <3>4, <3>5 DEF Does
  <2> QED BY <2>1, <2>2, <2>3, NextSplit
<1> QED BY <1>3, <1>4, <1>5 DEF OrderInv

(* What a payment was settled by stays; a new one is past the upper end.   *)
LEMMA CoversKept ==
  ASSUME Base, OrderInv, TableStep, NEW f \in Engines, Covers(f),
         UNCHANGED <<pc[f], rows[f], staged[f], upper[f], cursor>>,
         curLock' = f <=> curLock = f
  PROVE  Covers(f)'
<1> SUFFICES ASSUME curLock = f, pc[f] # "read",
                    NEW p \in Recorded', cursor < p, p <= upper[f]
             PROVE  \/ p \in rows[f] \/ Settled(p)'
                    \/ p \in staged[f].matched \/ staged[f].reason[p] # None
  BY DEF Covers
<1>1. p \in Payments /\ p \in Nat /\ upper[f] \in Nat
  BY ReconcilerAssumption DEF Recorded, Payments, Base, EngineBase
<1>2. CASE p \in Recorded
  BY <1>1, <1>2 DEF Covers, TableStep
<1>3. CASE p \notin Recorded
  <2>1. status[p] = "inserting"
    BY <1>1, <1>3 DEF TableStep, CommitPayment
  <2>2. upper[f] < p
    BY <1>1, <2>1 DEF OrderInv
  <2> QED BY <1>1, <2>2
<1> QED BY <1>2, <1>3

LEMMA CoversApply ==
  ASSUME Base, BookInv, NEW e \in Engines, Covers(e), Apply(e)
  PROVE  Covers(e)'
<1>1. /\ InPass(e) /\ pc[e] \in AtRow \cup {"apply"} /\ EngineBase /\ Place(e) /\ Stage(e)
  BY ApplyEffect DEF Base, BookInv
<1>2. UNCHANGED <<status, reason, cursor, curLock, upper>> /\ Recorded' = Recorded /\ pc[e] # "read"
  BY <1>1 DEF InPass, payVars, Recorded, AtRow
<1>3. \A p \in Payments : Settled(p)' <=> Settled(p)
  BY <1>2 DEF Settled
<1>4. \A p \in Recorded : p \in Payments
  BY DEF Recorded
<1>5. ASSUME \A p \in Recorded :
               (p \in rows[e] \/ p \in staged[e].matched \/ staged[e].reason[p] # None)
               => \/ p \in rows'[e] \/ Settled(p)
                  \/ p \in staged'[e].matched \/ staged'[e].reason[p] # None
      PROVE  Covers(e)'
  BY <1>2, <1>3, <1>4, <1>5 DEF Covers
<1>6. CASE FindInvoice(e) \/ LockInvoice(e) \/ InsertAllocation(e) \/ MarkMatched(e)
  <2>1. /\ rows'[e] = rows[e] /\ staged'[e].reason = staged[e].reason
        /\ staged[e].matched \subseteq staged'[e].matched
    BY <1>6, FindInvoiceEffect, LockInvoiceEffect, InsertAllocationEffect, MarkMatchedEffect
  <2> QED BY <1>5, <2>1
<1>7. CASE UpdateInvoice(e)
  <2>1. /\ rows'[e] = rows[e] \ {Hand(e)} /\ Hand(e) \in staged[e].matched
        /\ staged'[e].matched = staged[e].matched /\ staged'[e].reason = staged[e].reason
    BY <1>1, <1>7, UpdateInvoiceEffect DEF Stage
  <2> QED BY <1>5, <2>1
<1>8. CASE MarkUnmatched(e)
  <2>1. /\ rows'[e] = rows[e] \ {Hand(e)}
        /\ staged'[e].matched = staged[e].matched
        /\ \A q \in Payments : staged[e].reason[q] # None => staged'[e].reason[q] # None
        /\ status[Hand(e)] # "unmatched" \/ staged'[e].reason[Hand(e)] # None
    BY <1>8, MarkUnmatchedEffect
  <2> QED BY <1>4, <1>5, <2>1 DEF Settled
<1> QED BY <1>6, <1>7, <1>8 DEF Apply

LEMMA CoversNext ==
  ASSUME Base, BookInv, OrderInv, \A f \in Engines : Covers(f), [Next]_vars
  PROVE  \A f \in Engines : Covers(f)'
<1>1. TableStep
  BY TableNext
<1>2. CASE Elsewhere
  BY <1>1, <1>2, ElsewhereEffect, CoversKept DEF engineVars, locks, passVars
<1>3. ASSUME NEW e \in Engines, Does(e) PROVE \A f \in Engines : Covers(f)'
  <2>1. ASSUME NEW f \in Engines \ {e} PROVE Covers(f)'
    <3>1. /\ UNCHANGED <<pc[f], rows[f], staged[f], upper[f]>>
          /\ curLock' = f <=> curLock = f
      BY <1>3, DoesEffect DEF OthersKept
    <3>2. CASE curLock = f
      <4>1. ~(CommitPass(e) /\ cursor' # cursor)
        BY <3>2, CommitPassEffect
      <4>2. cursor' = cursor
        BY <1>3, <4>1, DoesKeeps
      <4> QED BY <1>1, <3>1, <4>2, CoversKept
    <3>3. CASE curLock # f
      BY <3>1, <3>3 DEF Covers
    <3> QED BY <3>2, <3>3
  <2>2. Covers(e)'
    <3>1. CASE LockCursor(e)
      BY <3>1, LockCursorEffect DEF Covers
    <3>2. CASE ReadPayments(e)
      <4>1. CASE Reads(e)
        <5>1. UNCHANGED <<status, reason, cursor>> /\ Recorded' = Recorded
          BY <3>2, ReadPaymentsEffect DEF payVars, Recorded
        <5> QED BY <4>1, <5>1 DEF Reads, Covers, Settled
      <4>2. CASE ~Reads(e)
        BY <3>2, <4>2, ReadPaymentsEffect, ReconcilerAssumption DEF Covers
      <4> QED BY <4>1, <4>2
    <3>3. CASE SelectRecheck(e)
      BY <3>3, SelectRecheckEffect DEF Covers
    <3>4. CASE Apply(e)
      BY <3>4, CoversApply
    <3>5. CASE CommitPass(e) \/ RollBack(e) \/ BeginRun(e)
      BY <3>5, CommitPassEffect, RollBackEffect, BeginRunEffect DEF Ended, Covers
    <3> QED BY <1>3, <3>1, <3>2, <3>3, <3>4, <3>5 DEF Does
  <2> QED BY <2>1, <2>2
<1> QED BY <1>2, <1>3, NextSplit

LEMMA NoneSkippedNext ==
  ASSUME Base, BookInv, SkipInv, [Next]_vars
  PROVE  NoneSkipped'
<1> SUFFICES ASSUME NEW p \in Recorded', p <= cursor' PROVE Settled(p)'
  BY DEF NoneSkipped, Settled
<1>1. TableStep /\ p \in Payments /\ p \in Nat /\ p >= 1 /\ cursor \in Nat
  BY TableNext, ReconcilerAssumption DEF Recorded, Payments, Base, EngineBase
<1>2. CASE p \in Recorded /\ p <= cursor
  BY <1>1, <1>2 DEF SkipInv, NoneSkipped, Settled, TableStep
<1>3. CASE p \notin Recorded
  <2>1. CommitPayment(p)
    BY <1>1, <1>3 DEF TableStep
  <2>2. cursor' = cursor /\ status[p] = "inserting"
    BY <2>1 DEF CommitPayment, engineVars
  <2>3. cursor < p
    BY <1>1, <2>2 DEF SkipInv, OrderInv
  <2> QED BY <1>1, <2>2, <2>3
<1>4. CASE p \in Recorded /\ ~(p <= cursor)
  <2>1. PICK e \in Engines : CommitPass(e) /\ curLock = e /\ cursor' = upper[e]
    BY <1>4, CursorMoves
  <2>2. rows[e] = {} /\ pc[e] = "apply" /\ TakesOver(staged[e])
    BY <2>1, CommitPassEffect
  <2>3. cursor < p /\ p <= upper[e]
    BY <1>1, <1>4, <2>1
  <2>4. Settled(p) \/ p \in staged[e].matched \/ staged[e].reason[p] # None
    BY <1>4, <2>1, <2>2, <2>3 DEF SkipInv, Covers
  <2>5. Settled(p) => Settled(p)'
    BY <1>1, <1>4 DEF TableStep
  <2> QED BY <1>1, <2>2, <2>4, <2>5 DEF TakesOver, Settled
<1> QED BY <1>2, <1>3, <1>4

LEMMA SkipAlways ==
  ASSUME InOrder
  PROVE  Spec => [](Base /\ BookInv /\ SkipInv)
<1>1. Init => Base /\ BookInv /\ SkipInv
  BY BaseInit, BookInvInit, SkipInvInit
<1>2. Base /\ BookInv /\ SkipInv /\ [Next]_vars => (Base /\ BookInv /\ SkipInv)'
  BY BaseNext, BookInvNext, OrderInvNext, CoversNext, NoneSkippedNext DEF SkipInv
<1> QED BY <1>1, <1>2, PTL DEF Spec

(* When inserts commit in the order they began, no payment behind the      *)
(* cursor is undecided, whatever passes fail or run side by side.          *)
THEOREM PaymentsNotSkipped ==
  ASSUME InOrder
  PROVE  Spec => []NoneSkipped
<1>1. SkipInv => NoneSkipped
  BY DEF SkipInv
<1> QED BY <1>1, SkipAlways, PTL

-----------------------------------------------------------------------------
(* A run of --once.                                                        *)

Caught(e) == \A p \in seen[e] : p <= cursor

(* Without work and without an error, the new pass of a tick has seen the  *)
(* end of the payments.                                                    *)
OnceInv ==
  \A e \in Engines :
    /\ seen[e] \subseteq Recorded
    /\ pc[e] = "recheck" /\ ~worked[e] /\ ~erred[e] => Caught(e)
    /\ pc[e] \in AtRow \cup {"apply"} /\ curLock # e /\ ~worked[e] /\ ~erred[e] => Caught(e)
    /\ pc[e] = "done" => Caught(e)

LEMMA OnceInvInit == Init => OnceInv
BY DEF Init, OnceInv, AtRow

LEMMA OnceInvNext ==
  ASSUME Base, BookInv, RowsInv, OnceInv, [Next]_vars
  PROVE  OnceInv'
<1>1. TableStep /\ cursor <= cursor' /\ cursor \in Nat /\ cursor' \in Nat
  BY TableNext, CursorGrows, BaseNext, ReconcilerAssumption DEF Base, EngineBase
<1>2. Recorded \subseteq Recorded' /\ \A p \in Recorded : p \in Nat
  BY <1>1 DEF TableStep, Recorded, Payments
<1>3. ASSUME NEW f \in Engines, seen'[f] = seen[f] PROVE seen'[f] \subseteq Recorded' /\ (Caught(f) => Caught(f)')
  <2>1. seen[f] \subseteq Recorded
    BY DEF OnceInv
  <2> QED BY <1>1, <1>2, <1>3, <2>1 DEF Caught
<1>4. CASE Elsewhere
  BY <1>3, <1>4, ElsewhereEffect DEF OnceInv, engineVars, locks, passVars, tickVars
<1>5. ASSUME NEW e \in Engines, Does(e) PROVE OnceInv'
  <2>1. ASSUME NEW f \in Engines \ {e}
        PROVE  /\ seen'[f] \subseteq Recorded'
               /\ pc'[f] = "recheck" /\ ~worked'[f] /\ ~erred'[f] => Caught(f)'
               /\ pc'[f] \in AtRow \cup {"apply"} /\ curLock' # f /\ ~worked'[f] /\ ~erred'[f]
                    => Caught(f)'
               /\ pc'[f] = "done" => Caught(f)'
    <3>1. /\ UNCHANGED <<pc[f], worked[f], erred[f], seen[f]>>
          /\ curLock' = f <=> curLock = f
      BY <1>5, DoesEffect DEF OthersKept
    <3> QED BY <1>3, <3>1 DEF OnceInv
  <2>2. /\ seen'[e] \subseteq Recorded'
        /\ pc'[e] = "recheck" /\ ~worked'[e] /\ ~erred'[e] => Caught(e)'
        /\ pc'[e] \in AtRow \cup {"apply"} /\ curLock' # e /\ ~worked'[e] /\ ~erred'[e]
             => Caught(e)'
        /\ pc'[e] = "done" => Caught(e)'
    <3>1. CASE LockCursor(e)
      BY <1>3, <3>1, LockCursorEffect DEF AtRow
    <3>2. CASE ReadPayments(e)
      <4>1. /\ UNCHANGED <<cursor, seen>> /\ curLock = e
        BY <3>2, ReadPaymentsEffect
      <4>2. CASE Reads(e)
        BY <1>3, <4>1, <4>2 DEF Reads
      <4>3. CASE pc'[e] = "recheck" /\ \A p \in Recorded : p <= cursor
        BY <1>3, <4>1, <4>3 DEF Caught, OnceInv, AtRow
      <4> QED BY <3>2, <4>2, <4>3, ReadPaymentsEffect
    <3>3. CASE SelectRecheck(e)
      BY <1>3, <3>3, SelectRecheckEffect DEF OnceInv, AtRow
    <3>4. CASE Apply(e)
      BY <1>3, <3>4, ApplyEffect DEF InPass, OnceInv, AtRow
    <3>5. CASE CommitPass(e)
      BY <1>3, <3>5, CommitPassEffect DEF Ended, OnceInv, AtRow, Outside
    <3>6. CASE RollBack(e)
      BY <1>3, <3>6, RollBackEffect DEF Ended, AtRow, Outside
    <3>7. CASE BeginRun(e)
      BY <1>2, <3>7, BeginRunEffect DEF AtRow
    <3> QED BY <1>5, <3>1, <3>2, <3>3, <3>4, <3>5, <3>6, <3>7 DEF Does
  <2> QED BY <2>1, <2>2 DEF OnceInv
<1> QED BY <1>4, <1>5, NextSplit

(* A run of --once that is done has decided every payment it found, when   *)
(* inserts commit in the order they began.                                 *)
THEOREM OnceFinishes ==
  ASSUME InOrder
  PROVE  Spec => []OnceDecides
<1> DEFINE IInv == Base /\ BookInv /\ RowsInv /\ OnceInv
<1>1. Init => IInv
  BY BaseInit, BookInvInit, RowsInvInit, OnceInvInit
<1>2. IInv /\ [Next]_vars => IInv'
  BY BaseNext, BookInvNext, RowsInvNext, OnceInvNext
<1>3. IInv /\ NoneSkipped => OnceDecides
  BY DEF OnceInv, Caught, NoneSkipped, OnceDecides
<1> QED BY <1>1, <1>2, <1>3, PaymentsNotSkipped, PTL DEF Spec
=============================================================================
