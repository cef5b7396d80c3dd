--------------------------- MODULE IngestorProofs ---------------------------
(***************************************************************************)
(* Theorems about Ingestor for every chain, page size, set of runners and  *)
(* number of crashes, with the refinement of EventFeed.                    *)
(***************************************************************************)
EXTENDS Ingestor, TLAPS

(* The events that need no more handling: handled by every sink, or gone.  *)
Settled == Complete \cup Pruned

Covered(S, from) == \A e \in S : Ledger[e] >= from => e \in Settled

(* The page in hand, by the place run is at. *)
Shape(r) ==
  /\ page[r].received => page[r].last \in Events
  /\ page[r].cursor # None => page[r].cursor.pos = page[r].last
  /\ pc[r] \in {"store", "pay"} =>
       page[r].received /\ page[r].next \in Events /\ page[r].next <= page[r].last
  /\ pc[r] = "save" => page[r].next = page[r].last + 1
  /\ pc[r] \in {"store", "pay", "save"} => start[r] = None

(* What run may rely on before it asks for a page: everything the cursor   *)
(* says is behind it, and everything before start_ledger, is settled.      *)
CursorCovered(r) ==
  pc[r] = "fetch" \/ (pc[r] = "save" /\ ~page[r].received)
    => Covered(Passed(cur[r]), cur[r].from)

StartCovered(r) ==
  pc[r] = "fetch" /\ start[r] # None /\ cur[r].last_event_id = None
    => Covered({e \in Events : Ledger[e] < start[r]}, cur[r].from)

TipBlank(r) == pc[r] = "tip" => Blank(cur[r])

SkipPruned(r) == pc[r] = "skip" => page[r].floor <= floor

(* With a page in hand: everything before the next event is settled, the   *)
(* event between its two sinks has its row, and an empty page reached the  *)
(* tip it reports.                                                         *)
PageCovered(r) ==
  pc[r] \in {"store", "pay", "save"} =>
    Covered({e \in Events : e < page[r].next}, cur[r].from)

HalfHandled(r) ==
  pc[r] = "pay" => page[r].next \in Paying /\ rows[page[r].next] > 0

EmptyAtTip(r) ==
  pc[r] = "save" /\ ~page[r].received =>
    \A e \in Events : e > page[r].last => Ledger[e] > page[r].latest_ledger

DoneCovered(r) ==
  pc[r] = "done" =>
    Covered({e \in Events : Ledger[e] <= page[r].latest_ledger}, cur[r].from)

RunnerOK(r) == /\ CursorCovered(r) /\ StartCovered(r) /\ TipBlank(r) /\ SkipPruned(r)
               /\ PageCovered(r) /\ HalfHandled(r) /\ EmptyAtTip(r) /\ DoneCovered(r)

TypeInv == TypeOK /\ \A r \in Runners : Shape(r)

IInv == /\ TypeInv
        /\ NothingLost
        /\ \A r \in Runners : RunnerOK(r)

-----------------------------------------------------------------------------
(* Types.                                                                  *)

LEMMA PageCursorType ==
  ASSUME NEW lo \in 1 .. NumEvents + 1, NEW hi \in 0 .. NumEvents,
         tip \in Nat
  PROVE  PageCursor(lo, hi) \in Token /\ PageCursor(lo, hi).pos = hi
BY IngestorAssumption DEF PageCursor, Token, Full, Events

LEMMA NextEventIdType ==
  ASSUME TypeOK, NEW r \in Runners, Shape(r)
  PROVE  NextEventId(r) \in Token \cup {None}
BY IngestorAssumption DEF NextEventId, TypeOK, Shape, Page, Cursor, Token, Events

(* Resetting a runner's memory keeps the types. *)
LEMMA FreshType ==
  ASSUME TypeInv, NEW r \in Runners, Fresh(r), restarts' \in Nat
  PROVE  TypeInv'
<1> USE IngestorAssumption DEF TypeInv, TypeOK, Fresh, chain, tables
<1>1. DefaultCursor \in Cursor /\ NoPage \in Page
  BY DEF DefaultCursor, Cursor, NoPage, Page
<1>2. TypeOK'
  BY <1>1
<1>3. ASSUME NEW q \in Runners PROVE Shape(q)'
  BY <1>1 DEF Shape, NoPage
<1> QED BY <1>2, <1>3

LEMMA TypeStep ==
  ASSUME TypeInv, [Next]_vars
  PROVE  TypeInv'
<1> USE IngestorAssumption
<1>1. CASE CloseLedger
  BY <1>1 DEF CloseLedger, TypeInv, TypeOK, Shape, tables
<1>2. CASE Prune
  BY <1>2 DEF Prune, TypeInv, TypeOK, Shape, tables
<1>3. ASSUME NEW r \in Runners, NEW c \in Cursor, NEW l \in Nat \cup {None}, BeginAt(r, c, l)
      PROVE  TypeInv'
  <2>1. TypeOK'
    BY <1>3 DEF BeginAt, TypeInv, TypeOK, chain, tables, Cursor
  <2>2. ASSUME NEW q \in Runners PROVE Shape(q)'
    BY <1>3 DEF BeginAt, TypeInv, TypeOK, Shape
  <2> QED BY <2>1, <2>2 DEF TypeInv
<1>4. ASSUME NEW r \in Runners, RestoreCursor(r) PROVE TypeInv'
  <2>1. saved \in Cursor /\ (StartLedger # None => [saved EXCEPT !.from = StartLedger] \in Cursor)
    BY DEF TypeInv, TypeOK, Cursor
  <2>2. saved.last_ledger \in Nat
    BY <2>1 DEF Cursor
  <2>3. CASE cur' = [cur EXCEPT ![r] = saved] /\ pc' = [pc EXCEPT ![r] = "tip"]
             /\ UNCHANGED <<chain, tables, start, page, restarts>>
    BY <2>3 DEF TypeInv, TypeOK, Shape, chain, tables
  <2> QED BY <1>3, <1>4, <2>1, <2>2, <2>3 DEF RestoreCursor
<1>5. ASSUME NEW r \in Runners, LatestLedger(r) PROVE TypeInv'
  <2>1. [cur[r] EXCEPT !.from = tip] \in Cursor /\ tip \in Nat
    BY DEF TypeInv, TypeOK, Cursor
  <2> QED BY <1>3, <1>5, <2>1 DEF LatestLedger, Sequence
<1>6. ASSUME NEW r \in Runners, FetchPage(r) PROVE TypeInv'
  <2>1. PICK lo \in 1 .. NumEvents + 1, hi \in 0 .. NumEvents, carries \in PageCursors :
          /\ FirstAsked(r, lo)
          /\ Serves(lo, hi)
          /\ page' = [page EXCEPT ![r] =
                       [next |-> lo, last |-> hi, received |-> lo <= hi,
                        cursor |-> IF carries THEN PageCursor(lo, hi) ELSE None,
                        latest_ledger |-> tip, floor |-> 0]]
          /\ pc' = [pc EXCEPT ![r] = IF lo <= hi THEN "store" ELSE "save"]
    BY <1>6 DEF FetchPage
  <2>2. /\ tip \in Nat
        /\ PageCursor(lo, hi) \in Token /\ PageCursor(lo, hi).pos = hi
    BY PageCursorType DEF TypeInv, TypeOK
  <2>3. page'[r] \in Page /\ page' \in [Runners -> Page]
    BY <2>1, <2>2 DEF TypeInv, TypeOK, Page
  <2>4. TypeOK'
    BY <1>6, <2>1, <2>3 DEF FetchPage, TypeInv, TypeOK, chain, tables
  <2>5. (lo <= hi => lo \in Events /\ hi \in Events) /\ (~(lo <= hi) => lo = hi + 1)
    BY <2>1 DEF Events, Serves
  <2>6. Shape(r)'
    <3>1. /\ page'[r].next = lo /\ page'[r].last = hi /\ page'[r].received = (lo <= hi)
          /\ page'[r].cursor = IF carries THEN PageCursor(lo, hi) ELSE None
      BY <2>1 DEF TypeInv, TypeOK
    <3>2. pc'[r] = (IF lo <= hi THEN "store" ELSE "save") /\ start'[r] = None
      BY <1>6, <2>1 DEF FetchPage, TypeInv, TypeOK
    <3> QED BY <2>2, <2>5, <3>1, <3>2 DEF Shape
  <2>7. ASSUME NEW q \in Runners, q # r PROVE Shape(q)'
    <3>1. page'[q] = page[q] /\ pc'[q] = pc[q] /\ start'[q] = start[q]
      BY <1>6, <2>1, <2>7 DEF FetchPage, TypeInv, TypeOK
    <3>2. Shape(q)
      BY DEF TypeInv
    <3> QED BY <3>1, <3>2 DEF Shape
  <2> QED BY <2>4, <2>6, <2>7 DEF TypeInv
<1>7. ASSUME NEW r \in Runners, FetchRejected(r) PROVE TypeInv'
  <2>1. TypeOK'
    <3>1. page[r] \in Page /\ floor \in Nat
      BY DEF TypeInv, TypeOK
    <3>2. [page[r] EXCEPT !.floor = floor] \in Page
      BY <3>1 DEF Page
    <3>3. page' \in [Runners -> Page]
      BY <1>7, <3>2 DEF FetchRejected, RetentionFloor, TypeInv, TypeOK
    <3> QED BY <1>7, <3>3 DEF FetchRejected, TypeInv, TypeOK, chain, tables
  <2>2. ASSUME NEW q \in Runners PROVE Shape(q)'
    <3>1. /\ page'[q].received = page[q].received /\ page'[q].cursor = page[q].cursor
          /\ page'[q].next = page[q].next /\ page'[q].last = page[q].last
      BY <1>7 DEF FetchRejected, TypeInv, TypeOK, Page
    <3>2. pc'[q] \in {pc[q], "skip"} /\ start'[q] = start[q]
      BY <1>7 DEF FetchRejected, TypeInv, TypeOK
    <3>3. Shape(q)
      BY DEF TypeInv
    <3> QED BY <3>1, <3>2, <3>3 DEF Shape
  <2> QED BY <2>1, <2>2 DEF TypeInv
<1>8. ASSUME NEW r \in Runners, FetchFailed(r) PROVE TypeInv'
  BY <1>8, FreshType DEF FetchFailed, TypeInv, TypeOK
<1>9. ASSUME NEW r \in Runners, SaveSkip(r) PROVE TypeInv'
  <2>1. TypeOK'
    <3>1. cur[r] \in Cursor /\ page[r] \in Page
      BY DEF TypeInv, TypeOK
    <3>2. page[r].floor \in Nat
      BY <3>1 DEF Page
    <3>3. Skipped(cur[r], page[r].floor) \in Cursor
      BY <3>1, <3>2 DEF Skipped, Cursor
    <3>4. cur' \in [Runners -> Cursor] /\ saved' \in Cursor
      BY <1>9, <3>3 DEF SaveSkip, TypeInv, TypeOK
    <3> QED BY <1>9, <3>2, <3>4 DEF SaveSkip, TypeInv, TypeOK, chain
  <2>2. ASSUME NEW q \in Runners PROVE Shape(q)'
    BY <1>9 DEF SaveSkip, TypeInv, TypeOK, Shape
  <2> QED BY <2>1, <2>2 DEF TypeInv
<1>10. ASSUME NEW r \in Runners, page[r].next \in Events, page[r].next <= page[r].last,
              page[r].received, Handled(r), start' = start, start[r] = None
       PROVE  /\ page' \in [Runners -> Page]
              /\ pc' \in [Runners -> {"start", "tip", "fetch", "skip", "store", "pay", "save",
                                      "done"}]
              /\ \A q \in Runners : Shape(q)'
  <2>1. page' \in [Runners -> Page]
    <3>1. page[r] \in Page
      BY DEF TypeInv, TypeOK
    <3>2. page[r].next + 1 \in 1 .. NumEvents + 1
      BY <1>10 DEF Events
    <3>3. [page[r] EXCEPT !.next = page[r].next + 1] \in Page
      BY <3>1, <3>2 DEF Page
    <3> QED BY <1>10, <3>3 DEF Handled, TypeInv, TypeOK
  <2>2. pc' \in [Runners -> {"start", "tip", "fetch", "skip", "store", "pay", "save", "done"}]
    BY <1>10 DEF Handled, TypeInv, TypeOK
  <2>3. Shape(r)'
    <3>1. /\ page[r] \in Page /\ page'[r] = [page[r] EXCEPT !.next = page[r].next + 1]
          /\ pc'[r] = IF page[r].next = page[r].last THEN "save" ELSE "store"
      BY <1>10 DEF Handled, TypeInv, TypeOK
    <3>2. /\ page'[r].next = page[r].next + 1 /\ page'[r].last = page[r].last
          /\ page'[r].cursor = page[r].cursor /\ page'[r].received
          /\ start'[r] = None
      BY <1>10, <3>1 DEF Page
    <3>3. page[r].last \in 0 .. NumEvents /\ page[r].next \in 1 .. NumEvents
      BY <1>10, <3>1 DEF Page, Events
    <3>4. page[r].last \in Events /\ (page[r].cursor # None => page[r].cursor.pos = page[r].last)
      BY <1>10 DEF TypeInv, Shape
    <3>5. pc'[r] = "save" => page'[r].next = page'[r].last + 1
      BY <3>1, <3>2
    <3>6. pc'[r] = "store" => page'[r].next \in Events /\ page'[r].next <= page'[r].last
      <4>1. page[r].next # page[r].last =>
              page[r].next + 1 \in 1 .. NumEvents /\ page[r].next + 1 <= page[r].last
        BY <1>10, <3>3
      <4> QED BY <3>1, <3>2, <4>1 DEF Events
    <3> QED BY <3>1, <3>2, <3>4, <3>5, <3>6 DEF Shape
  <2>4. ASSUME NEW q \in Runners, q # r PROVE Shape(q)'
    BY <1>10, <2>4 DEF Handled, TypeInv, TypeOK, Shape
  <2> QED BY <2>1, <2>2, <2>3, <2>4
<1>11. ASSUME NEW r \in Runners, StoreEvent(r) PROVE TypeInv'
  <2> DEFINE e == page[r].next
  <2>1. e \in Events /\ e <= page[r].last /\ page[r].received /\ start[r] = None
    BY <1>11 DEF StoreEvent, TypeInv, Shape
  <2>2. cur' \in [Runners -> Cursor] /\ rows' \in [Events -> Nat]
    <3>1. cur \in [Runners -> Cursor] /\ rows \in [Events -> Nat]
      BY DEF TypeInv, TypeOK
    <3>2. /\ cur' = [cur EXCEPT ![r] = [cur[r] EXCEPT !.last_ledger = Ledger[e]]]
          /\ rows' = [rows EXCEPT ![e] = rows[e] + 1]
      BY <1>11 DEF StoreEvent
    <3>3. Ledger[e] \in Nat
      BY <2>1
    <3>4. [cur[r] EXCEPT !.last_ledger = Ledger[e]] \in Cursor
      BY <3>1, <3>3 DEF Cursor
    <3>5. rows[e] + 1 \in Nat
      BY <2>1, <3>1
    <3> QED BY <3>1, <3>2, <3>4, <3>5
  <2>3. CASE e \in Paying
    BY <1>11, <2>1, <2>2, <2>3 DEF StoreEvent, TypeInv, TypeOK, Shape, chain
  <2>4. CASE e \notin Paying
    BY <1>10, <1>11, <2>1, <2>2, <2>4 DEF StoreEvent, TypeInv, TypeOK, chain
  <2> QED BY <2>3, <2>4
<1>12. ASSUME NEW r \in Runners, RecordPayment(r) PROVE TypeInv'
  <2>1. page[r].next \in Events /\ page[r].next <= page[r].last /\ page[r].received
        /\ start[r] = None
    BY <1>12 DEF RecordPayment, Insert, TypeInv, Shape
  <2>2. payments' \in [Events -> Nat]
    BY <1>12, <2>1 DEF RecordPayment, Insert, TypeInv, TypeOK
  <2> QED BY <1>10, <1>12, <2>1, <2>2 DEF RecordPayment, Insert, TypeInv, TypeOK, chain
<1>13. ASSUME NEW r \in Runners, SaveCursor(r) PROVE TypeInv'
  <2>1. NextEventId(r) \in Token \cup {None}
    BY NextEventIdType DEF TypeInv
  <2>2. TypeOK'
    BY <1>13, <2>1 DEF SaveCursor, AfterPage, TypeInv, TypeOK, chain, Cursor
  <2>3. ASSUME NEW q \in Runners PROVE Shape(q)'
    BY <1>13 DEF SaveCursor, AfterPage, TypeInv, TypeOK, Shape
  <2> QED BY <2>2, <2>3 DEF TypeInv
<1>14. ASSUME NEW r \in Runners, RunAgain(r) PROVE TypeInv'
  BY <1>14, FreshType DEF RunAgain, TypeInv, TypeOK
<1>15. ASSUME NEW r \in Runners, Stop(r) PROVE TypeInv'
  BY <1>15, FreshType DEF Stop, TypeInv, TypeOK
<1>16. CASE UNCHANGED vars
  BY <1>16 DEF vars, TypeInv, TypeOK, Shape
<1> QED
  BY <1>1, <1>2, <1>4, <1>5, <1>6, <1>7, <1>8, <1>9, <1>11, <1>12, <1>13, <1>14, <1>15, <1>16
  DEF Next, Step

-----------------------------------------------------------------------------
(* The invariant.                                                          *)

(* No step takes a row back or lowers the floor, so what is settled stays  *)
(* settled.                                                                *)
Grows == /\ floor <= floor'
         /\ \A e \in Events : rows[e] <= rows'[e] /\ payments[e] <= payments'[e]

LEMMA StepGrows ==
  ASSUME TypeInv, [Next]_vars
  PROVE  Grows
<1> USE IngestorAssumption DEF TypeInv, TypeOK, Grows
<1>1. ASSUME UNCHANGED <<floor, rows, payments>> PROVE Grows
  BY <1>1
<1>2. CASE CloseLedger
  BY <1>1, <1>2 DEF CloseLedger, tables
<1>3. CASE Prune
  BY <1>3 DEF Prune, tables
<1>4. ASSUME NEW r \in Runners, StoreEvent(r) PROVE Grows
  BY <1>4 DEF StoreEvent, chain
<1>5. ASSUME NEW r \in Runners, RecordPayment(r) PROVE Grows
  BY <1>5 DEF RecordPayment, Insert, chain
<1>6. ASSUME NEW r \in Runners,
             \/ RestoreCursor(r) \/ LatestLedger(r) \/ FetchPage(r) \/ FetchRejected(r)
             \/ FetchFailed(r) \/ SaveSkip(r) \/ SaveCursor(r) \/ RunAgain(r) \/ Stop(r)
      PROVE  Grows
  <2>1. UNCHANGED <<floor, rows, payments>>
    BY <1>6 DEF RestoreCursor, LatestLedger, Sequence, BeginAt, FetchPage, FetchRejected,
                 RetentionFloor, FetchFailed,
                SaveSkip, SaveCursor, RunAgain, Stop, Fresh, chain, tables
  <2> QED BY <1>1, <2>1
<1>7. CASE UNCHANGED vars
  BY <1>1, <1>7 DEF vars
<1> QED BY <1>2, <1>3, <1>4, <1>5, <1>6, <1>7 DEF Next, Step

LEMMA SettledStays ==
  ASSUME TypeInv, TypeInv', Grows
  PROVE  Settled \subseteq Settled'
BY IngestorAssumption DEF TypeInv, TypeOK, Grows, Settled, Complete, Pruned

(* A step that leaves a runner alone leaves its invariant alone.           *)
LEMMA Untouched ==
  ASSUME TypeInv, TypeInv', Grows, NEW q \in Runners, RunnerOK(q),
         pc'[q] = pc[q], cur'[q] = cur[q], start'[q] = start[q], page'[q] = page[q]
  PROVE  RunnerOK(q)'
<1>1. Settled \subseteq Settled'
  BY SettledStays
<1>2. CursorCovered(q)' /\ StartCovered(q)' /\ PageCovered(q)' /\ DoneCovered(q)'
  BY <1>1 DEF RunnerOK, CursorCovered, StartCovered, PageCovered, DoneCovered, Covered, Passed
<1>3. EmptyAtTip(q)' /\ TipBlank(q)'
  BY DEF RunnerOK, EmptyAtTip, TipBlank, Blank
<1>4. SkipPruned(q)'
  BY DEF RunnerOK, SkipPruned, Grows, TypeInv, TypeOK, Page
<1>5. HalfHandled(q)'
  BY IngestorAssumption DEF RunnerOK, HalfHandled, Grows, TypeInv, TypeOK
<1> QED BY <1>2, <1>3, <1>4, <1>5 DEF RunnerOK

(* A runner's step leaves the other runners alone. *)
LEMMA OthersUntouched ==
  ASSUME TypeInv, NEW r \in Runners, Step(r) \/ Stop(r), NEW q \in Runners, q # r
  PROVE  pc'[q] = pc[q] /\ cur'[q] = cur[q] /\ start'[q] = start[q] /\ page'[q] = page[q]
BY DEF TypeInv, TypeOK, Step, Stop, RestoreCursor, LatestLedger, Sequence, BeginAt,
       FetchPage, FetchRejected, RetentionFloor, FetchFailed, SaveSkip, StoreEvent,
       RecordPayment, Insert, Handled, SaveCursor, RunAgain, Fresh,
       chain, tables

(* NothingLost and RunnerOK say the same of the saved cursor and of a      *)
(* runner's own.                                                           *)
LEMMA NothingLostCovered == NothingLost <=> Covered(Passed(saved), saved.from)
BY DEF NothingLost, Covered, Settled

LEMMA SavedUntouched ==
  ASSUME TypeInv, TypeInv', Grows, NothingLost, saved' = saved
  PROVE  NothingLost'
BY SettledStays DEF NothingLost, Passed, Settled

LEMMA RunnerStep ==
  ASSUME IInv, TypeInv', Grows, NEW r \in Runners, Step(r) \/ Stop(r)
  PROVE  RunnerOK(r)' /\ NothingLost'
<1> USE IngestorAssumption
<1> DEFINE Ok == RunnerOK(r)' /\ NothingLost'
<1>1. TypeInv /\ RunnerOK(r) /\ NothingLost /\ Settled \subseteq Settled'
  BY SettledStays DEF IInv
<1>2. saved' = saved => NothingLost'
  BY <1>1, SavedUntouched
<1>3. ASSUME Fresh(r) PROVE Ok
  <2>1. saved' = saved /\ pc'[r] = "start"
    BY <1>1, <1>3 DEF Fresh, TypeInv, TypeOK, tables
  <2> QED
    BY <1>2, <2>1
    DEF RunnerOK, CursorCovered, StartCovered, TipBlank, SkipPruned, PageCovered,
                            HalfHandled, EmptyAtTip, DoneCovered
<1>4. ASSUME NEW c \in Cursor, NEW l \in Nat \cup {None}, BeginAt(r, c, l),
             Covered(Passed(c), c.from),
             l # None /\ c.last_event_id = None =>
               Covered({e \in Events : Ledger[e] < l}, c.from)
      PROVE  Ok
  <2>1. saved' = saved /\ pc'[r] = "fetch" /\ cur'[r] = c /\ start'[r] = l
    BY <1>1, <1>4 DEF BeginAt, TypeInv, TypeOK, tables
  <2>2. CursorCovered(r)'
    BY <1>1, <1>4, <2>1 DEF CursorCovered, Covered, Passed
  <2>3. StartCovered(r)'
    BY <1>1, <1>4, <2>1 DEF StartCovered, Covered
  <2> QED BY <1>2, <2>1, <2>2, <2>3 DEF RunnerOK, TipBlank, SkipPruned, PageCovered, HalfHandled,
                                        EmptyAtTip, DoneCovered
<1>5. CASE RestoreCursor(r)
  <2>1. saved \in Cursor /\ saved.last_ledger \in Nat /\ Covered(Passed(saved), saved.from)
    BY <1>1, NothingLostCovered DEF TypeInv, TypeOK, Cursor
  <2>2. CASE saved.last_event_id # None /\ BeginAt(r, saved, None)
    BY <1>4, <2>1, <2>2
  <2>3. CASE saved.last_event_id = None /\ BeginAt(r, saved, saved.last_ledger)
    BY <1>4, <2>1, <2>3 DEF Covered, Passed
  <2>4. CASE /\ Blank(saved) /\ StartLedger # None
             /\ BeginAt(r, [saved EXCEPT !.from = StartLedger], StartLedger)
    <3> DEFINE c == [saved EXCEPT !.from = StartLedger]
    <3>1. c \in Cursor /\ c.last_event_id = None /\ c.last_ledger = 0 /\ c.from = StartLedger
          /\ StartLedger \in Nat
      BY <2>1, <2>4 DEF Cursor, Blank
    <3>2. Covered(Passed(c), c.from)
      BY <3>1 DEF Covered, Passed
    <3>3. Covered({e \in Events : Ledger[e] < StartLedger}, c.from)
      BY <3>1 DEF Covered
    <3> QED BY <1>4, <2>4, <3>1, <3>2, <3>3
  <2>5. CASE Blank(saved) /\ cur' = [cur EXCEPT ![r] = saved] /\ pc' = [pc EXCEPT ![r] = "tip"]
             /\ UNCHANGED <<chain, tables, start, page, restarts>>
    <3>1. saved' = saved /\ pc'[r] = "tip" /\ cur'[r] = saved
      BY <1>1, <2>5 DEF TypeInv, TypeOK, tables
    <3>2. TipBlank(r)'
      BY <2>5, <3>1 DEF TipBlank, Blank
    <3> QED BY <1>2, <3>1, <3>2 DEF RunnerOK, CursorCovered, StartCovered, SkipPruned, PageCovered,
                              HalfHandled, EmptyAtTip, DoneCovered
  <2> QED BY <1>5, <2>2, <2>3, <2>4, <2>5 DEF RestoreCursor
<1>6. CASE LatestLedger(r)
  <2> DEFINE c == [cur[r] EXCEPT !.from = tip]
  <2>1. c \in Cursor /\ tip \in Nat /\ c.from = tip
    BY <1>1 DEF TypeInv, TypeOK, Cursor
  <2>2. BeginAt(r, c, tip)
    BY <1>6 DEF LatestLedger, Sequence
  <2>3. Covered({e \in Events : Ledger[e] < tip}, c.from)
    BY <2>1 DEF Covered
  <2>4. c.last_event_id = None /\ c.last_ledger = 0
    BY <1>1, <1>6 DEF LatestLedger, Sequence, RunnerOK, TipBlank, Blank, TypeInv, TypeOK, Cursor
  <2>5. Covered(Passed(c), c.from)
    BY <2>4 DEF Covered, Passed
  <2> QED BY <1>4, <2>1, <2>2, <2>3, <2>5
<1>7. CASE FetchPage(r)
  <2>1. PICK lo \in 1 .. NumEvents + 1, hi \in 0 .. NumEvents, carries \in PageCursors :
          /\ FirstAsked(r, lo)
          /\ Serves(lo, hi)
          /\ page' = [page EXCEPT ![r] =
                       [next |-> lo, last |-> hi, received |-> lo <= hi,
                        cursor |-> IF carries THEN PageCursor(lo, hi) ELSE None,
                        latest_ledger |-> tip, floor |-> 0]]
          /\ pc' = [pc EXCEPT ![r] = IF lo <= hi THEN "store" ELSE "save"]
    BY <1>7 DEF FetchPage
  <2>2. /\ pc[r] = "fetch" /\ Asks(r)
        /\ pc'[r] = (IF lo <= hi THEN "store" ELSE "save")
        /\ cur'[r] = cur[r] /\ saved' = saved
        /\ page'[r].next = lo /\ page'[r].last = hi /\ page'[r].received = (lo <= hi)
        /\ page'[r].latest_ledger = tip
    BY <1>1, <1>7, <2>1 DEF FetchPage, TypeInv, TypeOK, tables
  <2>3. Covered({e \in Events : e < lo}, cur[r].from)
    <3>1. CASE cur[r].last_event_id # None
      <4>1. cur[r].last_event_id.pos \in Nat /\ lo = cur[r].last_event_id.pos + 1
        BY <1>1, <2>1, <3>1 DEF FirstAsked, TypeInv, TypeOK, Cursor, Token
      <4>2. {e \in Events : e < lo} \subseteq Passed(cur[r])
        BY <3>1, <4>1 DEF Passed, Events
      <4> QED BY <1>1, <2>2, <4>2 DEF RunnerOK, CursorCovered, Covered
    <3>2. CASE cur[r].last_event_id = None
      <4>1. \A e \in Events : e < lo <=> Ledger[e] < start[r]
        BY <2>1, <3>2 DEF FirstAsked
      <4> QED BY <1>1, <2>2, <3>2, <4>1 DEF RunnerOK, StartCovered, Covered, Asks
    <3> QED BY <3>1, <3>2
  <2>4. PageCovered(r)'
    BY <1>1, <2>2, <2>3 DEF PageCovered, Covered
  <2>5. CursorCovered(r)'
    BY <1>1, <2>2 DEF CursorCovered, Covered, Passed, RunnerOK
  <2>6. EmptyAtTip(r)'
    <3>1. ~(lo <= hi) => \A e \in Events : e > hi => Ledger[e] > tip
      BY <2>1 DEF Serves, Full
    <3> QED BY <2>2, <3>1 DEF EmptyAtTip
  <2> QED BY <1>2, <2>2, <2>4, <2>5, <2>6 DEF RunnerOK, StartCovered, TipBlank, SkipPruned,
                                              HalfHandled, DoneCovered
<1>8. CASE FetchRejected(r)
  <2>1. pc'[r] = "skip" /\ page'[r].floor = floor /\ saved' = saved /\ floor' = floor
    BY <1>1, <1>8 DEF FetchRejected, RetentionFloor, TypeInv, TypeOK, Page, chain, tables
  <2>2. SkipPruned(r)'
    BY <1>1, <2>1 DEF SkipPruned, TypeInv, TypeOK
  <2> QED BY <1>2, <2>1, <2>2 DEF RunnerOK, CursorCovered, StartCovered, TipBlank, PageCovered,
                                  HalfHandled, EmptyAtTip, DoneCovered
<1>9. CASE FetchFailed(r)
  BY <1>3, <1>9 DEF FetchFailed
<1>10. CASE SaveSkip(r)
  <2> DEFINE l == page[r].floor
  <2>1. pc[r] = "skip" /\ l \in Nat /\ l <= floor /\ floor' = floor /\ floor \in Nat
    BY <1>1, <1>10 DEF SaveSkip, RunnerOK, SkipPruned, TypeInv, TypeOK, Page, chain
  <2>2. /\ pc'[r] = "fetch" /\ start'[r] = l /\ saved' = cur'[r]
        /\ cur'[r].last_ledger = l /\ cur'[r].last_event_id = None
    BY <1>1, <1>10 DEF SaveSkip, Skipped, TypeInv, TypeOK, Cursor
  <2>3. \A e \in Events : Ledger[e] < l => e \in Settled'
    BY <2>1 DEF Settled, Pruned
  <2>4. CursorCovered(r)' /\ StartCovered(r)'
    BY <2>2, <2>3 DEF CursorCovered, StartCovered, Covered, Passed
  <2>5. NothingLost'
    BY <2>2, <2>3 DEF NothingLost, Passed, Settled
  <2> QED BY <2>2, <2>4, <2>5 DEF RunnerOK, TipBlank, SkipPruned, PageCovered, HalfHandled,
                                  EmptyAtTip, DoneCovered
<1>11. ASSUME page[r].next \in Settled', page[r].next \in Events, Handled(r), saved' = saved,
              pc[r] \in {"store", "pay"}, cur'[r].from = cur[r].from
       PROVE  Ok
  <2>1. /\ page'[r].next = page[r].next + 1 /\ page'[r].received = page[r].received
        /\ pc'[r] \in {"store", "save"} /\ page[r].received
    BY <1>1, <1>11 DEF Handled, TypeInv, TypeOK, Page, Shape
  <2>2. PageCovered(r)'
    <3>1. Covered({e \in Events : e < page[r].next}, cur[r].from)
      BY <1>1, <1>11 DEF RunnerOK, PageCovered
    <3>2. \A e \in Events : e < page[r].next + 1 => e < page[r].next \/ e = page[r].next
      BY <1>11 DEF Events
    <3> QED BY <1>1, <1>11, <2>1, <3>1, <3>2 DEF PageCovered, Covered
  <2> QED BY <1>2, <1>11, <2>1, <2>2 DEF RunnerOK, CursorCovered, StartCovered, TipBlank,
                                         SkipPruned, HalfHandled, EmptyAtTip, DoneCovered
<1>12. CASE StoreEvent(r)
  <2> DEFINE e == page[r].next
  <2>1. pc[r] = "store" /\ e \in Events /\ saved' = saved /\ floor' = floor
    BY <1>1, <1>12 DEF StoreEvent, TypeInv, Shape, chain
  <2>2. rows'[e] > 0 /\ cur'[r].from = cur[r].from
    BY <1>1, <1>12, <2>1 DEF StoreEvent, TypeInv, TypeOK, Cursor
  <2>3. CASE e \in Paying
    <3>1. page'[r] = page[r] /\ pc'[r] = "pay"
      BY <1>1, <1>12, <2>3 DEF StoreEvent, TypeInv, TypeOK
    <3>2. PageCovered(r)'
      BY <1>1, <2>1, <2>2, <3>1 DEF RunnerOK, PageCovered, Covered
    <3>3. HalfHandled(r)'
      BY <2>2, <2>3, <3>1 DEF HalfHandled
    <3> QED BY <1>2, <2>1, <3>1, <3>2, <3>3 DEF RunnerOK, CursorCovered, StartCovered, TipBlank,
                                                SkipPruned, EmptyAtTip, DoneCovered
  <2>4. CASE e \notin Paying
    <3>1. e \in Settled'
      BY <2>1, <2>2, <2>4 DEF Settled, Complete
    <3>2. Handled(r)
      BY <1>12, <2>4 DEF StoreEvent
    <3> QED BY <1>11, <2>1, <2>2, <3>1, <3>2
  <2> QED BY <2>3, <2>4
<1>13. CASE RecordPayment(r)
  <2> DEFINE e == page[r].next
  <2>1. pc[r] = "pay" /\ e \in Events /\ rows[e] > 0 /\ rows' = rows /\ saved' = saved
        /\ cur' = cur /\ Handled(r)
    BY <1>1, <1>13 DEF RecordPayment, Insert, RunnerOK, HalfHandled, TypeInv, Shape
  <2>2. payments'[e] > 0
    BY <1>1, <1>13, <2>1 DEF RecordPayment, Insert, TypeInv, TypeOK
  <2>3. e \in Settled'
    BY <2>1, <2>2 DEF Settled, Complete
  <2> QED BY <1>11, <2>1, <2>3
<1>14. CASE SaveCursor(r)
  <2> DEFINE id == NextEventId(r)
  <2>1. /\ pc[r] = "save" /\ saved' = cur'[r] /\ start' = start /\ page' = page
        /\ cur'[r].last_event_id = id /\ cur'[r].last_ledger = cur[r].last_ledger
        /\ cur'[r].from = cur[r].from /\ start[r] \in Nat \cup {None}
        /\ pc'[r] = (IF r \in OnceRunners /\ ~page[r].received THEN "done" ELSE "fetch")
    BY <1>1, <1>14 DEF SaveCursor, AfterPage, TypeInv, TypeOK, Cursor
  <2>2. /\ page[r].next = page[r].last + 1
        /\ Covered({e \in Events : e < page[r].next}, cur[r].from)
        /\ page[r].last \in Nat
    BY <1>1, <2>1 DEF TypeInv, TypeOK, Page, Shape, RunnerOK, PageCovered
  <2>3. Covered(Passed(cur'[r]), cur[r].from)
    <3>1. CASE page[r].cursor # None \/ page[r].received
      <4>1. id # None /\ id.pos = page[r].last
        <5>1. page[r].cursor \in Token \cup {None} /\ Shape(r)
          BY <1>1 DEF TypeInv, TypeOK, Page
        <5>2. CASE page[r].cursor # None
          BY <5>1, <5>2 DEF NextEventId, Shape
        <5>3. CASE page[r].cursor = None /\ page[r].received
          <6>1. page[r].last \in Events /\ Ledger[page[r].last] \in Nat
            BY <5>1, <5>3 DEF Shape
          <6>2. id = [pos |-> page[r].last, ledger |-> Ledger[page[r].last]]
            BY <5>3 DEF NextEventId
          <6> QED BY <6>1, <6>2 DEF Token, Events
        <5> QED BY <3>1, <5>2, <5>3
      <4>2. Passed(cur'[r]) \subseteq {e \in Events : e < page[r].next}
        BY <2>1, <2>2, <4>1 DEF Passed, Events
      <4> QED BY <2>2, <4>2 DEF Covered
    <3>2. CASE page[r].cursor = None /\ ~page[r].received
      <4>1. id = cur[r].last_event_id
        BY <3>2 DEF NextEventId
      <4>2. Passed(cur'[r]) = Passed(cur[r])
        BY <2>1, <4>1 DEF Passed
      <4> QED BY <1>1, <2>1, <3>2, <4>2 DEF RunnerOK, CursorCovered
    <3> QED BY <3>1, <3>2
  <2>4. CursorCovered(r)'
    BY <1>1, <2>1, <2>3 DEF CursorCovered, Covered, Passed
  <2>5. NothingLost'
    BY <1>1, <2>1, <2>3 DEF NothingLost, Covered, Passed, Settled
  <2>6. DoneCovered(r)'
    <3> SUFFICES ASSUME ~page[r].received
                 PROVE  Covered({e \in Events : Ledger[e] <= page[r].latest_ledger}, cur[r].from)'
      BY <2>1 DEF DoneCovered
    <3>1. \A e \in Events : e > page[r].last => Ledger[e] > page[r].latest_ledger
      BY <1>1, <2>1 DEF RunnerOK, EmptyAtTip
    <3>2. page[r].latest_ledger \in Nat
      BY <1>1 DEF TypeInv, TypeOK, Page
    <3>3. \A e \in Events : Ledger[e] <= page[r].latest_ledger => e < page[r].next
      BY <2>2, <3>1, <3>2 DEF Events
    <3> QED BY <1>1, <2>1, <2>2, <3>3 DEF Covered
  <2>7. StartCovered(r)'
    BY <1>1, <2>1 DEF StartCovered, TypeInv, Shape
  <2> QED BY <2>1, <2>4, <2>5, <2>6, <2>7 DEF RunnerOK, TipBlank, SkipPruned, PageCovered,
                                              HalfHandled, EmptyAtTip
<1>15. CASE RunAgain(r)
  BY <1>3, <1>15 DEF RunAgain
<1>16. CASE Stop(r)
  BY <1>3, <1>16 DEF Stop
<1> QED BY <1>5, <1>6, <1>7, <1>8, <1>9, <1>10, <1>12, <1>13, <1>14, <1>15, <1>16 DEF Step

-----------------------------------------------------------------------------
(* The theorems.                                                           *)

LEMMA InitInv ==
  ASSUME Init
  PROVE  IInv
<1> USE IngestorAssumption DEF Init
<1>1. DefaultCursor \in Cursor /\ NoPage \in Page
  BY DEF DefaultCursor, Cursor, NoPage, Page
<1>2. TypeOK
  BY <1>1 DEF TypeOK
<1>3. \A r \in Runners : Shape(r)
  BY DEF Shape, NoPage
<1>4. \A r \in Runners : RunnerOK(r)
  BY DEF RunnerOK, CursorCovered, StartCovered, TipBlank, SkipPruned, PageCovered, HalfHandled,
         EmptyAtTip, DoneCovered
<1>5. NothingLost
  BY DEF NothingLost, Passed, DefaultCursor
<1> QED BY <1>2, <1>3, <1>4, <1>5 DEF IInv, TypeInv

LEMMA InvStep ==
  ASSUME IInv, [Next]_vars
  PROVE  IInv'
<1>1. TypeInv /\ TypeInv' /\ Grows
  BY TypeStep, StepGrows DEF IInv
<1>2. ASSUME NEW r \in Runners, Step(r) \/ Stop(r) PROVE IInv'
  <2>1. RunnerOK(r)' /\ NothingLost'
    BY <1>1, <1>2, RunnerStep
  <2>2. ASSUME NEW q \in Runners, q # r PROVE RunnerOK(q)'
    BY <1>1, <1>2, <2>2, OthersUntouched, Untouched DEF IInv
  <2> QED BY <1>1, <2>1, <2>2 DEF IInv
<1>3. ASSUME saved' = saved, pc' = pc, cur' = cur, start' = start, page' = page PROVE IInv'
  <2>1. ASSUME NEW q \in Runners PROVE RunnerOK(q)'
    BY <1>1, <1>3, Untouched DEF IInv
  <2>2. NothingLost'
    BY <1>1, <1>3, SavedUntouched DEF IInv
  <2> QED BY <1>1, <2>1, <2>2 DEF IInv
<1>4. CASE CloseLedger \/ Prune
  BY <1>3, <1>4 DEF CloseLedger, Prune, tables
<1>5. CASE UNCHANGED vars
  BY <1>3, <1>5 DEF vars
<1> QED BY <1>2, <1>4, <1>5 DEF Next

LEMMA Invariance == Spec => []IInv
BY InitInv, InvStep, PTL DEF Spec

(* Every value a run of the stream reaches is of its type. *)
THEOREM TypeCorrect == Spec => []TypeOK
<1>1. IInv => TypeOK
  BY DEF IInv, TypeInv
<1> QED BY <1>1, Invariance, PTL

(* The cursor row never covers an event of its reading that a sink has not *)
(* handled, unless RPC no longer serves it: whatever the chain, the page   *)
(* size, the runners on the stream and the places they crash at.           *)
THEOREM CursorLosesNothing == Spec => []NothingLost
<1>1. IInv => NothingLost
  BY DEF IInv
<1> QED BY <1>1, Invariance, PTL

(* A `--once` run that returns Ok has handled everything up to the tip its *)
(* last page reported.                                                     *)
THEOREM OnceCatchesUp == Spec => []CaughtUp
<1>1. ASSUME IInv PROVE CaughtUp
  <2> SUFFICES ASSUME NEW r \in Runners, pc[r] = "done", NEW e \in Events,
                      Ledger[e] \in cur[r].from .. page[r].latest_ledger
               PROVE  e \in Complete \cup Pruned
    BY DEF CaughtUp
  <2>1. Covered({f \in Events : Ledger[f] <= page[r].latest_ledger}, cur[r].from)
    BY <1>1 DEF IInv, RunnerOK, DoneCovered
  <2>2. /\ cur[r].from \in Nat /\ page[r].latest_ledger \in Nat
    BY <1>1 DEF IInv, TypeInv, TypeOK, Cursor, Page
  <2>3. Ledger[e] >= cur[r].from /\ Ledger[e] <= page[r].latest_ledger
    BY <2>2
  <2> QED BY <2>1, <2>3 DEF Covered, Settled
<1> QED BY <1>1, Invariance, PTL

(* A payment is recorded once per event, and only beside its event row.    *)
THEOREM PaymentsOnce == Spec => []PaidOnce
<1> USE IngestorAssumption
<1>1. Init => PaidOnce
  BY DEF Init, PaidOnce
<1>2. ASSUME IInv, PaidOnce, [Next]_vars PROVE PaidOnce'
  <2>1. TypeOK /\ TypeOK' /\ Grows
    BY <1>2, StepGrows, TypeStep DEF IInv, TypeInv
  <2>2. ASSUME payments' = payments PROVE PaidOnce'
    <3> SUFFICES ASSUME NEW e \in Events
                 PROVE  payments[e] <= IF e \in Paying /\ rows'[e] > 0 THEN 1 ELSE 0
      BY <2>2 DEF PaidOnce
    <3>1. rows[e] \in Nat /\ rows'[e] \in Nat /\ rows[e] <= rows'[e]
      BY <2>1 DEF TypeOK, Grows
    <3>2. payments[e] \in Nat /\ payments[e] <= IF e \in Paying /\ rows[e] > 0 THEN 1 ELSE 0
      BY <1>2, <2>1 DEF PaidOnce, TypeOK
    <3> QED BY <3>1, <3>2
  <2>3. ASSUME NEW r \in Runners, RecordPayment(r) PROVE PaidOnce'
    <3>1. page[r].next \in Paying /\ rows[page[r].next] > 0 /\ rows' = rows
      BY <1>2, <2>3 DEF RecordPayment, Insert, IInv, RunnerOK, HalfHandled
    <3> QED BY <1>2, <2>1, <2>3, <3>1 DEF RecordPayment, Insert, PaidOnce, TypeOK
  <2>4. ASSUME NEW r \in Runners,
               \/ RestoreCursor(r) \/ LatestLedger(r) \/ FetchPage(r) \/ FetchRejected(r)
               \/ FetchFailed(r) \/ SaveSkip(r) \/ StoreEvent(r) \/ SaveCursor(r)
               \/ RunAgain(r) \/ Stop(r)
        PROVE  PaidOnce'
    <3>1. payments' = payments
      BY <2>4 DEF RestoreCursor, LatestLedger, Sequence, BeginAt, FetchPage, FetchRejected,
                 RetentionFloor, FetchFailed,
                  SaveSkip, StoreEvent, SaveCursor, RunAgain, Stop, Fresh, chain, tables
    <3> QED BY <2>2, <3>1
  <2>5. CASE CloseLedger \/ Prune \/ UNCHANGED vars
    BY <2>2, <2>5 DEF CloseLedger, Prune, vars, tables
  <2> QED BY <1>2, <2>3, <2>4, <2>5 DEF Next, Step
<1> QED BY <1>1, <1>2, Invariance, PTL DEF Spec

-----------------------------------------------------------------------------
(* The stream is an EventFeed: what it does to its cursor, its pages and   *)
(* its rows is handing over events in order and acknowledging no more.     *)

(* A position is on the chain, and behind it is nothing later.             *)
TokenOK(t) ==
  t # None => /\ t.ledger <= tip
              /\ \A e \in Events : e <= t.pos => Ledger[e] <= t.ledger

CursorOK(c) == TokenOK(c.last_event_id) /\ c.last_ledger <= tip

(* What a runner has in memory is of the chain as it is.                   *)
OnChain(r) ==
  /\ CursorOK(cur[r])
  /\ TokenOK(page[r].cursor)
  /\ start[r] # None => start[r] <= tip
  /\ page[r].floor <= tip
  /\ page[r].received => Ledger[page[r].last] <= tip

(* Before its first page a runner asks for the ledger its cursor names, or *)
(* for the beginning of the stream.                                        *)
Begins(r) ==
  /\ pc[r] = "tip" => StartLedger = None
  /\ pc[r] = "fetch" /\ cur[r].last_event_id = None /\ start[r] # None =>
       \/ start[r] = cur[r].last_ledger
       \/ /\ cur[r].last_ledger = 0
          /\ StartLedger \in {None, start[r]}

(* An empty page begins where the cursor says.                             *)
EmptyPage(r) ==
  pc[r] = "save" /\ ~page[r].received =>
    IF cur[r].last_event_id # None THEN page[r].next = cur[r].last_event_id.pos + 1
                                   ELSE Passed(cur[r]) \subseteq {e \in Events : e < page[r].next}

Reader(r) == OnChain(r) /\ Begins(r) /\ EmptyPage(r)

FeedInv == /\ floor <= tip /\ InitTip <= tip
           /\ CursorOK(saved)
           /\ \A r \in Runners : Reader(r)

-----------------------------------------------------------------------------
LEMMA TokenStays ==
  ASSUME NEW t \in Token \cup {None}, TokenOK(t), tip \in Nat, tip' \in Nat, tip <= tip'
  PROVE  TokenOK(t)'
<1>1. CASE t = None
  BY <1>1 DEF TokenOK
<1>2. CASE t # None
  <2>1. t.ledger \in Nat
    BY <1>2 DEF Token
  <2> QED BY <1>2, <2>1 DEF TokenOK
<1> QED BY <1>1, <1>2

LEMMA CursorStays ==
  ASSUME NEW c \in Cursor, CursorOK(c), tip \in Nat, tip' \in Nat, tip <= tip'
  PROVE  CursorOK(c)'
<1>1. c.last_event_id \in Token \cup {None} /\ c.last_ledger \in Nat
  BY DEF Cursor
<1> QED BY <1>1, TokenStays DEF CursorOK

(* The chain only goes on, so a runner that does nothing keeps its place.  *)
LEMMA ReaderStays ==
  ASSUME TypeInv, TypeInv', tip <= tip', NEW q \in Runners, Reader(q),
         pc'[q] = pc[q], cur'[q] = cur[q], start'[q] = start[q], page'[q] = page[q]
  PROVE  Reader(q)'
<1>1. /\ tip \in Nat /\ tip' \in Nat /\ cur[q] \in Cursor /\ page[q] \in Page
      /\ start[q] \in Nat \cup {None} /\ Shape(q)
  BY DEF TypeInv, TypeOK
<1>2. CursorOK(cur[q])' /\ TokenOK(page[q].cursor)'
  <2>1. CursorOK(cur[q]) /\ TokenOK(page[q].cursor) /\ page[q].cursor \in Token \cup {None}
    BY <1>1 DEF Reader, OnChain, Page
  <2> DEFINE c == cur[q]
             t == page[q].cursor
  <2>2. c' = c /\ t' = t
    OBVIOUS
  <2>3. \A d \in Cursor : CursorOK(d) => CursorOK(d)'
    <3> TAKE d \in Cursor
    <3> QED BY <1>1, CursorStays
  <2>4. \A u \in Token \cup {None} : TokenOK(u) => TokenOK(u)'
    <3> TAKE u \in Token \cup {None}
    <3> QED BY <1>1, TokenStays
  <2> QED BY <1>1, <2>1, <2>2, <2>3, <2>4 DEF CursorOK, TokenOK
<1>3. OnChain(q)'
  <2>1. start[q] # None => start[q] <= tip'
    BY <1>1 DEF Reader, OnChain
  <2>2. page[q].floor <= tip'
    BY <1>1 DEF Reader, OnChain, Page
  <2>3. page[q].received => Ledger[page[q].last] <= tip'
    <3>1. page[q].received => Ledger[page[q].last] \in Nat
      BY <1>1, IngestorAssumption DEF Shape
    <3> QED BY <1>1, <3>1 DEF Reader, OnChain
  <2> QED BY <1>2, <2>1, <2>2, <2>3 DEF OnChain
<1>4. Begins(q)' /\ EmptyPage(q)'
  BY DEF Reader, Begins, EmptyPage, Passed
<1> QED BY <1>3, <1>4 DEF Reader

(* A fresh Ingestor.                                                       *)
LEMMA FreshReader ==
  ASSUME TypeInv, tip \in Nat, NEW r \in Runners, Fresh(r)
  PROVE  Reader(r)'
<1>1. /\ pc'[r] = "start" /\ cur'[r] = DefaultCursor /\ start'[r] = None /\ page'[r] = NoPage
      /\ tip' = tip
  BY DEF Fresh, TypeInv, TypeOK, chain
<1>2. OnChain(r)'
  BY <1>1 DEF OnChain, CursorOK, TokenOK, DefaultCursor, NoPage
<1> QED BY <1>1, <1>2 DEF Reader, Begins, EmptyPage

(* What a page's cursor covers is on the chain.                            *)
LEMMA PageOnChain ==
  ASSUME TypeInv, FeedInv, NEW r \in Runners, Asks(r),
         NEW lo \in 1 .. NumEvents + 1, NEW hi \in 0 .. NumEvents,
         FirstAsked(r, lo), Serves(lo, hi)
  PROVE  /\ TokenOK(PageCursor(lo, hi))
         /\ \A e \in Events : e <= hi => Ledger[e] <= tip
<1> USE IngestorAssumption
<1>1. /\ tip \in Nat /\ cur[r] \in Cursor /\ start[r] \in Nat \cup {None}
      /\ OnChain(r)
  BY DEF TypeInv, TypeOK, FeedInv, Reader
<1>2. \A e \in Events : e < lo => Ledger[e] <= tip
  <2>1. CASE cur[r].last_event_id # None
    <3> DEFINE t == cur[r].last_event_id
    <3>1. t \in Token /\ t.ledger <= tip /\ \A e \in Events : e <= t.pos => Ledger[e] <= t.ledger
      BY <1>1, <2>1 DEF OnChain, CursorOK, TokenOK, Cursor
    <3>2. t.pos \in Nat /\ t.ledger \in Nat /\ lo = t.pos + 1
      BY <2>1, <3>1 DEF FirstAsked, Token
    <3> HIDE DEF t
    <3> SUFFICES ASSUME NEW e \in Events, e < lo PROVE Ledger[e] <= tip
      OBVIOUS
    <3>3. e \in Nat /\ Ledger[e] \in Nat
      BY DEF Events
    <3>4. e <= t.pos
      BY <3>2, <3>3
    <3> QED BY <1>1, <3>1, <3>2, <3>3, <3>4
  <2>2. CASE cur[r].last_event_id = None
    <3>1. /\ \A e \in Events : e < lo <=> Ledger[e] < start[r]
          /\ start[r] \in Nat /\ start[r] <= tip
      BY <1>1, <2>2 DEF FirstAsked, Asks, OnChain
    <3> QED BY <1>1, <3>1
  <2> QED BY <2>1, <2>2
<1>3. \A e \in Events : e <= hi => Ledger[e] <= tip
  <2>1. \A e \in Events : e < lo \/ ~(e <= hi) \/ e \in lo .. hi
    BY DEF Events
  <2> QED BY <1>2, <2>1 DEF Serves
<1>4. TokenOK(PageCursor(lo, hi))
  <2>1. CASE Full(lo, hi)
    <3>1. hi \in Events
      BY <2>1 DEF Full, Events
    <3>2. \A e \in Events : e <= hi => Ledger[e] <= Ledger[hi]
      BY <3>1
    <3>3. Ledger[hi] <= tip
      BY <1>3, <3>1 DEF Events
    <3> QED BY <2>1, <3>2, <3>3 DEF TokenOK, PageCursor
  <2>2. CASE ~Full(lo, hi)
    BY <1>1, <1>3, <2>2 DEF TokenOK, PageCursor
  <2> QED BY <2>1, <2>2
<1> QED BY <1>3, <1>4

(* What a runner's own step leaves it with, and the row.                   *)
LEMMA ReaderStep ==
  ASSUME TypeInv, TypeInv', FeedInv, IInv, NEW r \in Runners, Step(r) \/ Stop(r)
  PROVE  /\ Reader(r)' /\ CursorOK(saved)'
         /\ UNCHANGED <<tip, floor>>
<1> USE IngestorAssumption
<1>1. /\ tip \in Nat /\ cur[r] \in Cursor /\ start[r] \in Nat \cup {None} /\ page[r] \in Page
      /\ saved \in Cursor /\ floor \in Nat
      /\ cur[r].last_ledger \in Nat /\ cur[r].last_event_id \in Token \cup {None}
      /\ page[r].floor \in Nat /\ page[r].next \in Nat /\ page[r].last \in Nat
      /\ Shape(r)
  BY DEF TypeInv, TypeOK, Cursor, Page
<1>2. /\ OnChain(r) /\ Begins(r) /\ EmptyPage(r) /\ CursorOK(saved)
      /\ floor <= tip /\ InitTip <= tip
  BY DEF FeedInv, Reader
<1>3. TipBlank(r) /\ SkipPruned(r)
  BY DEF IInv, RunnerOK
<1>4. UNCHANGED <<tip, floor>>
  BY DEF Step, RestoreCursor, LatestLedger, Sequence, BeginAt, FetchPage, FetchRejected,
         FetchFailed, SaveSkip, StoreEvent, RecordPayment, SaveCursor, RunAgain, Stop, Fresh,
         chain, tables
<1>5. ASSUME saved' = saved PROVE CursorOK(saved)'
  BY <1>2, <1>4, <1>5 DEF CursorOK, TokenOK
<1> DEFINE Ok == Reader(r)' /\ CursorOK(saved)'
<1> SUFFICES Ok
  BY <1>4
<1>6. ASSUME Fresh(r) PROVE Ok
  BY <1>1, <1>5, <1>6, FreshReader DEF Fresh, tables
<1>7. CASE RestoreCursor(r)
  <2>1. saved' = saved
    BY <1>7 DEF RestoreCursor, BeginAt, tables
  <2>2. CASE saved.last_event_id # None /\ BeginAt(r, saved, None)
    <3>1. /\ pc'[r] = "fetch" /\ cur'[r] = saved /\ start'[r] = None /\ page'[r] = page[r]
      BY <2>2 DEF BeginAt, TypeInv, TypeOK
    <3>2. OnChain(r)'
      BY <1>2, <1>4, <3>1 DEF OnChain, CursorOK, TokenOK
    <3> QED BY <1>5, <2>1, <3>1, <3>2 DEF Reader, Begins, EmptyPage
  <2>3. CASE saved.last_event_id = None /\ BeginAt(r, saved, saved.last_ledger)
    <3>1. saved.last_ledger \in Nat /\ saved.last_ledger <= tip
      BY <1>1, <1>2 DEF Cursor, CursorOK
    <3>3. Reader(r)'
      <4>1. /\ pc'[r] = "fetch" /\ cur'[r] = saved /\ start'[r] = saved.last_ledger
            /\ page'[r] = page[r]
        BY <2>3 DEF BeginAt, TypeInv, TypeOK
      <4>2. OnChain(r)'
        BY <1>2, <1>4, <3>1, <4>1 DEF OnChain, CursorOK, TokenOK
      <4> QED BY <4>1, <4>2 DEF Reader, Begins, EmptyPage
    <3> QED BY <1>5, <2>1, <3>3
  <2>4. CASE Blank(saved) /\ StartLedger # None
             /\ BeginAt(r, [saved EXCEPT !.from = StartLedger], StartLedger)
    <3>1. /\ pc'[r] = "fetch" /\ cur'[r] = [saved EXCEPT !.from = StartLedger]
          /\ start'[r] = StartLedger /\ page'[r] = page[r]
      BY <2>4 DEF BeginAt, TypeInv, TypeOK
    <3>2. cur'[r].last_event_id = None /\ cur'[r].last_ledger = 0
      BY <1>1, <2>4, <3>1 DEF Blank, Cursor
    <3>3. StartLedger \in Nat /\ StartLedger <= tip
      BY <1>1, <1>2, <2>4
    <3>4. OnChain(r)'
      BY <1>1, <1>2, <1>4, <3>1, <3>2, <3>3 DEF OnChain, CursorOK, TokenOK
    <3> QED BY <1>5, <2>1, <3>1, <3>2, <3>4 DEF Reader, Begins, EmptyPage
  <2>5. CASE StartLedger = None /\ cur' = [cur EXCEPT ![r] = saved]
             /\ pc' = [pc EXCEPT ![r] = "tip"] /\ UNCHANGED <<start, page>>
    <3>1. pc'[r] = "tip" /\ cur'[r] = saved /\ start'[r] = start[r] /\ page'[r] = page[r]
      BY <2>5 DEF TypeInv, TypeOK
    <3>2. OnChain(r)'
      BY <1>2, <1>4, <3>1 DEF OnChain, CursorOK, TokenOK
    <3> QED BY <1>5, <2>1, <2>5, <3>1, <3>2 DEF Reader, Begins, EmptyPage
  <2> QED BY <1>7, <2>2, <2>3, <2>4, <2>5 DEF RestoreCursor
<1>8. CASE LatestLedger(r)
  <2>1. /\ pc[r] = "tip" /\ pc'[r] = "fetch" /\ cur'[r] = [cur[r] EXCEPT !.from = tip]
        /\ start'[r] = tip /\ page'[r] = page[r] /\ saved' = saved
    BY <1>8 DEF LatestLedger, Sequence, BeginAt, TypeInv, TypeOK, tables
  <2>2. cur'[r].last_event_id = None /\ cur'[r].last_ledger = 0 /\ StartLedger = None
    BY <1>1, <1>2, <1>3, <2>1 DEF TipBlank, Blank, Cursor, Begins
  <2>3. OnChain(r)'
    BY <1>1, <1>2, <1>4, <2>1, <2>2 DEF OnChain, CursorOK, TokenOK
  <2> QED BY <1>5, <2>1, <2>2, <2>3 DEF Reader, Begins, EmptyPage
<1>9. CASE FetchPage(r)
  <2>1. PICK lo \in 1 .. NumEvents + 1, hi \in 0 .. NumEvents, carries \in PageCursors :
          /\ FirstAsked(r, lo)
          /\ Serves(lo, hi)
          /\ page' = [page EXCEPT ![r] =
                       [next |-> lo, last |-> hi, received |-> lo <= hi,
                        cursor |-> IF carries THEN PageCursor(lo, hi) ELSE None,
                        latest_ledger |-> tip, floor |-> 0]]
          /\ pc' = [pc EXCEPT ![r] = IF lo <= hi THEN "store" ELSE "save"]
    BY <1>9 DEF FetchPage
  <2>2. /\ pc[r] = "fetch" /\ Asks(r)
        /\ pc'[r] = (IF lo <= hi THEN "store" ELSE "save")
        /\ cur'[r] = cur[r] /\ saved' = saved /\ start'[r] = None
        /\ page'[r].next = lo /\ page'[r].last = hi /\ page'[r].received = (lo <= hi)
        /\ page'[r].cursor = (IF carries THEN PageCursor(lo, hi) ELSE None)
        /\ page'[r].floor = 0
    BY <1>9, <2>1 DEF FetchPage, TypeInv, TypeOK, tables
  <2>3. TokenOK(PageCursor(lo, hi)) /\ \A e \in Events : e <= hi => Ledger[e] <= tip
    BY <2>1, <2>2, PageOnChain
  <2>4. lo <= hi => hi \in Events
    BY DEF Events
  <2>5. OnChain(r)'
    <3>1. CursorOK(cur[r])'
      BY <1>2, <1>4, <2>2 DEF OnChain, CursorOK, TokenOK
    <3>2. TokenOK(page[r].cursor)'
      <4> DEFINE t == PageCursor(lo, hi)
      <4>1. TokenOK(t) /\ page'[r].cursor \in {t, None}
        BY <2>2, <2>3
      <4> HIDE DEF t
      <4> QED BY <1>4, <4>1 DEF TokenOK
    <3>3. page'[r].received => Ledger[page'[r].last] <= tip'
      <4>1. lo <= hi => Ledger[hi] <= tip
        BY <2>3, <2>4
      <4> QED BY <1>4, <2>2, <4>1
    <3> QED BY <1>1, <1>4, <2>2, <3>1, <3>2, <3>3 DEF OnChain
  <2>6. EmptyPage(r)'
    <3>1. CASE cur[r].last_event_id # None
      BY <2>1, <2>2, <3>1 DEF EmptyPage, FirstAsked
    <3>2. CASE cur[r].last_event_id = None
      <4>1. \A e \in Events : e < lo <=> Ledger[e] < start[r]
        BY <2>1, <3>2 DEF FirstAsked
      <4>2. start[r] = cur[r].last_ledger \/ cur[r].last_ledger = 0
        BY <1>2, <2>2, <3>2 DEF Begins, Asks
      <4>3. Passed(cur[r]) \subseteq {e \in Events : e < lo}
        BY <3>2, <4>1, <4>2 DEF Passed
      <4> QED BY <2>2, <3>2, <4>3 DEF EmptyPage, Passed
    <3> QED BY <3>1, <3>2
  <2> QED BY <1>5, <2>2, <2>5, <2>6 DEF Reader, Begins
<1>10. CASE FetchRejected(r)
  <2>1. /\ pc'[r] = "skip" /\ cur'[r] = cur[r] /\ start'[r] = start[r] /\ saved' = saved
        /\ page'[r] = [page[r] EXCEPT !.floor = floor]
    BY <1>10 DEF FetchRejected, RetentionFloor, TypeInv, TypeOK, tables
  <2>2. /\ page'[r].floor = floor /\ page'[r].cursor = page[r].cursor
        /\ page'[r].received = page[r].received /\ page'[r].last = page[r].last
    BY <1>1, <2>1 DEF Page
  <2>3. OnChain(r)'
    BY <1>2, <1>4, <2>1, <2>2 DEF OnChain, CursorOK, TokenOK
  <2> QED BY <1>5, <2>1, <2>3 DEF Reader, Begins, EmptyPage
<1>11. CASE FetchFailed(r)
  BY <1>6, <1>11 DEF FetchFailed
<1>12. CASE SaveSkip(r)
  <2>1. /\ pc'[r] = "fetch" /\ start'[r] = page[r].floor /\ saved' = cur'[r]
        /\ cur'[r] = Skipped(cur[r], page[r].floor) /\ page'[r] = page[r]
    BY <1>12 DEF SaveSkip, TypeInv, TypeOK
  <2>2. cur'[r].last_ledger = page[r].floor /\ cur'[r].last_event_id = None
    BY <1>1, <2>1 DEF Skipped, Cursor
  <2>3. CursorOK(cur[r])'
    BY <1>2, <1>4, <2>2 DEF OnChain, CursorOK, TokenOK
  <2>4. OnChain(r)'
    BY <1>2, <1>4, <2>1, <2>3 DEF OnChain, TokenOK
  <2>5. CursorOK(saved)'
    BY <2>1, <2>3 DEF CursorOK, TokenOK
  <2> QED BY <2>1, <2>2, <2>4, <2>5 DEF Reader, Begins, EmptyPage
<1>13. ASSUME NEW l \in Nat, l <= tip, saved' = saved, start'[r] = start[r],
              pc[r] \in {"store", "pay"},
              cur'[r].last_event_id = cur[r].last_event_id, cur'[r].last_ledger = l,
              Handled(r) \/ (page'[r] = page[r] /\ pc'[r] = "pay")
       PROVE  Ok
  <2>1. /\ page'[r].cursor = page[r].cursor /\ page'[r].received = page[r].received
        /\ page'[r].last = page[r].last /\ page'[r].floor = page[r].floor
        /\ pc'[r] \in {"store", "pay", "save"}
    BY <1>1, <1>13 DEF Handled, TypeInv, TypeOK, Page
  <2>2. page[r].received
    BY <1>1, <1>13 DEF Shape
  <2>3. OnChain(r)'
    BY <1>2, <1>4, <1>13, <2>1 DEF OnChain, CursorOK, TokenOK
  <2> QED BY <1>5, <1>13, <2>1, <2>2, <2>3 DEF Reader, Begins, EmptyPage
<1>14. CASE StoreEvent(r)
  <2> DEFINE e == page[r].next
  <2>1. /\ pc[r] = "store" /\ saved' = saved /\ start'[r] = start[r]
        /\ Handled(r) \/ (page'[r] = page[r] /\ pc'[r] = "pay")
        /\ cur'[r] = [cur[r] EXCEPT !.last_ledger = Ledger[e]]
    BY <1>14 DEF StoreEvent, TypeInv, TypeOK
  <2>2. cur'[r].last_event_id = cur[r].last_event_id /\ cur'[r].last_ledger = Ledger[e]
    BY <1>1, <2>1 DEF Cursor
  <2>3. Ledger[e] \in Nat /\ Ledger[e] <= tip
    <3>1. page[r].received /\ page[r].last \in Events /\ e \in Events /\ e <= page[r].last
      BY <1>1, <2>1 DEF Shape
    <3>2. Ledger[page[r].last] <= tip /\ Ledger[e] <= Ledger[page[r].last]
      BY <1>2, <3>1 DEF OnChain
    <3>3. Ledger[e] \in Nat /\ Ledger[page[r].last] \in Nat
      BY <3>1
    <3> HIDE DEF e
    <3> QED BY <1>1, <3>2, <3>3
  <2> QED BY <1>13, <2>1, <2>2, <2>3
<1>15. CASE RecordPayment(r)
  <2>1. /\ pc[r] = "pay" /\ saved' = saved /\ start'[r] = start[r] /\ cur'[r] = cur[r]
        /\ Handled(r)
    BY <1>15 DEF RecordPayment
  <2>2. cur[r].last_ledger <= tip
    BY <1>2 DEF OnChain, CursorOK
  <2> QED BY <1>1, <1>13, <2>1, <2>2
<1>16. CASE SaveCursor(r)
  <2> DEFINE id == NextEventId(r)
  <2>1. /\ pc[r] = "save" /\ saved' = cur'[r] /\ start'[r] = start[r] /\ page'[r] = page[r]
        /\ cur'[r] = [cur[r] EXCEPT !.last_event_id = id]
        /\ pc'[r] \in {"fetch", "done"}
    BY <1>16 DEF SaveCursor, AfterPage, TypeInv, TypeOK
  <2>2. cur'[r].last_event_id = id /\ cur'[r].last_ledger = cur[r].last_ledger
    BY <1>1, <2>1 DEF Cursor
  <2>3. TokenOK(id)
    <3>1. CASE page[r].cursor # None
      BY <1>2, <3>1 DEF NextEventId, OnChain
    <3>2. CASE page[r].cursor = None /\ page[r].received
      <4> DEFINE hi == page[r].last
      <4>1. hi \in Events /\ Ledger[hi] <= tip
        BY <1>1, <1>2, <3>2 DEF Shape, OnChain
      <4>2. id = [pos |-> hi, ledger |-> Ledger[hi]]
        BY <3>2 DEF NextEventId
      <4>3. \A e \in Events : e <= hi => Ledger[e] <= Ledger[hi]
        BY <4>1
      <4> HIDE DEF hi, id
      <4> QED BY <4>1, <4>2, <4>3 DEF TokenOK
    <3>3. CASE page[r].cursor = None /\ ~page[r].received
      BY <1>2, <3>3 DEF NextEventId, OnChain, CursorOK
    <3> QED BY <3>1, <3>2, <3>3
  <2> HIDE DEF id
  <2>4. CursorOK(cur[r])'
    BY <1>2, <1>4, <2>2, <2>3 DEF OnChain, CursorOK, TokenOK
  <2>5. OnChain(r)'
    BY <1>2, <1>4, <2>1, <2>4 DEF OnChain, TokenOK
  <2>6. CursorOK(saved)'
    BY <2>1, <2>4 DEF CursorOK, TokenOK
  <2>7. start'[r] = None
    BY <1>1, <2>1 DEF Shape
  <2> QED BY <2>1, <2>5, <2>6, <2>7 DEF Reader, Begins, EmptyPage
<1>17. CASE RunAgain(r)
  BY <1>6, <1>17 DEF RunAgain
<1>18. CASE Stop(r)
  BY <1>6, <1>18 DEF Stop
<1> QED BY <1>7, <1>8, <1>9, <1>10, <1>11, <1>12, <1>14, <1>15, <1>16, <1>17, <1>18 DEF Step

LEMMA FeedInvStep ==
  ASSUME IInv, FeedInv, [Next]_vars
  PROVE  FeedInv'
<1>1. TypeInv /\ TypeInv' /\ tip \in Nat /\ tip' \in Nat /\ floor \in Nat /\ InitTip \in Nat
  BY TypeStep, IngestorAssumption DEF IInv, TypeInv, TypeOK
<1>2. ASSUME NEW r \in Runners, Step(r) \/ Stop(r) PROVE FeedInv'
  <2>1. Reader(r)' /\ CursorOK(saved)' /\ UNCHANGED <<tip, floor>>
    BY <1>1, <1>2, ReaderStep
  <2>2. ASSUME NEW q \in Runners, q # r PROVE Reader(q)'
    <3>1. Reader(q) /\ tip <= tip'
      BY <1>1, <2>1 DEF FeedInv
    <3> QED BY <1>1, <1>2, <2>2, <3>1, OthersUntouched, ReaderStays
  <2>3. floor' <= tip' /\ InitTip <= tip'
    BY <2>1 DEF FeedInv
  <2> QED BY <2>1, <2>2, <2>3 DEF FeedInv
<1>3. ASSUME UNCHANGED <<saved, pc, cur, start, page>>, tip <= tip', floor' <= tip' PROVE FeedInv'
  <2>1. ASSUME NEW q \in Runners PROVE Reader(q)'
    BY <1>1, <1>3, ReaderStays DEF FeedInv
  <2>2. CursorOK(saved)'
    <3>1. \A c \in Cursor : CursorOK(c) => CursorOK(c)'
      <4> TAKE c \in Cursor
      <4> QED BY <1>1, <1>3, CursorStays
    <3> QED BY <1>1, <1>3, <3>1 DEF FeedInv, CursorOK, TokenOK, TypeInv, TypeOK
  <2>3. InitTip <= tip'
    BY <1>1, <1>3 DEF FeedInv
  <2> QED BY <1>3, <2>1, <2>2, <2>3 DEF FeedInv
<1>4. CASE CloseLedger \/ Prune
  <2>1. UNCHANGED <<saved, pc, cur, start, page>> /\ tip <= tip' /\ floor' <= tip'
    BY <1>1, <1>4 DEF CloseLedger, Prune, tables, FeedInv
  <2> QED BY <1>3, <2>1
<1>5. CASE UNCHANGED vars
  BY <1>1, <1>3, <1>5 DEF vars, FeedInv
<1> QED BY <1>2, <1>4, <1>5 DEF Next

LEMMA FeedInvInit ==
  ASSUME Init
  PROVE  FeedInv
<1> USE IngestorAssumption DEF Init
<1>1. CursorOK(DefaultCursor) /\ TokenOK(None)
  BY DEF CursorOK, TokenOK, DefaultCursor
<1>2. \A r \in Runners : Reader(r)
  BY <1>1 DEF Reader, OnChain, Begins, EmptyPage, NoPage
<1> QED BY <1>1, <1>2 DEF FeedInv

-----------------------------------------------------------------------------
(* The steps of a reader.                                                  *)

Reads == [q \in Runners |-> Read(q)]
Opened == {q \in Runners : pc[q] # "start"}

LEMMA ReadsMove ==
  ASSUME TypeInv, TypeInv', NEW r \in Runners, Step(r) \/ Stop(r)
  PROVE  /\ Reads' = [Reads EXCEPT ![r] = Read(r)']
         /\ pc[r] # "start" /\ pc'[r] # "start" => r \in Opened /\ Opened' = Opened
         /\ pc[r] = "start" /\ pc'[r] # "start" =>
              r \notin Opened /\ Opened' = Opened \cup {r}
         /\ pc[r] # "start" /\ pc'[r] = "start" =>
              r \in Opened /\ Opened' = Opened \ {r}
<1>1. ASSUME NEW q \in Runners, q # r
      PROVE  pc'[q] = pc[q] /\ cur'[q] = cur[q] /\ start'[q] = start[q] /\ page'[q] = page[q]
  BY <1>1, OthersUntouched
<1>2. ASSUME NEW q \in Runners, q # r PROVE Read(q)' = Read(q)
  BY <1>1, <1>2 DEF Read, Asks, Passed
<1>3. Reads' = [Reads EXCEPT ![r] = Read(r)']
  BY <1>2 DEF Reads
<1> QED BY <1>1, <1>3 DEF Opened

(* What is expendable is so for good.                                      *)
LEMMA ExpendableStays ==
  ASSUME TypeInv, TypeInv', tip <= tip', floor <= floor'
  PROVE  Expendable \subseteq Expendable' /\ Expendable' \in SUBSET Events
BY IngestorAssumption DEF Expendable, Pruned, TypeInv, TypeOK

LEMMA SkipsStep ==
  ASSUME TypeInv, TypeInv', NEW r \in Runners, Step(r) \/ Stop(r),
         pc[r] # "start", pc'[r] # "start", UNCHANGED <<tip, floor, saved>>,
         Complete' = Complete, NEW missed \in SUBSET Expendable, Read(r)' = Read(r) \cup missed
  PROVE  Feed!Skip(r)
<1>1. r \in Opened /\ Opened' = Opened /\ Reads' = [Reads EXCEPT ![r] = Reads[r] \cup missed]
  BY ReadsMove DEF Reads
<1>2. Passed(saved)' = Passed(saved) /\ Expendable' = Expendable
  BY DEF Passed, Expendable, Pruned
<1> QED BY <1>1, <1>2, Zenon DEF Feed!Skip, Reads, Opened

LEMMA AckStep ==
  ASSUME TypeInv, TypeInv', NEW r \in Runners, Step(r) \/ Stop(r),
         pc[r] # "start", pc'[r] # "start", UNCHANGED <<tip, floor>>,
         Complete' = Complete, Passed(saved)' \subseteq Read(r), Read(r)' = Read(r)
  PROVE  Feed!Ack(r)
<1>1. r \in Opened /\ Opened' = Opened /\ Reads' = Reads /\ Reads[r] = Read(r)
  <2>1. Reads' = [Reads EXCEPT ![r] = Read(r)] /\ Reads[r] = Read(r)
    BY ReadsMove DEF Reads
  <2>2. Reads' = Reads
    BY <2>1 DEF Reads
  <2> QED BY <2>1, <2>2, ReadsMove
<1>2. Expendable' = Expendable
  BY DEF Expendable, Pruned
<1> QED BY <1>1, <1>2 DEF Feed!Ack, Reads, Opened

LEMMA DeliverStep ==
  ASSUME TypeInv, TypeInv', NEW r \in Runners, Step(r) \/ Stop(r),
         pc[r] # "start", pc'[r] # "start", UNCHANGED <<tip, floor, saved>>,
         NEW e \in Events, Read(r) = {f \in Events : f < e},
         Read(r)' = {f \in Events : f < e + 1}, Complete' = Complete \cup {e}
  PROVE  Feed!Deliver(r, e)
<1>1. Read(r)' = Read(r) \cup {e}
  <2>1. \A f \in Events : f < e + 1 <=> f < e \/ f = e
    BY IngestorAssumption DEF Events
  <2> QED BY <2>1
<1>2. r \in Opened /\ Opened' = Opened /\ Reads' = [Reads EXCEPT ![r] = Reads[r] \cup {e}]
      /\ Reads[r] = Read(r)
  BY <1>1, ReadsMove DEF Reads
<1>3. Passed(saved)' = Passed(saved) /\ Expendable' = Expendable
  BY DEF Passed, Expendable, Pruned
<1>4. \A f \in Feed!Events : f \in Reads[r] <=> f < e
  BY <1>2 DEF Feed!Events, Events
<1> QED BY <1>2, <1>3, <1>4 DEF Feed!Deliver, Reads, Opened

LEMMA CloseStep ==
  ASSUME TypeInv, TypeInv', NEW r \in Runners, Step(r) \/ Stop(r), pc[r] # "start", Fresh(r)
  PROVE  Feed!Close(r)
<1>1. pc'[r] = "start" /\ UNCHANGED <<tip, floor, rows, payments, saved>>
  BY DEF Fresh, chain, tables, TypeInv, TypeOK
<1>2. Read(r)' = {}
  BY <1>1 DEF Read
<1>3. r \in Opened /\ Opened' = Opened \ {r} /\ Reads' = [Reads EXCEPT ![r] = {}]
  BY <1>1, <1>2, ReadsMove
<1>4. /\ Passed(saved)' = Passed(saved) /\ Expendable' = Expendable
      /\ Complete' = Complete
  BY <1>1 DEF Passed, Expendable, Pruned, Complete
<1> QED BY <1>3, <1>4 DEF Feed!Close, Reads, Opened

LEMMA OpenStep ==
  ASSUME TypeInv, TypeInv', NEW r \in Runners, RestoreCursor(r), UNCHANGED <<tip, floor>>
  PROVE  Feed!Open(r)
<1> USE IngestorAssumption
<1>1. /\ pc[r] = "start" /\ pc'[r] \in {"tip", "fetch"} /\ UNCHANGED <<rows, payments, saved>>
      /\ saved \in Cursor
  BY DEF RestoreCursor, BeginAt, tables, TypeInv, TypeOK
<1>2. Read(r)' = Passed(saved)
  <2>1. CASE BeginAt(r, saved, None) /\ saved.last_event_id # None
    <3>1. pc'[r] = "fetch" /\ cur'[r] = saved
      BY <2>1 DEF BeginAt, TypeInv, TypeOK
    <3> QED BY <2>1, <3>1 DEF Read, Asks, Passed
  <2>2. CASE BeginAt(r, saved, saved.last_ledger)
    <3>1. pc'[r] = "fetch" /\ cur'[r] = saved /\ start'[r] = saved.last_ledger
      BY <2>2 DEF BeginAt, TypeInv, TypeOK
    <3>2. saved.last_ledger # None
      BY <1>1 DEF Cursor
    <3> QED BY <3>1, <3>2 DEF Read, Asks, Passed
  <2>3. CASE StartLedger # None /\ BeginAt(r, [saved EXCEPT !.from = StartLedger], StartLedger)
    <3>1. pc'[r] = "fetch" /\ cur'[r] = [saved EXCEPT !.from = StartLedger]
          /\ start'[r] = StartLedger
      BY <2>3 DEF BeginAt, TypeInv, TypeOK
    <3>2. cur'[r].last_event_id = saved.last_event_id /\ cur'[r].last_ledger = saved.last_ledger
      BY <1>1, <3>1 DEF Cursor
    <3> QED BY <2>3, <3>1, <3>2 DEF Read, Asks, Passed
  <2>4. CASE Blank(saved) /\ pc' = [pc EXCEPT ![r] = "tip"]
    <3>1. pc'[r] = "tip"
      BY <2>4 DEF TypeInv, TypeOK
    <3>2. Passed(saved) = {}
      BY <2>4 DEF Passed, Blank
    <3> QED BY <3>1, <3>2 DEF Read
  <2> QED BY <2>1, <2>2, <2>3, <2>4 DEF RestoreCursor
<1>3. /\ Passed(saved)' = Passed(saved) /\ Expendable' = Expendable
      /\ Complete' = Complete
  BY <1>1 DEF Passed, Expendable, Pruned, Complete
<1>4. r \notin Opened /\ Opened' = Opened \cup {r} /\ Reads' = [Reads EXCEPT ![r] = Passed(saved)]
  BY <1>1, <1>2, ReadsMove DEF Step
<1> QED BY <1>3, <1>4 DEF Feed!Open, Reads, Opened

(* Every step of a runner is one of a reader.                              *)
LEMMA RunnerFeeds ==
  ASSUME IInv, PaidOnce, FeedInv, TypeInv', NEW r \in Runners, Step(r) \/ Stop(r)
  PROVE  Feed!Next
<1> USE IngestorAssumption
<1>1. /\ TypeInv /\ tip \in Nat /\ cur[r] \in Cursor /\ start[r] \in Nat \cup {None}
      /\ page[r] \in Page /\ saved \in Cursor /\ floor \in Nat
      /\ cur[r].last_ledger \in Nat /\ cur[r].last_event_id \in Token \cup {None}
      /\ page[r].floor \in Nat /\ page[r].next \in Nat /\ page[r].last \in Nat
      /\ Shape(r)
  BY DEF IInv, TypeInv, TypeOK, Cursor, Page
<1>2. OnChain(r) /\ Begins(r) /\ EmptyPage(r) /\ InitTip <= tip
  BY DEF FeedInv, Reader
<1>3. TipBlank(r) /\ SkipPruned(r) /\ HalfHandled(r)
  BY DEF IInv, RunnerOK
<1>4. UNCHANGED <<tip, floor>>
  BY <1>1, ReaderStep
<1>5. ASSUME pc[r] # "start", Fresh(r) PROVE Feed!Next
  BY <1>1, <1>5, CloseStep DEF Feed!Next
<1>6. ASSUME pc[r] # "start", pc'[r] # "start", saved' = saved, Complete' = Complete,
             NEW missed \in SUBSET Expendable, Read(r)' = Read(r) \cup missed
      PROVE  Feed!Next
  BY <1>1, <1>4, <1>6, SkipsStep DEF Feed!Next
<1>7. ASSUME pc[r] # "start", pc'[r] # "start", Complete' = Complete,
             Passed(saved)' \subseteq Read(r), Read(r)' = Read(r)
      PROVE  Feed!Next
  BY <1>1, <1>4, <1>7, AckStep DEF Feed!Next
<1>8. ASSUME UNCHANGED <<rows, payments>> PROVE Complete' = Complete
  BY <1>8 DEF Complete
<1>9. CASE RestoreCursor(r)
  BY <1>1, <1>4, <1>9, OpenStep DEF Feed!Next
<1>10. CASE LatestLedger(r)
  <2>1. /\ pc[r] = "tip" /\ pc'[r] = "fetch" /\ cur'[r] = [cur[r] EXCEPT !.from = tip]
        /\ start'[r] = tip /\ UNCHANGED <<saved, rows, payments>>
    BY <1>1, <1>10 DEF LatestLedger, Sequence, BeginAt, TypeInv, TypeOK, tables
  <2>2. cur'[r].last_event_id = None /\ cur'[r].last_ledger = 0
    BY <1>1, <1>3, <2>1 DEF TipBlank, Blank, Cursor
  <2>3. Read(r) = {} /\ Read(r)' = {}
    BY <1>1, <2>1, <2>2 DEF Read, Asks, Passed
  <2> QED BY <1>6, <1>8, <2>1, <2>3
<1>11. CASE FetchPage(r)
  <2>1. PICK lo \in 1 .. NumEvents + 1, hi \in 0 .. NumEvents, carries \in PageCursors :
          /\ FirstAsked(r, lo)
          /\ Serves(lo, hi)
          /\ page' = [page EXCEPT ![r] =
                       [next |-> lo, last |-> hi, received |-> lo <= hi,
                        cursor |-> IF carries THEN PageCursor(lo, hi) ELSE None,
                        latest_ledger |-> tip, floor |-> 0]]
          /\ pc' = [pc EXCEPT ![r] = IF lo <= hi THEN "store" ELSE "save"]
    BY <1>11 DEF FetchPage
  <2>2. /\ pc[r] = "fetch" /\ Asks(r) /\ pc'[r] \in {"store", "save"}
        /\ page'[r].next = lo /\ UNCHANGED <<saved, rows, payments>>
    BY <1>1, <1>11, <2>1 DEF FetchPage, TypeInv, TypeOK, tables
  <2>3. Read(r) = Passed(cur[r]) /\ Read(r)' = {e \in Events : e < lo}
    BY <2>2 DEF Read
  <2>4. CASE cur[r].last_event_id # None
    <3>1. cur[r].last_event_id.pos \in Nat /\ lo = cur[r].last_event_id.pos + 1
      BY <1>1, <2>1, <2>4 DEF FirstAsked, Token
    <3>2. Passed(cur[r]) = {e \in Events : e < lo}
      BY <2>4, <3>1 DEF Passed, Events
    <3>3. Read(r)' = Read(r) \cup {} /\ {} \in SUBSET Expendable
      BY <2>3, <3>2
    <3> QED BY <1>6, <1>8, <2>2, <3>3
  <2>5. CASE cur[r].last_event_id = None
    <3> DEFINE before == {e \in Events : Ledger[e] < start[r]}
    <3>1. {e \in Events : e < lo} = before
      BY <2>1, <2>5 DEF FirstAsked
    <3>2. CASE start[r] = cur[r].last_ledger
      <4>1. Passed(cur[r]) = before
        BY <2>5, <3>2 DEF Passed
      <4>2. Read(r)' = Read(r) \cup {} /\ {} \in SUBSET Expendable
        BY <2>3, <3>1, <4>1
      <4> QED BY <1>6, <1>8, <2>2, <4>2
    <3>3. CASE cur[r].last_ledger = 0 /\ StartLedger \in {None, start[r]}
      <4>1. Passed(cur[r]) = {}
        BY <1>1, <2>5, <3>3 DEF Passed
      <4>2. start[r] \in Nat /\ start[r] <= tip
        BY <1>1, <1>2, <2>2, <2>5 DEF Asks, OnChain
      <4>3. before \subseteq Expendable
        <5>1. CASE StartLedger = None
          BY <1>1, <4>2, <5>1 DEF Expendable
        <5>2. CASE StartLedger # None
          BY <3>3, <5>2 DEF Expendable
        <5> QED BY <5>1, <5>2
      <4> QED BY <1>6, <1>8, <2>2, <2>3, <3>1, <4>1, <4>3
    <3> QED BY <1>2, <2>2, <2>5, <3>2, <3>3 DEF Begins, Asks
  <2> QED BY <2>4, <2>5
<1>12. CASE FetchRejected(r)
  <2>1. /\ pc[r] = "fetch" /\ Asks(r) /\ LedgerAsked(r) \notin floor .. tip
        /\ pc'[r] = "skip" /\ page'[r].floor = floor /\ UNCHANGED <<saved, rows, payments>>
    BY <1>1, <1>12 DEF FetchRejected, RetentionFloor, TypeInv, TypeOK, tables, Page
  <2>2. Read(r) = Passed(cur[r]) /\ Read(r)' = {e \in Events : Ledger[e] < floor}
    BY <1>4, <2>1 DEF Read
  <2>3. Passed(cur[r]) \subseteq {e \in Events : Ledger[e] < floor}
    <3>1. CASE cur[r].last_event_id # None
      <4> DEFINE t == cur[r].last_event_id
      <4>1. t \in Token /\ t.ledger <= tip /\ \A e \in Events : e <= t.pos => Ledger[e] <= t.ledger
        BY <1>1, <1>2, <3>1 DEF OnChain, CursorOK, TokenOK
      <4>2. t.ledger \in Nat /\ t.ledger < floor
        BY <1>1, <2>1, <3>1, <4>1 DEF LedgerAsked, Token
      <4>3. Passed(cur[r]) = {e \in Events : e <= t.pos}
        BY <3>1 DEF Passed
      <4> HIDE DEF t
      <4> SUFFICES ASSUME NEW e \in Events, e <= t.pos PROVE Ledger[e] < floor
        BY <4>3
      <4>4. Ledger[e] \in Nat /\ Ledger[e] <= t.ledger
        BY <4>1
      <4> QED BY <1>1, <4>2, <4>4
    <3>2. CASE cur[r].last_event_id = None
      <4>1. start[r] \in Nat /\ start[r] <= tip /\ start[r] < floor
        BY <1>1, <1>2, <2>1, <3>2 DEF Asks, OnChain, LedgerAsked
      <4>2. cur[r].last_ledger <= start[r]
        BY <1>1, <1>2, <2>1, <3>2, <4>1 DEF Begins
      <4> SUFFICES ASSUME NEW e \in Events, Ledger[e] < cur[r].last_ledger PROVE Ledger[e] < floor
        BY <3>2 DEF Passed
      <4>3. Ledger[e] \in Nat
        OBVIOUS
      <4> QED BY <1>1, <4>1, <4>2, <4>3
    <3> QED BY <3>1, <3>2
  <2>4. {e \in Events : Ledger[e] < floor} \subseteq Expendable
    BY DEF Expendable, Pruned
  <2> QED BY <1>6, <1>8, <2>1, <2>2, <2>3, <2>4
<1>13. CASE FetchFailed(r)
  BY <1>5, <1>13 DEF FetchFailed
<1>14. CASE SaveSkip(r)
  <2>1. /\ pc[r] = "skip" /\ pc'[r] = "fetch" /\ start'[r] = page[r].floor /\ saved' = cur'[r]
        /\ cur'[r] = Skipped(cur[r], page[r].floor) /\ UNCHANGED <<rows, payments>>
    BY <1>1, <1>14 DEF SaveSkip, TypeInv, TypeOK
  <2>2. cur'[r].last_ledger = page[r].floor /\ cur'[r].last_event_id = None
    BY <1>1, <2>1 DEF Skipped, Cursor
  <2>3. /\ Read(r) = {e \in Events : Ledger[e] < page[r].floor}
        /\ Read(r)' = Passed(cur[r])' /\ Passed(saved)' = Passed(cur[r])'
    BY <1>1, <2>1 DEF Read, Asks, Passed
  <2>4. Passed(cur[r])' = {e \in Events : Ledger[e] < page[r].floor}
    BY <2>2 DEF Passed
  <2> QED BY <1>7, <1>8, <2>1, <2>3, <2>4
<1>15. ASSUME pc[r] \in {"store", "pay"}, Handled(r), saved' = saved,
              Complete' = Complete \cup {page[r].next}
       PROVE  Feed!Next
  <2> DEFINE e == page[r].next
  <2>1. e \in Events /\ page'[r].next = e + 1 /\ pc'[r] \in {"store", "save"}
    BY <1>1, <1>15 DEF Handled, TypeInv, TypeOK, Page, Shape
  <2>2. Read(r) = {f \in Events : f < e} /\ Read(r)' = {f \in Events : f < e + 1}
    BY <1>15, <2>1 DEF Read
  <2>3. Feed!Deliver(r, e)
    BY <1>1, <1>4, <1>15, <2>1, <2>2, DeliverStep
  <2>4. e \in Feed!Events
    BY <2>1 DEF Events, Feed!Events
  <2> QED BY <2>3, <2>4 DEF Feed!Next
<1>16. CASE StoreEvent(r)
  <2> DEFINE e == page[r].next
  <2>1. /\ pc[r] = "store" /\ e \in Events /\ UNCHANGED <<saved, payments>>
        /\ rows' = [rows EXCEPT ![e] = rows[e] + 1]
        /\ rows \in [Events -> Nat] /\ payments \in [Events -> Nat]
    BY <1>1, <1>16 DEF StoreEvent, TypeInv, TypeOK, Shape
  <2>2. rows'[e] > 0 /\ \A f \in Events \ {e} : rows'[f] = rows[f]
    BY <2>1
  <2>3. CASE e \in Paying
    <3>1. /\ pc'[r] = "pay" /\ page'[r] = page[r]
      BY <1>1, <1>16, <2>3 DEF StoreEvent, TypeInv, TypeOK
    <3>2. Read(r)' = Read(r)
      BY <2>1, <3>1 DEF Read
    <3>3. rows[e] > 0 \/ ~(payments[e] > 0)
      BY <2>1 DEF PaidOnce
    <3>4. Complete' = Complete
      BY <2>1, <2>2, <2>3, <3>3 DEF Complete
    <3>5. Read(r)' = Read(r) \cup {} /\ {} \in SUBSET Expendable
      BY <3>2
    <3> QED BY <1>6, <2>1, <3>1, <3>4, <3>5
  <2>4. CASE e \notin Paying
    <3>1. Handled(r)
      BY <1>16, <2>4 DEF StoreEvent
    <3>2. Complete' = Complete \cup {e}
      BY <2>1, <2>2, <2>4 DEF Complete
    <3> QED BY <1>15, <2>1, <3>1, <3>2
  <2> QED BY <2>3, <2>4
<1>17. CASE RecordPayment(r)
  <2> DEFINE e == page[r].next
  <2>1. /\ pc[r] = "pay" /\ e \in Events /\ UNCHANGED <<saved, rows>> /\ rows[e] > 0 /\ Handled(r)
        /\ payments' = [payments EXCEPT ![e] = Insert(payments[e])]
        /\ payments \in [Events -> Nat]
    BY <1>1, <1>3, <1>17 DEF RecordPayment, TypeInv, TypeOK, Shape, HalfHandled
  <2>2. payments'[e] > 0 /\ \A f \in Events \ {e} : payments'[f] = payments[f]
    BY <2>1 DEF Insert
  <2>3. Complete' = Complete \cup {e}
    BY <2>1, <2>2 DEF Complete
  <2> QED BY <1>15, <2>1, <2>3
<1>18. CASE SaveCursor(r)
  <2> DEFINE id == NextEventId(r)
             upto == {e \in Events : e < page[r].next}
  <2>1. /\ pc[r] = "save" /\ saved' = cur'[r] /\ start'[r] = start[r] /\ page'[r] = page[r]
        /\ cur'[r] = [cur[r] EXCEPT !.last_event_id = id]
        /\ pc'[r] \in {"fetch", "done"} /\ UNCHANGED <<rows, payments>>
    BY <1>1, <1>18 DEF SaveCursor, AfterPage, TypeInv, TypeOK
  <2>2. /\ cur'[r].last_event_id = id /\ cur'[r].last_ledger = cur[r].last_ledger
        /\ start'[r] = None /\ page[r].next = page[r].last + 1
    BY <1>1, <2>1 DEF Cursor, Shape
  <2>3. Read(r) = upto
    BY <2>1 DEF Read
  <2>4. CASE id # None
    <3>1. id.pos + 1 = page[r].next /\ id.pos \in Nat
      <4>1. CASE page[r].cursor # None
        BY <1>1, <2>2, <4>1 DEF NextEventId, Shape
      <4>2. CASE page[r].cursor = None /\ page[r].received
        BY <1>1, <2>2, <4>2 DEF NextEventId
      <4>3. CASE page[r].cursor = None /\ ~page[r].received
        BY <1>1, <1>2, <2>1, <2>4, <4>3 DEF NextEventId, EmptyPage, Token
      <4> QED BY <4>1, <4>2, <4>3
    <3> HIDE DEF id
    <3>2. Passed(cur[r])' = {e \in Events : e <= id.pos}
      BY <2>2, <2>4 DEF Passed
    <3>3. Passed(cur[r])' = upto
      BY <1>1, <3>1, <3>2 DEF Events
    <3>4. Passed(saved)' = upto /\ Read(r)' = upto
      BY <2>1, <2>2, <2>4, <3>3 DEF Read, Asks, Passed
    <3>5. Passed(saved)' \subseteq Read(r) /\ Read(r)' = Read(r)
      BY <2>3, <3>4
    <3>6. Complete' = Complete /\ pc[r] # "start" /\ pc'[r] # "start"
      BY <1>8, <2>1
    <3> QED BY <1>7, <3>5, <3>6
  <2>5. CASE id = None
    <3>1. ~page[r].received /\ cur[r].last_event_id = None
      <4>1. page[r].received =>
              [pos |-> page[r].last, ledger |-> Ledger[page[r].last]] \in Token
        BY <1>1 DEF Shape, Token, Events
      <4> QED BY <1>1, <2>5, <4>1 DEF NextEventId
    <3>2. Passed(cur[r]) \subseteq upto
      BY <1>2, <2>1, <3>1 DEF EmptyPage
    <3> HIDE DEF id
    <3>3. Passed(saved)' = Passed(cur[r])
      BY <2>1, <2>2, <2>5, <3>1 DEF Passed
    <3>4. Read(r)' = upto
      BY <2>1, <2>2, <2>5 DEF Read, Asks
    <3> QED BY <1>7, <1>8, <2>1, <2>3, <3>2, <3>3, <3>4
  <2> QED BY <2>4, <2>5
<1>19. CASE RunAgain(r)
  BY <1>5, <1>19 DEF RunAgain
<1>20. CASE Stop(r)
  BY <1>5, <1>20 DEF Stop
<1> QED BY <1>9, <1>10, <1>11, <1>12, <1>13, <1>14, <1>16, <1>17, <1>18, <1>19, <1>20 DEF Step

LEMMA FeedInvariance == Spec => []FeedInv
BY FeedInvInit, FeedInvStep, Invariance, PTL DEF Spec

(* Every step of the stream is a step of EventFeed or a stutter: events    *)
(* are handed over in order, a restart goes on from what was acknowledged, *)
(* and only what RPC dropped or precedes the stream is passed over.        *)
THEOREM StreamFeeds == Spec => ImplementsFeed
<1> USE IngestorAssumption
<1>1. Init => Feed!Init
  <2> SUFFICES ASSUME Init PROVE Feed!Init
    OBVIOUS
  <2>1. Passed(saved) = {}
    BY DEF Init, Passed, DefaultCursor
  <2>2. Opened = {} /\ \A r \in Runners : Read(r) = {}
    BY DEF Init, Opened, Read
  <2>3. Complete = {}
    BY DEF Init, Complete
  <2>4. Expendable \in SUBSET Events
    BY DEF Expendable, Pruned
  <2> QED BY <2>1, <2>2, <2>3, <2>4 DEF Feed!Init, Feed!Events, Opened, Events
<1>2. ASSUME IInv, PaidOnce, FeedInv, [Next]_vars PROVE [Feed!Next]_(Feed!vars)
  <2>1. /\ TypeInv /\ TypeInv' /\ tip \in Nat /\ floor \in Nat
    BY <1>2, TypeStep DEF IInv, TypeInv, TypeOK
  <2>2. ASSUME NEW r \in Runners, Step(r) \/ Stop(r) PROVE [Feed!Next]_(Feed!vars)
    BY <1>2, <2>1, <2>2, RunnerFeeds
  <2>3. ASSUME UNCHANGED <<rows, payments, saved, pc, cur, start, page>>
        PROVE  /\ Passed(saved)' = Passed(saved) /\ Complete' = Complete
               /\ Opened' = Opened /\ Reads' = Reads
    BY <2>3 DEF Passed, Complete, Opened, Reads, Read, Asks
  <2>4. CASE CloseLedger \/ Prune
    <3>1. /\ UNCHANGED <<rows, payments, saved, pc, cur, start, page>>
          /\ tip <= tip' /\ floor <= floor'
      BY <2>1, <2>4 DEF CloseLedger, Prune, tables
    <3>2. Expendable \subseteq Expendable' /\ Expendable' \in SUBSET Events
      BY <2>1, <3>1, ExpendableStays
    <3>3. Feed!Expire
      BY <2>3, <3>1, <3>2 DEF Feed!Expire, Feed!Events, Events, Reads, Opened
    <3> QED BY <3>3 DEF Feed!Next
  <2>5. CASE UNCHANGED vars
    <3>1. UNCHANGED <<tip, floor, rows, payments, saved, pc, cur, start, page>>
      BY <2>5 DEF vars
    <3>2. Expendable' = Expendable
      BY <3>1 DEF Expendable, Pruned
    <3> QED BY <2>3, <3>1, <3>2 DEF Feed!vars, Reads, Opened
  <2> QED BY <1>2, <2>2, <2>4, <2>5 DEF Next
<1> QED BY <1>1, <1>2, FeedInvariance, Invariance, PaymentsOnce, PTL DEF Spec, ImplementsFeed, Feed!Spec

-----------------------------------------------------------------------------
(* One runner.                                                             *)

(* It went past what is acknowledged, and an empty page is asked for where *)
(* the row says.                                                           *)
Ahead(r) ==
  /\ pc[r] # "start" => Passed(saved) \subseteq Read(r)
  /\ pc[r] = "save" /\ ~page[r].received => Passed(saved) \subseteq Passed(cur[r])

LEMMA AheadStep ==
  ASSUME IInv, PaidOnce, FeedInv, TypeInv', NEW r \in Runners, Runners = {r}, Ahead(r), [Next]_vars
  PROVE  /\ Ahead(r)'
         /\ Passed(saved) \subseteq Passed(saved')
         /\ \A e \in Passed(saved) : rows'[e] = rows[e]
<1>1. /\ TypeInv /\ rows \in [Events -> Nat] /\ cur[r] \in Cursor /\ page[r] \in Page
      /\ cur[r].last_event_id \in Token \cup {None} /\ page[r].next \in Nat /\ Shape(r)
      /\ start[r] \in Nat \cup {None}
  BY DEF IInv, TypeInv, TypeOK, Cursor, Page
<1>2. ASSUME UNCHANGED <<rows, saved, pc, cur, start, page>>
      PROVE  /\ Ahead(r)'
             /\ Passed(saved) \subseteq Passed(saved')
             /\ \A e \in Passed(saved) : rows'[e] = rows[e]
  BY <1>2 DEF Ahead, Read, Asks, Passed
<1>3. CASE CloseLedger \/ Prune \/ UNCHANGED vars
  BY <1>2, <1>3 DEF CloseLedger, Prune, tables, vars
<1>4. CASE Step(r) \/ Stop(r)
  <2>1. Feed!Next /\ r \in Runners
    BY <1>4, RunnerFeeds
  <2>2. pc'[r] # "start" => Passed(saved)' \subseteq Read(r)'
    <3>1. Reads[r] = Read(r) /\ Reads'[r] = Read(r)'
      BY DEF Reads
    <3>2. pc[r] # "start" => r \in Opened
      BY DEF Opened
    <3>3. pc'[r] # "start" => r \in Opened'
      BY DEF Opened
    <3>4. Feed!Next /\ (r \in Opened => Passed(saved) \subseteq Reads[r]) => 
            (r \in Opened' => Passed(saved)' \subseteq Reads'[r])
      <4> SUFFICES ASSUME Feed!Next, r \in Opened => Passed(saved) \subseteq Reads[r], r \in Opened'
                   PROVE  Passed(saved)' \subseteq Reads'[r]
        OBVIOUS
      <4>1. CASE Feed!Expire
        BY <4>1 DEF Feed!Expire, Reads, Opened
      <4>2. CASE Feed!Open(r)
        BY <4>2 DEF Feed!Open, Reads, Opened
      <4>3. CASE Feed!Skip(r)
        BY <4>3 DEF Feed!Skip, Reads, Opened
      <4>4. CASE Feed!Ack(r)
        BY <4>4 DEF Feed!Ack, Reads, Opened
      <4>5. CASE Feed!Close(r)
        BY <4>5 DEF Feed!Close, Reads, Opened
      <4>6. ASSUME NEW e \in Feed!Events, Feed!Deliver(r, e)
            PROVE  Passed(saved)' \subseteq Reads'[r]
        BY <4>6 DEF Feed!Deliver, Reads, Opened
      <4> QED BY <4>1, <4>2, <4>3, <4>4, <4>5, <4>6 DEF Feed!Next
    <3> QED BY <2>1, <3>1, <3>2, <3>3, <3>4 DEF Ahead, Opened
  <2>3. CASE FetchPage(r)
    <3>1. pc[r] = "fetch" /\ Asks(r) /\ UNCHANGED <<rows, saved>> /\ cur'[r] = cur[r]
      BY <2>3 DEF FetchPage, tables
    <3>2. Passed(saved) \subseteq Passed(cur[r])
      BY <3>1 DEF Ahead, Read
    <3> QED BY <2>2, <3>1, <3>2 DEF Ahead, Passed
  <2>4. CASE StoreEvent(r)
    <3> DEFINE e == page[r].next
    <3>1. /\ pc[r] = "store" /\ e \in Events /\ page[r].received /\ saved' = saved
          /\ rows' = [rows EXCEPT ![e] = @ + 1]
          /\ page'[r].received = page[r].received
      BY <1>1, <2>4 DEF StoreEvent, Handled, TypeInv, TypeOK, Shape, Page
    <3>2. \A f \in Passed(saved) : f \in Events /\ f < e
      BY <3>1 DEF Ahead, Read
    <3>3. \A f \in Passed(saved) : f # e
      BY <1>1, <3>2 DEF Events
    <3>4. \A f \in Passed(saved) : rows'[f] = rows[f]
      BY <1>1, <3>1, <3>2, <3>3
    <3> QED BY <2>2, <3>1, <3>4 DEF Ahead
  <2>5. CASE SaveSkip(r)
    <3>1. /\ pc[r] = "skip" /\ pc'[r] = "fetch" /\ saved' = cur'[r] /\ rows' = rows
          /\ cur'[r] = Skipped(cur[r], page[r].floor)
      BY <1>1, <2>5 DEF SaveSkip, TypeInv, TypeOK
    <3>2. cur'[r].last_ledger = page[r].floor /\ cur'[r].last_event_id = None
      BY <1>1, <3>1 DEF Skipped, Cursor
    <3>3. Passed(saved') = Read(r)
      BY <3>1, <3>2 DEF Passed, Read
    <3> QED BY <2>2, <3>1, <3>3 DEF Ahead
  <2>6. CASE SaveCursor(r)
    <3> DEFINE id == NextEventId(r)
    <3>1. /\ pc[r] = "save" /\ pc'[r] # "save" /\ saved' = cur'[r] /\ rows' = rows
          /\ cur'[r] = [cur[r] EXCEPT !.last_event_id = id]
          /\ page[r].next = page[r].last + 1 /\ page[r].last \in Nat
      BY <1>1, <2>6 DEF SaveCursor, AfterPage, TypeInv, TypeOK, Shape, Page
    <3>2. saved'.last_event_id = id /\ saved'.last_ledger = cur[r].last_ledger
      BY <1>1, <3>1 DEF Cursor
    <3>3. Passed(saved) \subseteq Read(r) /\ Read(r) = {e \in Events : e < page[r].next}
      BY <3>1 DEF Ahead, Read
    <3>4. CASE page[r].cursor # None \/ page[r].received
      <4>1. id # None /\ id.pos = page[r].last
        <5>1. CASE page[r].cursor # None
          BY <1>1, <5>1 DEF NextEventId, Shape
        <5>2. CASE page[r].cursor = None /\ page[r].received
          <6>1. [pos |-> page[r].last, ledger |-> Ledger[page[r].last]] \in Token
            BY <1>1, <5>2, IngestorAssumption DEF Shape, Token, Events
          <6>2. id = [pos |-> page[r].last, ledger |-> Ledger[page[r].last]]
            BY <5>2 DEF NextEventId
          <6> QED BY <6>1, <6>2, IngestorAssumption
        <5> QED BY <3>4, <5>1, <5>2
      <4> HIDE DEF id
      <4>2. Passed(saved') = {e \in Events : e <= page[r].last}
        BY <3>2, <4>1 DEF Passed
      <4>3. Passed(saved) \subseteq Passed(saved')
        BY <3>1, <3>3, <4>2 DEF Events
      <4> QED BY <2>2, <3>1, <4>3 DEF Ahead
    <3>5. CASE page[r].cursor = None /\ ~page[r].received
      <4>1. id = cur[r].last_event_id
        BY <3>5 DEF NextEventId
      <4> HIDE DEF id
      <4>2. Passed(saved') = Passed(cur[r])
        BY <3>2, <4>1 DEF Passed
      <4>3. Passed(saved) \subseteq Passed(saved')
        BY <3>1, <3>5, <4>2 DEF Ahead
      <4> QED BY <2>2, <3>1, <4>3 DEF Ahead
    <3> QED BY <3>4, <3>5
  <2>7. CASE RecordPayment(r)
    <3>1. /\ pc[r] = "pay" /\ page[r].received /\ UNCHANGED <<rows, saved>>
          /\ page'[r].received = page[r].received
      BY <1>1, <2>7 DEF RecordPayment, Handled, TypeInv, TypeOK, Shape, Page
    <3> QED BY <2>2, <3>1 DEF Ahead
  <2>8. CASE RestoreCursor(r) \/ LatestLedger(r) \/ FetchRejected(r) \/ FetchFailed(r)
             \/ RunAgain(r) \/ Stop(r)
    <3>1. pc'[r] # "save" /\ UNCHANGED <<rows, saved>>
      BY <1>1, <2>8 DEF RestoreCursor, LatestLedger, BeginAt, FetchRejected, FetchFailed, RunAgain,
                        Stop, Fresh, tables, TypeInv, TypeOK
    <3> QED BY <2>2, <3>1 DEF Ahead
  <2> QED BY <1>4, <2>3, <2>4, <2>5, <2>6, <2>7, <2>8 DEF Step
<1> QED BY <1>3, <1>4 DEF Next

LEMMA AheadAlways ==
  ASSUME NEW r \in Runners, Runners = {r}
  PROVE  Spec => [](IInv /\ PaidOnce /\ FeedInv /\ TypeInv /\ Ahead(r))
<1>1. Init => Ahead(r)
  BY DEF Init, Ahead
<1>2. IInv /\ PaidOnce /\ FeedInv /\ TypeInv' /\ Ahead(r) /\ [Next]_vars => Ahead(r)'
  BY AheadStep
<1>3. IInv => TypeInv
  BY DEF IInv
<1> QED BY <1>1, <1>2, <1>3, Invariance, FeedInvariance, PaymentsOnce, PTL DEF Spec

(* With one runner the row never moves back over an event, also when it    *)
(* jumps to the retention floor.                                           *)
THEOREM CursorForward ==
  ASSUME NEW r \in Runners, Runners = {r}
  PROVE  Spec => CursorNeverBack
<1>1. ASSUME IInv, PaidOnce, FeedInv, TypeInv', Ahead(r), [Next]_vars
      PROVE  [Passed(saved) \subseteq Passed(saved')]_vars
  BY <1>1, AheadStep
<1> QED BY <1>1, AheadAlways, PTL DEF Spec, CursorNeverBack

(* With one runner nothing behind the row is stored again: a restart       *)
(* replays the page in hand and nothing older.                             *)
THEOREM PageReplayedOnly ==
  ASSUME NEW r \in Runners, Runners = {r}
  PROVE  Spec => NoReplayBehindCursor
<1>1. ASSUME IInv, PaidOnce, FeedInv, TypeInv', Ahead(r), [Next]_vars
      PROVE  [\A e \in Passed(saved) : rows'[e] = rows[e]]_vars
  BY <1>1, AheadStep
<1> QED BY <1>1, AheadAlways, PTL DEF Spec, NoReplayBehindCursor

-----------------------------------------------------------------------------
(* Where one runner's reading began.                                       *)

(* Once the row says something, the cursor in hand began where the row did, *)
(* and no ledger is asked of RPC's tip; a floor to skip to is a real one.  *)
Begun(r) ==
  /\ floor > 0
  /\ pc[r] = "skip" => page[r].floor > 0
  /\ ~Blank(saved) /\ pc[r] # "start" =>
       pc[r] # "tip" /\ cur[r].from = saved.from /\ ~Blank(cur[r])

LEMMA BegunStep ==
  ASSUME NEW r \in Runners, Runners = {r}, TypeInv, TypeInv', Begun(r), [Next]_vars
  PROVE  /\ Begun(r)'
         /\ ~Blank(saved) => ~Blank(saved') /\ saved'.from = saved.from
<1> DEFINE Goal == /\ Begun(r)'
                   /\ ~Blank(saved) => ~Blank(saved') /\ saved'.from = saved.from
<1>1. /\ pc \in [Runners -> {"start", "tip", "fetch", "skip", "store", "pay", "save", "done"}]
      /\ cur \in [Runners -> Cursor] /\ page \in [Runners -> Page] /\ saved \in Cursor
      /\ tip \in Nat /\ floor \in Nat /\ None \notin Nat /\ None \notin Token
  BY IngestorAssumption DEF TypeInv, TypeOK
<1>2. CASE UNCHANGED vars
  BY <1>2 DEF vars, Begun, Blank
<1>3. CASE CloseLedger \/ Prune
  BY <1>1, <1>3 DEF CloseLedger, Prune, tables, Begun, Blank
<1>4. ASSUME Step(r) \/ Stop(r)
      PROVE  Goal
  <2>1. CASE RestoreCursor(r)
    <3>1. CASE ~Blank(saved)
      <4>1. /\ pc[r] = "start" /\ pc'[r] = "fetch" /\ cur'[r] = saved
            /\ saved' = saved /\ floor' = floor
        BY <1>1, <2>1, <3>1 DEF RestoreCursor, BeginAt, Blank, chain, tables, Cursor
      <4> QED BY <3>1, <4>1 DEF Begun, Blank
    <3>2. CASE Blank(saved)
      <4>1. pc'[r] # "skip" /\ saved' = saved /\ floor' = floor
        BY <1>1, <2>1 DEF RestoreCursor, BeginAt, chain, tables
      <4> QED BY <3>2, <4>1 DEF Begun, Blank
    <3> QED BY <3>1, <3>2
  <2>2. CASE LatestLedger(r)
    <3>1. Blank(saved)
      BY <2>2 DEF LatestLedger, Begun
    <3>2. pc'[r] # "skip" /\ saved' = saved /\ floor' = floor
      BY <1>1, <2>2 DEF LatestLedger, BeginAt, chain, tables
    <3> QED BY <3>1, <3>2 DEF Begun, Blank
  <2>3. CASE FetchPage(r)
    <3>1. /\ pc[r] = "fetch" /\ pc'[r] \in {"store", "save"}
          /\ saved' = saved /\ cur' = cur /\ floor' = floor
      BY <1>1, <2>3 DEF FetchPage, chain, tables
    <3> QED BY <3>1 DEF Begun, Blank
  <2>4. CASE FetchRejected(r)
    <3>1. /\ pc[r] = "fetch" /\ pc'[r] = "skip" /\ page'[r].floor = floor
          /\ saved' = saved /\ cur' = cur /\ floor' = floor
      BY <1>1, <2>4 DEF FetchRejected, RetentionFloor, chain, tables, Page
    <3> QED BY <3>1 DEF Begun, Blank
  <2>5. CASE FetchFailed(r) \/ RunAgain(r) \/ Stop(r)
    <3>1. pc'[r] = "start" /\ saved' = saved /\ floor' = floor
      BY <1>1, <2>5 DEF FetchFailed, RunAgain, Stop, Fresh, chain, tables
    <3> QED BY <3>1 DEF Begun, Blank
  <2>6. CASE SaveSkip(r)
    <3>1. /\ pc[r] = "skip" /\ pc'[r] = "fetch" /\ saved' = cur'[r] /\ floor' = floor
          /\ cur'[r] = Skipped(cur[r], page[r].floor)
      BY <1>1, <2>6 DEF SaveSkip, chain
    <3>2. cur'[r].last_ledger = page[r].floor /\ cur'[r].from = cur[r].from
      BY <1>1, <3>1 DEF Skipped, Cursor
    <3> QED BY <3>1, <3>2 DEF Begun, Blank
  <2>7. CASE StoreEvent(r)
    <3> DEFINE e == page[r].next
    <3>1. /\ pc[r] = "store" /\ e \in Events /\ saved' = saved /\ floor' = floor
          /\ pc'[r] \in {"store", "pay", "save"}
          /\ cur'[r] = [cur[r] EXCEPT !.last_ledger = Ledger[e]]
      BY <1>1, <2>7 DEF StoreEvent, Handled, TypeInv, TypeOK, Shape, Page, chain
    <3>2. cur'[r].last_ledger = Ledger[e] /\ cur'[r].from = cur[r].from
      BY <1>1, <3>1 DEF Cursor
    <3>3. Ledger[e] \in Nat \ {0}
      BY <3>1, IngestorAssumption
    <3> QED BY <3>1, <3>2, <3>3 DEF Begun, Blank
  <2>8. CASE RecordPayment(r)
    <3>1. /\ pc[r] = "pay" /\ pc'[r] \in {"store", "save"}
          /\ saved' = saved /\ cur' = cur /\ floor' = floor
      BY <1>1, <2>8 DEF RecordPayment, Handled, chain
    <3> QED BY <3>1 DEF Begun, Blank
  <2>9. CASE SaveCursor(r)
    <3> DEFINE id == NextEventId(r)
    <3>1. /\ pc[r] = "save" /\ pc'[r] \in {"done", "fetch"} /\ saved' = cur'[r]
          /\ floor' = floor /\ cur'[r] = [cur[r] EXCEPT !.last_event_id = id]
      BY <1>1, <2>9 DEF SaveCursor, AfterPage, chain
    <3>2. id # None \/ id = cur[r].last_event_id
      <4>1. CASE page[r].cursor = None /\ page[r].received
        <5>1. page[r].last \in Events
          BY <1>1, <3>1, <4>1 DEF TypeInv, Shape, Page, Events
        <5>2. [pos |-> page[r].last, ledger |-> Ledger[page[r].last]] \in Token
          BY <5>1, IngestorAssumption DEF Token, Events
        <5> QED BY <1>1, <4>1, <5>2 DEF NextEventId
      <4> QED BY <4>1 DEF NextEventId
    <3> HIDE DEF id
    <3>3. /\ cur'[r].last_event_id = id /\ cur'[r].from = cur[r].from
          /\ cur'[r].last_ledger = cur[r].last_ledger
      BY <1>1, <3>1 DEF Cursor
    <3> QED BY <3>1, <3>2, <3>3 DEF Begun, Blank
  <2> QED BY <1>4, <2>1, <2>2, <2>3, <2>4, <2>5, <2>6, <2>7, <2>8, <2>9 DEF Step
<1> QED BY <1>2, <1>3, <1>4 DEF Next

(* With one runner, where the reading began is settled by the first save   *)
(* that says anything: no crash or restart begins it later, though a       *)
(* contract's stream with an empty row asks for the tip again.             *)
THEOREM ReadingStays ==
  ASSUME NEW r \in Runners, Runners = {r}
  PROVE  Spec => ReadingKept
<1>1. Init => Begun(r)
  BY DEF Init, Begun, Blank, DefaultCursor
<1>2. ASSUME TypeInv, TypeInv', Begun(r), [Next]_vars
      PROVE  /\ Begun(r)'
             /\ [~Blank(saved) => ~Blank(saved') /\ saved'.from = saved.from]_vars
  BY <1>2, BegunStep
<1>3. IInv => TypeInv
  BY DEF IInv
<1> QED BY <1>1, <1>2, <1>3, Invariance, PTL DEF Spec, ReadingKept

-----------------------------------------------------------------------------
(* What a feed promises, and therefore the stream.                         *)

(* A reader that is running went past nothing that is still to be handed   *)
(* over.                                                                   *)
FeedReads == \A r \in Opened : Reads[r] \subseteq Complete \cup Expendable

LEMMA FeedKeepsPromise == Feed!Spec => []Feed!AckedIsDelivered
<1> DEFINE Promise == Feed!AckedIsDelivered /\ FeedReads
<1>1. Feed!Init => Promise
  BY DEF Feed!Init, Feed!AckedIsDelivered, FeedReads, Opened
<1>2. Promise /\ [Feed!Next]_(Feed!vars) => Promise'
  <2> SUFFICES ASSUME Promise, [Feed!Next]_(Feed!vars) PROVE Promise'
    OBVIOUS
  <2> USE DEF Feed!AckedIsDelivered, FeedReads, Opened, Reads
  <2>1. CASE Feed!Expire
    BY <2>1 DEF Feed!Expire
  <2>2. ASSUME NEW r \in Runners, Feed!Open(r) PROVE Promise'
    BY <2>2 DEF Feed!Open
  <2>3. ASSUME NEW r \in Runners, Feed!Skip(r) PROVE Promise'
    BY <2>3 DEF Feed!Skip
  <2>4. ASSUME NEW r \in Runners, Feed!Ack(r) PROVE Promise'
    BY <2>4 DEF Feed!Ack
  <2>5. ASSUME NEW r \in Runners, Feed!Close(r) PROVE Promise'
    BY <2>5 DEF Feed!Close
  <2>6. ASSUME NEW r \in Runners, NEW e \in Feed!Events, Feed!Deliver(r, e) PROVE Promise'
    BY <2>6 DEF Feed!Deliver
  <2>7. CASE UNCHANGED Feed!vars
    BY <2>7 DEF Feed!vars
  <2> QED BY <2>1, <2>2, <2>3, <2>4, <2>5, <2>6, <2>7 DEF Feed!Next
<1> QED BY <1>1, <1>2, PTL DEF Feed!Spec

(* What the saved cursor covers was handled by every sink, pruned, or      *)
(* before the stream's first ledger, whatever reading the cursor's row     *)
(* belongs to: with an account's first ledger, nothing after it is lost.   *)
THEOREM AckedHandled == Spec => []Feed!AckedIsDelivered
BY StreamFeeds, FeedKeepsPromise, PTL DEF ImplementsFeed
=============================================================================
