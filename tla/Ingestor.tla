------------------------------ MODULE Ingestor ------------------------------
(***************************************************************************)
(* One ingestion stream: Ingestor::run of core/src/lib.rs with the RPC it  *)
(* reads, the sinks it feeds and the cursor row it saves.                  *)
(*                                                                         *)
(* Several processes ("runners") may follow the same stream at once: a     *)
(* supervisor task, `stardex index`, a scheduled `run --once`.  They share *)
(* the database (rows, payments, saved) and nothing else.  Every await of  *)
(* the loop is a step of its own, and a runner may stop before any of them *)
(* (a crash, or an error that ends run): what is in memory is lost and a   *)
(* fresh Ingestor starts over.                                             *)
(*                                                                         *)
(* An event is its number in the stream.  A transport error that is        *)
(* retried (fetch_page_with_retry) changes nothing and is a stutter.       *)
(*                                                                         *)
(* A definition marked "mutant" is no part of the model: it is a plausible *)
(* slip in the definition after it, and the project checks that putting it *)
(* there violates a property.                                              *)
(***************************************************************************)
EXTENDS Integers

CONSTANTS NumEvents,    \* events of this stream on the chain
          Ledger,       \* the ledger each event is in
          Paying,       \* events the payment sink records (none on a contract stream)
          StartLedger,  \* StreamSpec::start_ledger, None on a contract stream
          PageLimit,    \* DEFAULT_PAGE_LIMIT
          PageCursors,  \* may a page carry a cursor (TRUE), omit it (FALSE)
          Runners,      \* processes following the stream
          OnceRunners,  \* those of them that run with --once
          InitTip,      \* the chain's tip when the model starts
          MaxLedger,    \* bound: the tip stops here
          MaxRestarts,  \* bound: crashes and failures
          None

Events == 1 .. NumEvents

(* A position in the stream as RPC encodes it: every event up to pos, and  *)
(* every ledger before `ledger`, is behind it.                             *)
Token == [pos : 0 .. NumEvents, ledger : Nat]

ASSUME IngestorAssumption ==
  /\ NumEvents \in Nat
  /\ Ledger \in [Events -> Nat \ {0}]
  /\ \A e, f \in Events : e <= f => Ledger[e] <= Ledger[f]
  /\ Paying \subseteq Events
  /\ PageLimit \in Nat \ {0}
  /\ PageCursors \in SUBSET BOOLEAN
  /\ OnceRunners \subseteq Runners
  /\ InitTip \in Nat \ {0}
  /\ MaxLedger \in Nat
  /\ MaxRestarts \in Nat
  /\ None \notin Nat
  /\ None \notin Token
  \* accounts_add records the tip of the moment as the account's first ledger
  /\ StartLedger \in (1 .. InitTip) \cup {None}

VARIABLES
  tip, floor,      \* the ledgers RPC serves are floor..tip
  rows,            \* rows of `events` per event
  payments,        \* rows of `payments` per event
  saved,           \* the stream's row of `cursors`
  pc, cur, start, page,  \* per runner: where run is, self.cursor, start_ledger, the page in hand
  restarts         \* counts against MaxRestarts

chain == <<tip, floor>>
tables == <<rows, payments, saved>>
vars == <<tip, floor, rows, payments, saved, pc, cur, start, page, restarts>>

(* Cursor.  `from` is history: the ledger this cursor's reading began at.  *)
(* A missing row and a row that says nothing are alike to run.             *)
Cursor == [last_ledger : Nat, last_event_id : Token \cup {None}, from : Nat]
DefaultCursor == [last_ledger |-> 0, last_event_id |-> None, from |-> 0]
Blank(c) == c.last_event_id = None /\ c.last_ledger = 0

(* GetEventsResult: events next..last are still to be handled; or, after a *)
(* rejection, the floor its message names.                                 *)
Page == [next : 1 .. NumEvents + 1, last : 0 .. NumEvents, received : BOOLEAN,
         cursor : Token \cup {None}, latest_ledger : Nat, floor : Nat]
NoPage == [next |-> 1, last |-> 0, received |-> FALSE, cursor |-> None,
           latest_ledger |-> 0, floor |-> 0]

TypeOK ==
  /\ tip \in Nat /\ floor \in Nat
  /\ rows \in [Events -> Nat]
  /\ payments \in [Events -> Nat]
  /\ saved \in Cursor
  /\ pc \in [Runners -> {"start", "tip", "fetch", "skip", "store", "pay", "save", "done"}]
  /\ cur \in [Runners -> Cursor]
  /\ start \in [Runners -> Nat \cup {None}]
  /\ page \in [Runners -> Page]
  /\ restarts \in Nat

Init ==
  /\ tip = InitTip /\ floor = 1
  /\ rows = [e \in Events |-> 0]
  /\ payments = [e \in Events |-> 0]
  /\ saved = DefaultCursor
  /\ pc = [r \in Runners |-> "start"]
  /\ cur = [r \in Runners |-> DefaultCursor]
  /\ start = [r \in Runners |-> None]
  /\ page = [r \in Runners |-> NoPage]
  /\ restarts = 0

-----------------------------------------------------------------------------
(* The chain and the RPC node's retention window.                          *)

CloseLedger == /\ tip < MaxLedger
               /\ tip' = tip + 1
               /\ UNCHANGED <<floor, tables, pc, cur, start, page, restarts>>

Prune == /\ floor < tip
         /\ floor' = floor + 1
         /\ UNCHANGED <<tip, tables, pc, cur, start, page, restarts>>

-----------------------------------------------------------------------------
(* A fresh Ingestor: nothing of the last one's memory is left.             *)
Fresh(r) ==
  /\ pc' = [pc EXCEPT ![r] = "start"]
  /\ cur' = [cur EXCEPT ![r] = DefaultCursor]
  /\ start' = [start EXCEPT ![r] = None]
  /\ page' = [page EXCEPT ![r] = NoPage]
  /\ UNCHANGED <<chain, tables>>

(* Choosing where to begin.                                                *)

BeginAt(r, cursor, ledger) ==
  /\ cur' = [cur EXCEPT ![r] = cursor]
  /\ start' = [start EXCEPT ![r] = ledger]
  /\ pc' = [pc EXCEPT ![r] = "fetch"]
  /\ UNCHANGED <<chain, tables, page, restarts>>

(* mutant: the saved event id is ignored, reading restarts at its ledger *)
RestoreCursorByLedger(r) ==
  /\ pc[r] = "start"
  /\ \/ /\ saved.last_ledger > 0
        /\ BeginAt(r, [saved EXCEPT !.last_event_id = None], saved.last_ledger)
     \/ /\ saved.last_ledger = 0
        /\ StartLedger # None
        /\ BeginAt(r, [saved EXCEPT !.from = StartLedger], StartLedger)
     \/ /\ saved.last_ledger = 0
        /\ StartLedger = None
        /\ cur' = [cur EXCEPT ![r] = saved]
        /\ pc' = [pc EXCEPT ![r] = "tip"]
        /\ UNCHANGED <<chain, tables, start, page, restarts>>

(* mutant: a saved cursor without an event id counts as none *)
RestoreCursorById(r) ==
  /\ pc[r] = "start"
  /\ \/ /\ saved.last_event_id # None
        /\ BeginAt(r, saved, None)
     \/ /\ saved.last_event_id = None
        /\ StartLedger # None
        /\ BeginAt(r, [saved EXCEPT !.from = StartLedger], StartLedger)
     \/ /\ saved.last_event_id = None
        /\ StartLedger = None
        /\ cur' = [cur EXCEPT ![r] = saved]
        /\ pc' = [pc EXCEPT ![r] = "tip"]
        /\ UNCHANGED <<chain, tables, start, page, restarts>>

(* restore_cursor, then: the saved event id, or the saved ledger, or the   *)
(* ledger the stream asks for; failing all three the tip is needed.        *)
RestoreCursor(r) ==
  /\ pc[r] = "start"
  /\ \/ /\ saved.last_event_id # None
        /\ BeginAt(r, saved, None)
     \/ /\ saved.last_event_id = None
        /\ saved.last_ledger > 0
        /\ BeginAt(r, saved, saved.last_ledger)
     \/ /\ Blank(saved)
        /\ StartLedger # None
        /\ BeginAt(r, [saved EXCEPT !.from = StartLedger], StartLedger)
     \/ /\ Blank(saved)
        /\ StartLedger = None
        /\ cur' = [cur EXCEPT ![r] = saved]
        /\ pc' = [pc EXCEPT ![r] = "tip"]
        /\ UNCHANGED <<chain, tables, start, page, restarts>>

Sequence == tip

LatestLedger(r) ==
  /\ pc[r] = "tip"
  /\ BeginAt(r, [cur[r] EXCEPT !.from = tip], Sequence)

-----------------------------------------------------------------------------
(* getEvents: the cursor wins over start_ledger; a request before the      *)
(* window is rejected with the window in the message.                      *)

Asks(r) == cur[r].last_event_id # None \/ start[r] # None

LedgerAsked(r) == IF cur[r].last_event_id # None
                    THEN cur[r].last_event_id.ledger
                    ELSE start[r]

FirstAsked(r, lo) == IF cur[r].last_event_id # None
                       THEN lo = cur[r].last_event_id.pos + 1
                       ELSE \A e \in Events : e < lo <=> Ledger[e] < start[r]

Full(lo, hi) == hi - lo + 1 = PageLimit

(* lo..hi is the page of events RPC answers with. *)
Serves(lo, hi) ==
  /\ lo <= hi + 1
  /\ hi - lo < PageLimit
  /\ \A e \in lo .. hi : Ledger[e] <= tip
  /\ Full(lo, hi) \/ \A e \in Events : e > hi => Ledger[e] > tip

PageCursor(lo, hi) ==
  [pos |-> hi, ledger |-> IF Full(lo, hi) THEN Ledger[hi] ELSE tip]

FetchPage(r) ==
  /\ pc[r] = "fetch"
  /\ Asks(r)
  /\ LedgerAsked(r) \in floor .. tip
  /\ \E lo \in 1 .. NumEvents + 1, hi \in 0 .. NumEvents, carries \in PageCursors :
       /\ FirstAsked(r, lo)
       /\ Serves(lo, hi)
       /\ page' = [page EXCEPT ![r] =
                     [next |-> lo, last |-> hi, received |-> lo <= hi,
                      cursor |-> IF carries THEN PageCursor(lo, hi) ELSE None,
                      latest_ledger |-> tip, floor |-> 0]]
       /\ pc' = [pc EXCEPT ![r] = IF lo <= hi THEN "store" ELSE "save"]
  /\ start' = [start EXCEPT ![r] = None]
  /\ UNCHANGED <<chain, tables, cur, restarts>>

(* mutant: the wrong end of the window is taken from the message *)
RetentionTip == tip

RetentionFloor == floor

(* retention_floor found the window in the error. *)
FetchRejected(r) ==
  /\ pc[r] = "fetch"
  /\ Asks(r)
  /\ LedgerAsked(r) \notin floor .. tip
  /\ page' = [page EXCEPT ![r].floor = RetentionFloor]
  /\ pc' = [pc EXCEPT ![r] = "skip"]
  /\ UNCHANGED <<chain, tables, cur, start, restarts>>

(* Neither start_ledger nor a cursor: RPC answers with another error, run  *)
(* returns it, and the stream starts over.                                 *)
FetchFailed(r) ==
  /\ pc[r] = "fetch"
  /\ ~Asks(r)
  /\ Fresh(r)
  /\ UNCHANGED restarts

(* mutant: the stale ledger stays in the cursor *)
SkippedStale(c, ledger) == [c EXCEPT !.last_event_id = None]

Skipped(c, ledger) == [c EXCEPT !.last_ledger = ledger, !.last_event_id = None]

SaveSkip(r) ==
  /\ pc[r] = "skip"
  /\ cur' = [cur EXCEPT ![r] = Skipped(@, page[r].floor)]
  /\ saved' = cur'[r]
  /\ start' = [start EXCEPT ![r] = page[r].floor]
  /\ pc' = [pc EXCEPT ![r] = "fetch"]
  /\ UNCHANGED <<chain, rows, payments, page, restarts>>

-----------------------------------------------------------------------------
(* The page, event by event: TeeSink stores the decoded row, then the      *)
(* payment.                                                                *)

(* The loop over page.events, done with one more event. *)
Handled(r) ==
  /\ page' = [page EXCEPT ![r].next = @ + 1]
  /\ pc' = [pc EXCEPT ![r] = IF page[r].next = page[r].last THEN "save" ELSE "store"]

StoreEvent(r) ==
  LET e == page[r].next IN
  /\ pc[r] = "store"
  /\ cur' = [cur EXCEPT ![r].last_ledger = Ledger[e]]
  /\ rows' = [rows EXCEPT ![e] = @ + 1]
  /\ IF e \in Paying
       THEN pc' = [pc EXCEPT ![r] = "pay"] /\ page' = page
       ELSE Handled(r)
  /\ UNCHANGED <<chain, payments, saved, start, restarts>>

(* mutant: the insert has no conflict clause *)
InsertAgain(n) == n + 1

(* insert .. on conflict (event_id) do nothing *)
Insert(n) == IF n = 0 THEN 1 ELSE n

RecordPayment(r) ==
  /\ pc[r] = "pay"
  /\ payments' = [payments EXCEPT ![page[r].next] = Insert(@)]
  /\ Handled(r)
  /\ UNCHANGED <<chain, rows, saved, cur, start, restarts>>

(* mutant: the id to go on from, as if RPC had answered one page further *)
NextEventIdAhead(r) ==
  IF page[r].received
    THEN [pos |-> page[r].last + PageLimit, ledger |-> Ledger[page[r].last]]
    ELSE cur[r].last_event_id

(* page.cursor.or(last_event_id), kept when the page had neither. *)
NextEventId(r) ==
  IF page[r].cursor # None THEN page[r].cursor
  ELSE IF page[r].received
    THEN [pos |-> page[r].last, ledger |-> Ledger[page[r].last]]
    ELSE cur[r].last_event_id

(* mutant: a --once run ends after any page *)
AfterPageOne(r) == IF r \in OnceRunners THEN "done" ELSE "fetch"

(* An empty page ends a --once run; otherwise run goes on polling. *)
AfterPage(r) == IF r \in OnceRunners /\ ~page[r].received THEN "done" ELSE "fetch"

SaveCursor(r) ==
  /\ pc[r] = "save"
  /\ cur' = [cur EXCEPT ![r].last_event_id = NextEventId(r)]
  /\ saved' = cur'[r]
  /\ pc' = [pc EXCEPT ![r] = AfterPage(r)]
  /\ UNCHANGED <<chain, rows, payments, start, page, restarts>>

-----------------------------------------------------------------------------
(* The process crashes, or an error of the store, a sink or getLatestLedger *)
(* ends run: in either case a fresh Ingestor follows.                       *)
Stop(r) ==
  /\ restarts < MaxRestarts
  /\ restarts' = restarts + 1
  /\ pc[r] \notin {"start", "done"}
  /\ Fresh(r)

(* The next scheduled `run --once`. *)
RunAgain(r) ==
  /\ pc[r] = "done"
  /\ Fresh(r)
  /\ UNCHANGED restarts

Step(r) == \/ RestoreCursor(r) \/ LatestLedger(r)
           \/ FetchPage(r) \/ FetchRejected(r) \/ FetchFailed(r) \/ SaveSkip(r)
           \/ StoreEvent(r) \/ RecordPayment(r) \/ SaveCursor(r)
           \/ RunAgain(r)

Next == \/ CloseLedger
        \/ Prune
        \/ \E r \in Runners : Step(r) \/ Stop(r)

Spec == Init /\ [][Next]_vars

(* The runtime keeps polling every runner and the chain keeps closing      *)
(* ledgers; pruning, crashes and failures need never happen.               *)
Fairness == /\ WF_vars(CloseLedger)
            /\ \A r \in Runners : WF_vars(Step(r))

LiveSpec == Spec /\ Fairness

-----------------------------------------------------------------------------
(* Properties.                                                             *)

(* The events a cursor says are behind it. *)
Passed(c) == {e \in Events : IF c.last_event_id # None
                               THEN e <= c.last_event_id.pos
                               ELSE Ledger[e] < c.last_ledger}

(* Events every sink of the stream has handled, and events RPC dropped. *)
Complete == {e \in Events : rows[e] > 0 /\ (e \in Paying => payments[e] > 0)}
Pruned == {e \in Events : Ledger[e] < floor}

(* Whatever crashes, fails, is pruned or runs beside it, the saved cursor  *)
(* never covers an event of its own reading that some sink has not         *)
(* handled, unless RPC no longer serves that event.                        *)
NothingLost ==
  \A e \in Passed(saved) : Ledger[e] >= saved.from => e \in Complete \cup Pruned

(* A payment is recorded once per event however often its page is          *)
(* replayed and by however many runners, and never without its event row.  *)
PaidOnce ==
  \A e \in Events : payments[e] <= IF e \in Paying /\ rows[e] > 0 THEN 1 ELSE 0

(* `--once` returns Ok only when everything on the chain at its last fetch *)
(* is handled (or pruned).                                                 *)
CaughtUp ==
  \A r \in Runners : pc[r] = "done" =>
    \A e \in Events :
      Ledger[e] \in cur[r].from .. page[r].latest_ledger => e \in Complete \cup Pruned

(* With one runner, the saved cursor never moves back over an event, also  *)
(* when it jumps to the retention floor.                                   *)
CursorNeverBack == [][Passed(saved) \subseteq Passed(saved')]_vars

(* With one runner, an event behind the saved cursor is never stored again: *)
(* a restart replays the page in hand and nothing older.                    *)
NoReplayBehindCursor == [][\A e \in Passed(saved) : rows'[e] = rows[e]]_vars

(* With one runner, where the reading began is settled by the first save   *)
(* that says anything: no restart begins it later, though a contract's     *)
(* stream would ask for the tip again.                                     *)
ReadingKept == [][~Blank(saved) => ~Blank(saved') /\ saved'.from = saved.from]_vars

(* Every event of the stream ends up handled by every sink, or pruned      *)
(* before the stream got to it.                                            *)
EveryEventHandled ==
  \A e \in Events :
    Ledger[e] \in StartLedger .. MaxLedger => <>(e \in Complete \cup Pruned)

-----------------------------------------------------------------------------
(* Refinement: this stream is an EventFeed.                                *)

(* A runner went past everything before the page it holds; before its      *)
(* first page, past what its cursor says.                                  *)
Read(r) ==
  CASE pc[r] \in {"start", "tip"} -> {}
    [] pc[r] = "fetch" /\ Asks(r) -> Passed(cur[r])
    [] pc[r] = "skip" -> {e \in Events : Ledger[e] < page[r].floor}
    [] OTHER -> {e \in Events : e < page[r].next}

(* What the feed may miss: what RPC dropped, and what precedes the stream; *)
(* for a contract stream every ledger before the tip may precede it.       *)
Expendable ==
  Pruned \cup {e \in Events : Ledger[e] < IF StartLedger = None THEN tip ELSE StartLedger}

Feed == INSTANCE EventFeed WITH
          Readers <- Runners,
          acked <- Passed(saved),
          open <- {r \in Runners : pc[r] # "start"},
          read <- [r \in Runners |-> Read(r)],
          delivered <- Complete,
          expendable <- Expendable

ImplementsFeed == Feed!Spec
=============================================================================
