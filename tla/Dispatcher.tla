----------------------------- MODULE Dispatcher -----------------------------
(***************************************************************************)
(* Streams: core/src/streams.rs with the tables it works on (events,       *)
(* subscriptions, stream_cursors, deliveries), the writers of `events` and *)
(* the receivers of the webhooks.                                          *)
(*                                                                         *)
(* Any number of dispatchers share the database.  Each SQL statement is a  *)
(* step; what a transaction writes is seen when it commits.  A delivery is *)
(* the pair <<subscription, event id>>, which the unique index makes its   *)
(* identity.  Time advances in ticks: next_attempt_at is kept as the ticks *)
(* left until the row is due, so the model needs no bound on time.         *)
(***************************************************************************)
EXTENDS Integers, FiniteSets

CONSTANTS
  Subs,             \* subscriptions
  MaxEvents,        \* bound: ids of `events` are 1..MaxEvents
  Wants,            \* per subscription, the ids its filters match
  Writers,          \* connections that insert into `events`
  InOrder,          \* do inserts commit in the order of their ids?
  Dispatchers,      \* processes running `stardex streams`
  OnceDispatchers,  \* those of them that run with --once
  Batch,            \* BATCH
  MaxAttempts,      \* MAX_ATTEMPTS
  Lease,            \* CLAIM_LEASE_SECS, in ticks
  Timeout,          \* REQUEST_TIMEOUT, in ticks
  Backoff,          \* backoff_secs, in ticks, per attempt
  Prompt,           \* does a dispatcher get to its next statement within a tick?
  MaxFailures,      \* bound: crashes and database errors
  None

Ids == 1 .. MaxEvents
Pairs == Subs \X Ids

ASSUME DispatcherAssumption ==
  /\ MaxEvents \in Nat
  /\ Wants \in [Subs -> SUBSET Ids]
  /\ InOrder \in BOOLEAN
  /\ Prompt \in BOOLEAN
  /\ OnceDispatchers \subseteq Dispatchers
  /\ Batch \in Nat \ {0}
  /\ MaxAttempts \in Nat \ {0}
  /\ Lease \in Nat /\ Timeout \in Nat /\ Timeout < Lease
  /\ Backoff \in [1 .. MaxAttempts -> Nat]
  /\ MaxFailures \in Nat
  /\ None \notin Nat
  /\ None \notin Dispatchers

VARIABLES
  nextId, inserting, events,   \* the events table: its sequence, open inserts, rows
  subs,                        \* per subscription: unborn, active or retired
  lastEvent, lock,             \* the stream_cursors row and who holds it locked
  status, attempts, wait,      \* the deliveries table
  received,                    \* deliveries that reached their receiver
  pc, last, upper, found,      \* per dispatcher: where tick is, and its transaction
  worked, erred,               \* did this tick queue or attempt anything, did it fail?
  task,                        \* per dispatcher and delivery, the task sending it
  failures,                    \* counts against MaxFailures
  wanted,                      \* history, see CommitInsert
  seen                         \* history of a --once run: see BeginRun

eventVars == <<nextId, inserting, events, wanted>>
rowVars == <<status, attempts, wait>>
passVars == <<last, upper, found>>
tickVars == <<worked, erred>>
vars == <<eventVars, subs, lastEvent, lock, rowVars, received, pc, passVars, tickVars,
          seen, task, failures>>

NoTask == [phase |-> "none", attempts |-> 0, age |-> 0]
Tasks == [phase : {"none", "claimed", "sending", "accepted", "refused"},
          attempts : Nat, age : 0 .. Timeout]

TypeOK ==
  /\ nextId \in 1 .. MaxEvents + 1
  /\ inserting \in [Writers -> Ids \cup {None}]
  /\ events \in SUBSET Ids
  /\ subs \in [Subs -> {"unborn", "active", "retired"}]
  /\ lastEvent \in 0 .. MaxEvents \cup {None}
  /\ lock \in Dispatchers \cup {None}
  /\ status \in [Pairs -> {"absent", "pending", "delivered", "dead"}]
  /\ attempts \in [Pairs -> Nat]
  /\ wait \in [Pairs -> Nat]
  /\ received \in SUBSET Pairs
  /\ pc \in [Dispatchers -> {"idle", "slice", "queue", "commit", "claim", "read", "send",
                             "done", "failed"}]
  /\ last \in [Dispatchers -> 0 .. MaxEvents]
  /\ upper \in [Dispatchers -> 0 .. MaxEvents]
  /\ found \in [Dispatchers -> SUBSET Pairs]
  /\ worked \in [Dispatchers -> BOOLEAN]
  /\ erred \in [Dispatchers -> BOOLEAN]
  /\ task \in [Dispatchers -> [Pairs -> Tasks]]
  /\ failures \in Nat
  /\ wanted \in SUBSET Pairs
  /\ seen \in [Dispatchers -> SUBSET Ids]

Idle == [p \in Pairs |-> NoTask]

Init ==
  /\ nextId = 1
  /\ inserting = [w \in Writers |-> None]
  /\ events = {}
  /\ subs = [s \in Subs |-> "unborn"]
  /\ lastEvent = None /\ lock = None
  /\ status = [p \in Pairs |-> "absent"]
  /\ attempts = [p \in Pairs |-> 0]
  /\ wait = [p \in Pairs |-> 0]
  /\ received = {}
  /\ pc = [d \in Dispatchers |-> "idle"]
  /\ last = [d \in Dispatchers |-> 0]
  /\ upper = [d \in Dispatchers |-> 0]
  /\ found = [d \in Dispatchers |-> {}]
  /\ worked = [d \in Dispatchers |-> FALSE]
  /\ erred = [d \in Dispatchers |-> FALSE]
  /\ task = [d \in Dispatchers |-> Idle]
  /\ failures = 0
  /\ wanted = {}
  /\ seen = [d \in Dispatchers |-> {}]

-----------------------------------------------------------------------------
(* Writers of `events`: the id is drawn from the sequence when the insert  *)
(* executes, the row is seen when it commits.                              *)

BeginInsert(w) ==
  /\ inserting[w] = None
  /\ nextId \in Ids
  /\ inserting' = [inserting EXCEPT ![w] = nextId]
  /\ nextId' = nextId + 1
  /\ UNCHANGED <<events, wanted, subs, lastEvent, lock, rowVars, received, pc, passVars,
                 tickVars, seen, task, failures>>

(* A subscription that is active when an event appears wants it, from the  *)
(* moment the dispatcher first ran.                                        *)
CommitInsert(w) ==
  LET id == inserting[w] IN
  /\ id # None
  /\ InOrder => \A v \in Writers : inserting[v] # None => inserting[v] >= id
  /\ events' = events \cup {id}
  /\ inserting' = [inserting EXCEPT ![w] = None]
  /\ wanted' = IF lastEvent = None THEN wanted
               ELSE wanted \cup {p \in Pairs : p[2] = id /\ id \in Wants[p[1]]
                                               /\ subs[p[1]] = "active"}
  /\ UNCHANGED <<nextId, subs, lastEvent, lock, rowVars, received, pc, passVars, tickVars,
                 seen, task, failures>>

AbortInsert(w) ==
  /\ inserting[w] # None
  /\ inserting' = [inserting EXCEPT ![w] = None]
  /\ UNCHANGED <<nextId, events, wanted, subs, lastEvent, lock, rowVars, received, pc,
                 passVars, tickVars, seen, task, failures>>

(* subscriptions add, subscriptions remove *)
Create(s) ==
  /\ subs[s] = "unborn"
  /\ subs' = [subs EXCEPT ![s] = "active"]
  /\ UNCHANGED <<eventVars, lastEvent, lock, rowVars, received, pc, passVars, tickVars,
                 seen, task, failures>>

Deactivate(s) ==
  /\ subs[s] = "active"
  /\ subs' = [subs EXCEPT ![s] = "retired"]
  /\ UNCHANGED <<eventVars, lastEvent, lock, rowVars, received, pc, passVars, tickVars,
                 seen, task, failures>>

-----------------------------------------------------------------------------
(* enqueue_pass: one transaction, holding the cursor row from its first    *)
(* statement on.                                                           *)

Goto(d, place) == pc' = [pc EXCEPT ![d] = place]

(* mutant: the first run starts after an id not yet given out *)
NewestNext == Cardinality(events) + 1

Newest == IF events = {} THEN 0 ELSE CHOOSE e \in events : \A f \in events : f <= e

CursorFree == lock = None

LockCursor(d) ==
  /\ pc[d] = "idle"
  /\ CursorFree
  /\ lock' = d
  /\ last' = [last EXCEPT ![d] = IF lastEvent = None THEN Newest ELSE lastEvent]
  /\ Goto(d, "slice")
  /\ UNCHANGED <<eventVars, subs, lastEvent, rowVars, received, upper, found, tickVars,
                 seen, task, failures>>

Between(low, high) == {e \in events : low < e /\ e <= high}

(* The highest of the first Batch ids after the cursor; nothing new        *)
(* commits the transaction here.                                           *)
ReadSlice(d) ==
  /\ pc[d] = "slice"
  /\ \/ /\ \A e \in events : e <= last[d]
        /\ lastEvent' = last[d]
        /\ lock' = None
        /\ Goto(d, "claim")
        /\ UNCHANGED upper
     \/ \E u \in events :
        /\ u > last[d]
        /\ LET size == Cardinality(Between(last[d], u)) IN
             \/ size = Batch
             \/ size < Batch /\ \A e \in events : e <= u
        /\ upper' = [upper EXCEPT ![d] = u]
        /\ Goto(d, "queue")
        /\ UNCHANGED <<lastEvent, lock>>
  /\ UNCHANGED <<eventVars, subs, rowVars, received, last, found, tickVars, seen, task,
                 failures>>

(* mutant: the last event of the slice is left out *)
MatchingUpTo(low, high) ==
  {p \in Pairs : /\ p[2] \in events /\ low < p[2] /\ p[2] < high
                 /\ subs[p[1]] = "active"
                 /\ p[2] \in Wants[p[1]]}

(* One row per event of the slice and active subscription it matches. *)
Matching(low, high) ==
  {p \in Pairs : /\ p[2] \in Between(low, high)
                 /\ subs[p[1]] = "active"
                 /\ p[2] \in Wants[p[1]]}

(* on conflict do nothing: a row already there is left alone. *)
QueueDeliveries(d) ==
  /\ pc[d] = "queue"
  /\ found' = [found EXCEPT ![d] =
                 {p \in Matching(last[d], upper[d]) : status[p] = "absent"}]
  /\ Goto(d, "commit")
  /\ UNCHANGED <<eventVars, subs, lastEvent, lock, rowVars, received, last, upper,
                 tickVars, seen, task, failures>>

CommitPass(d) ==
  /\ pc[d] = "commit"
  /\ status' = [p \in Pairs |-> IF p \in found[d] THEN "pending" ELSE status[p]]
  /\ lastEvent' = upper[d]
  /\ lock' = None
  /\ worked' = [worked EXCEPT ![d] = found[d] # {}]
  /\ found' = [found EXCEPT ![d] = {}]
  /\ Goto(d, "claim")
  /\ UNCHANGED <<eventVars, subs, attempts, wait, received, last, upper, erred, seen,
                 task, failures>>

(* A statement fails: the transaction rolls back, tick goes on to deliver. *)
PassFails(d) ==
  /\ pc[d] \in {"slice", "queue", "commit"}
  /\ failures < MaxFailures
  /\ failures' = failures + 1
  /\ lock' = None
  /\ found' = [found EXCEPT ![d] = {}]
  /\ erred' = [erred EXCEPT ![d] = TRUE]
  /\ Goto(d, "claim")
  /\ UNCHANGED <<eventVars, subs, lastEvent, rowVars, received, last, upper, worked,
                 seen, task>>

-----------------------------------------------------------------------------
(* deliver_pass.                                                           *)

(* mutant: only rows never attempted are due *)
DueFresh == {p \in Pairs : status[p] = "pending" /\ attempts[p] = 0}

Due == {p \in Pairs : status[p] = "pending" /\ wait[p] = 0}

(* mutant: a claimed row stays due *)
HeldNot(ps) == wait

(* The claimed rows are not due again before the lease is over. *)
Held(ps) == [p \in Pairs |-> IF p \in ps THEN Lease ELSE wait[p]]

(* History is kept for the runs of --once only. *)
OfRun(d, set) == IF d \in OnceDispatchers THEN set ELSE {}

(* mutant: a run is over when it had nothing to send *)
AfterSend(d, attempted) ==
  CASE d \notin OnceDispatchers -> "idle"
    [] d \in OnceDispatchers /\ erred[d] -> "failed"
    [] d \in OnceDispatchers /\ ~erred[d] /\ attempted -> "idle"
    [] OTHER -> "done"

(* run goes round again; run_once returns an error, goes round again while *)
(* there is something to do, or is done.                                   *)
AfterTick(d, attempted) ==
  CASE d \notin OnceDispatchers -> "idle"
    [] d \in OnceDispatchers /\ erred[d] -> "failed"
    [] d \in OnceDispatchers /\ ~erred[d] /\ (worked[d] \/ attempted) -> "idle"
    [] OTHER -> "done"

(* claim_due, first statement: up to Batch due rows, their attempt counted *)
(* up front.  Which of the due rows come first is left open.               *)
ClaimDue(d) ==
  /\ pc[d] = "claim"
  /\ \/ /\ Due = {}
        /\ Goto(d, AfterTick(d, FALSE))
        /\ worked' = [worked EXCEPT ![d] = FALSE]
        /\ erred' = [erred EXCEPT ![d] = FALSE]
        /\ UNCHANGED <<attempts, wait, task>>
     \/ \E ps \in SUBSET Due \ {{}} :
        /\ Cardinality(ps) = Batch \/ (Cardinality(ps) < Batch /\ ps = Due)
        /\ attempts' = [p \in Pairs |-> IF p \in ps THEN attempts[p] + 1 ELSE attempts[p]]
        /\ wait' = Held(ps)
        /\ task' = [task EXCEPT ![d] =
                      [p \in Pairs |-> IF p \in ps THEN [NoTask EXCEPT !.phase = "claimed"]
                                                   ELSE NoTask]]
        /\ Goto(d, "read")
        /\ UNCHANGED tickVars
  /\ UNCHANGED <<eventVars, subs, lastEvent, lock, status, received, passVars, seen,
                 failures>>

(* claim_due, second statement, and the tasks are spawned. *)
ReadDue(d) ==
  /\ pc[d] = "read"
  /\ task' = [task EXCEPT ![d] =
                [p \in Pairs |-> IF task[d][p].phase = "claimed"
                                   THEN [phase |-> "sending", attempts |-> attempts[p], age |-> 0]
                                   ELSE NoTask]]
  /\ Goto(d, "send")
  /\ UNCHANGED <<eventVars, subs, lastEvent, lock, rowVars, received, passVars, tickVars,
                 seen, failures>>

(* Either statement fails: nothing is sent; rows already claimed keep their *)
(* lease.                                                                  *)
ClaimFails(d) ==
  /\ pc[d] \in {"claim", "read"}
  /\ failures < MaxFailures
  /\ failures' = failures + 1
  /\ task' = [task EXCEPT ![d] = Idle]
  /\ worked' = [worked EXCEPT ![d] = FALSE]
  /\ erred' = [erred EXCEPT ![d] = FALSE]
  /\ Goto(d, IF d \in OnceDispatchers THEN "failed" ELSE "idle")
  /\ UNCHANGED <<eventVars, subs, lastEvent, lock, rowVars, received, passVars, seen>>

(* The request of deliver_one: a 2xx answer, or any other outcome, whether *)
(* or not it reached the receiver.  At the timeout only the other.         *)
Post(d, p) ==
  /\ task[d][p].phase = "sending"
  /\ \/ /\ task[d][p].age < Timeout
        /\ task' = [task EXCEPT ![d][p].phase = "accepted"]
        /\ received' = received \cup {p}
     \/ /\ task' = [task EXCEPT ![d][p].phase = "refused"]
        /\ received' \in {received, received \cup {p}}
  /\ UNCHANGED <<eventVars, subs, lastEvent, lock, rowVars, pc, passVars, tickVars,
                 seen, failures>>

TaskEnds(d, p) == task' = [task EXCEPT ![d][p] = NoTask]

(* mutant: any answer counts as accepted *)
Answered(t) == t.phase \in {"accepted", "refused"}

IsSuccess(t) == t.phase = "accepted"

RecordSuccess(d, p) ==
  /\ IsSuccess(task[d][p])
  /\ status' = [status EXCEPT ![p] = "delivered"]
  /\ TaskEnds(d, p)
  /\ UNCHANGED <<eventVars, subs, lastEvent, lock, attempts, wait, received, pc, passVars,
                 tickVars, seen, failures>>

(* mutant: given up one attempt too late *)
GivesUpLate(n) == n > MaxAttempts

GivesUp(n) == n >= MaxAttempts

(* record_failure: both updates name the row by its id alone. *)
RecordFailure(d, p) ==
  LET n == task[d][p].attempts IN
  /\ task[d][p].phase = "refused"
  /\ IF GivesUp(n)
       THEN status' = [status EXCEPT ![p] = "dead"] /\ wait' = wait
       ELSE wait' = [wait EXCEPT ![p] = Backoff[n]] /\ status' = status
  /\ TaskEnds(d, p)
  /\ UNCHANGED <<eventVars, subs, lastEvent, lock, attempts, received, pc, passVars,
                 tickVars, seen, failures>>

(* The outcome cannot be recorded: it is logged, the row keeps its lease. *)
RecordFails(d, p) ==
  /\ task[d][p].phase \in {"accepted", "refused"}
  /\ failures < MaxFailures
  /\ failures' = failures + 1
  /\ TaskEnds(d, p)
  /\ UNCHANGED <<eventVars, subs, lastEvent, lock, rowVars, received, pc, passVars,
                 tickVars, seen>>

FinishPass(d) ==
  /\ pc[d] = "send"
  /\ task[d] = Idle
  /\ Goto(d, AfterTick(d, TRUE))
  /\ worked' = [worked EXCEPT ![d] = FALSE]
  /\ erred' = [erred EXCEPT ![d] = FALSE]
  /\ UNCHANGED <<eventVars, subs, lastEvent, lock, rowVars, received, passVars, seen,
                 task, failures>>

-----------------------------------------------------------------------------
(* A new process: its transaction is gone, its tasks are gone.  A run of   *)
(* --once starts with the events there are.                                *)
BeginRun(d) ==
  /\ Goto(d, "idle")
  /\ worked' = [worked EXCEPT ![d] = FALSE]
  /\ erred' = [erred EXCEPT ![d] = FALSE]
  /\ found' = [found EXCEPT ![d] = {}]
  /\ task' = [task EXCEPT ![d] = Idle]
  /\ lock' = IF lock = d THEN None ELSE lock
  /\ seen' = [seen EXCEPT ![d] = OfRun(d, events)]
  /\ UNCHANGED <<eventVars, subs, lastEvent, rowVars, received, last, upper>>

Crash(d) ==
  /\ failures < MaxFailures
  /\ failures' = failures + 1
  /\ pc[d] \notin {"idle", "done", "failed"}
  /\ BeginRun(d)

(* The next scheduled `streams --once`. *)
RunAgain(d) ==
  /\ pc[d] \in {"done", "failed"}
  /\ BeginRun(d)
  /\ UNCHANGED failures

(* A request does not outlive its timeout; a prompt dispatcher is past     *)
(* every other step within the tick.                                       *)
Settling(d, p) == \/ task[d][p].phase = "sending" /\ task[d][p].age = Timeout
                  \/ task[d][p].phase \in {"claimed", "accepted", "refused"}

Older(t) == [t EXCEPT !.age = IF t.phase = "sending" /\ @ < Timeout THEN @ + 1 ELSE @]

Tick ==
  /\ Prompt => \A d \in Dispatchers, p \in Pairs : ~Settling(d, p)
  /\ wait' = [p \in Pairs |-> IF wait[p] > 0 THEN wait[p] - 1 ELSE 0]
  /\ task' = [d \in Dispatchers |-> [p \in Pairs |-> Older(task[d][p])]]
  /\ UNCHANGED <<eventVars, subs, lastEvent, lock, status, attempts, received, pc,
                 passVars, tickVars, seen, failures>>

-----------------------------------------------------------------------------
Step(d) == \/ LockCursor(d) \/ ReadSlice(d) \/ QueueDeliveries(d) \/ CommitPass(d)
           \/ ClaimDue(d) \/ ReadDue(d) \/ FinishPass(d) \/ RunAgain(d)

Send(d, p) == Post(d, p) \/ RecordSuccess(d, p) \/ RecordFailure(d, p)

Next ==
  \/ \E w \in Writers : BeginInsert(w) \/ CommitInsert(w) \/ AbortInsert(w)
  \/ \E s \in Subs : Create(s) \/ Deactivate(s)
  \/ \E d \in Dispatchers : Step(d) \/ PassFails(d) \/ ClaimFails(d) \/ Crash(d)
  \/ \E d \in Dispatchers, p \in Pairs : Send(d, p) \/ RecordFails(d, p)
  \/ Tick

Spec == Init /\ [][Next]_vars

(* The runtime polls every dispatcher and every task, an open insert ends, *)
(* and time passes.  Failures, users and receivers owe nothing.            *)
Fairness ==
  /\ \A w \in Writers : WF_vars(CommitInsert(w) \/ AbortInsert(w))
  /\ \A d \in Dispatchers : WF_vars(Step(d))
  /\ \A d \in Dispatchers, p \in Pairs : WF_vars(Send(d, p))
  /\ WF_vars(Tick)

LiveSpec == Spec /\ Fairness

-----------------------------------------------------------------------------
(* Properties.                                                             *)

(* streams.rs, enqueue_pass: "the cursor only moves once those rows are    *)
(* committed, so an event can never be skipped": no event an active        *)
(* subscription wants is behind the cursor without a delivery, whatever    *)
(* dispatchers, crashes and rollbacks do.  True while inserts commit in    *)
(* the order of their ids.                                                 *)
NothingSkipped ==
  \A p \in wanted :
    lastEvent # None /\ p[2] <= lastEvent /\ subs[p[1]] = "active" => status[p] # "absent"

(* The cursor moves forward only, however the passes of several             *)
(* dispatchers interleave: no slice is read twice once committed.          *)
CursorOnlyForward ==
  [][lastEvent # None => lastEvent' # None /\ lastEvent <= lastEvent']_vars

(* With prompt dispatchers the lease keeps a delivery to one task at a     *)
(* time, and that task's delivery is still pending.                        *)
OneTaskPerDelivery ==
  \A p \in Pairs, d \in Dispatchers :
    task[d][p].phase # "none" =>
      /\ status[p] = "pending"
      /\ \A c \in Dispatchers \ {d} : task[c][p].phase = "none"

(* With prompt dispatchers a delivery is attempted MaxAttempts times, and  *)
(* once more only for every failure that lost an outcome.                  *)
AttemptsBounded == \A p \in Pairs : attempts[p] <= MaxAttempts + failures

(* A delivery is given up only after MaxAttempts claims. *)
DeadWasTried == \A p \in Pairs : status[p] = "dead" => attempts[p] >= MaxAttempts

(* A --once run stopped in front of a full slice: none of its events had a *)
(* row to queue.                                                           *)
StoppedBefore(d, e) ==
  /\ e > upper[d]
  /\ Cardinality(Between(last[d], upper[d])) >= Batch
  /\ \A p \in wanted : p[2] \in seen[d] /\ last[d] < p[2] /\ p[2] <= upper[d]
                         => subs[p[1]] # "active"

(* streams.rs, run_once: when it is done, every event there was when it    *)
(* began is behind the cursor, except those after a full slice that no     *)
(* active subscription wanted: there the run stops (see OnceQueuesAll).    *)
OnceDrains ==
  \A d \in OnceDispatchers : pc[d] = "done" =>
    \A e \in seen[d] : e <= lastEvent \/ StoppedBefore(d, e)

(* run_once, "Queue and send everything that is currently due": of those   *)
(* events, each one an active subscription wants has been claimed for      *)
(* sending at least once, by this run or by another dispatcher.            *)
OnceSends ==
  \A d \in OnceDispatchers : pc[d] = "done" =>
    \A p \in wanted : p[2] \in seen[d] /\ subs[p[1]] = "active" =>
      attempts[p] >= 1 \/ StoppedBefore(d, p[2])

(* The same words without the exception: nothing an active subscription    *)
(* wants, and that was there when the run began, is left unqueued.         *)
OnceQueuesAll ==
  \A d \in OnceDispatchers : pc[d] = "done" =>
    \A p \in wanted : p[2] \in seen[d] /\ subs[p[1]] = "active" => status[p] # "absent"

(* Every delivery queued ends up delivered or dead. *)
EveryDeliverySettles ==
  \A p \in Pairs : status[p] = "pending" ~> status[p] \in {"delivered", "dead"}

(* Every event an active subscription wants is queued for it, unless the   *)
(* subscription is retired first.                                          *)
EveryWantedIsQueued ==
  \A p \in Pairs : p \in wanted ~> status[p] # "absent" \/ subs[p[1]] = "retired"

-----------------------------------------------------------------------------
(* Refinement: with prompt dispatchers the deliveries table is an Outbox.  *)

Parcel(p) == CASE status[p] = "absent" -> "absent"
               [] status[p] = "pending" -> "waiting"
               [] status[p] = "delivered" -> "accepted"
               [] status[p] = "dead" -> "abandoned"

Out == INSTANCE Outbox WITH
         Parcels <- Pairs,
         box <- [p \in Pairs |-> Parcel(p)],
         reached <- received

ImplementsOutbox == Out!Spec
=============================================================================
