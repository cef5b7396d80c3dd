# Stardex in TLA+

TLA+ modules, TLC runs and TLAPS proofs for Stardex: the Rust workspace under
`src/ingestor` that follows the Stellar network over RPC and writes what it
sees to PostgreSQL, delivers it to webhooks, and matches payments to invoices.
`PROJECT.json` says which lines each definition stands for. Paths below are
relative to the repository (`src/`), and `core/src` stands for
`src/ingestor/crates/core/src` and so on.

## 1. Inventory

### Components

| component | state it keeps | operations | modelled in |
|---|---|---|---|
| Ingestor, the stream loop (`core/src/lib.rs`, `rpc_client.rs`) | `self.cursor` in memory, the page in hand, `start_ledger` | restore the cursor, choose a start, fetch with retries, skip what retention dropped, handle a page, save the cursor, return (`--once`) | `Ingestor`, abstractly `EventFeed` |
| RPC wire types and filters (`core/src/rpc.rs`) | none | build the request, parse the answer, say which events a stream is served | the page record of `Ingestor`; `TransfersTo` of `Transfers`; encodings are not |
| Cursor stores (`cursor_store.rs`, `postgres_store.rs`) | a row of `cursors` per stream | load, upsert | `saved` in `Ingestor` |
| Sinks and event store (`sink.rs`, `postgres_event_store.rs`, `decoders/src/sink.rs`) | rows of `events` | decode, store, pass on to the next sink | `StoreEvent` of `Ingestor`; what is written in `Transfers` and `StoreRow` of `Billing`; the id sequence and the commit in `Dispatcher` |
| Payment sink and store (`decoders/src/payment_sink.rs`, `core/src/payment_store.rs`) | rows of `payments` | record, on conflict do nothing | `RecordPayment` of `Ingestor` (replays) and of `Billing` (what is recorded); the id sequence and the commit in `Reconciler` |
| Decoders (`decoders/src/lib.rs`) | none | an event to a transfer, or to nothing | `Transfers`, used by `Billing` |
| Supervisor and registries (`supervisor.rs`, `account_store.rs`, `contract_store.rs`) | one task per active stream | reload, spawn, abort, restart after a pause, catch up once; add and remove | `Supervisor`; what a stream's task does, in `Ingestor` |
| Streams dispatcher (`streams.rs`) | the row `streams` of `stream_cursors`, rows of `deliveries` | queue a slice, claim what is due, post, record the outcome | `Dispatcher`, abstractly `Outbox` |
| Subscriptions (`subscriptions.rs`) | rows of `subscriptions` | create, deactivate, list | `Create`, `Deactivate` of `Dispatcher` |
| Reconcile engine (`reconcile/src/engine.rs`) | the row `reconcile` of `stream_cursors` | decide new payments, recheck old ones | `Reconciler`, abstractly `Settlement` |
| Rules (`rules.rs`) | none | lookup key of a reference, the decision | `MatchRules`, used by `Billing`; with cancelled invoices, in `Decide` and `Candidates` of `Reconciler` |
| Invoices (`invoices.rs`, `0005_payments.sql`, `0006_invoices.sql`) | `invoices`, `payment_allocations`, `invoice_reference_seq` | create, `recalc_invoice` | create in `Billing`, `recalc_invoice` in `Reconciler` |
| Amounts, assets, addresses (`stellar.rs`) | none | parse and format | `Amounts`, used by `Billing`; addresses are not |
| Command line (`cli/src/main.rs`) | none | start the loops, exit with the error; `add`, `remove`, `accounts`, `invoices add` | process starts in every module; the commands in `Supervisor` and `Billing` |
| Connection pool, schema runner, scheduled workflow | - | - | not modelled, see section 8 |

### How they interact

There are no calls between the three long-running parts. They meet in the
database. The ingestor inserts `events` and `payments`; the dispatcher follows
`events` by their serial id, the engine follows `payments` by theirs; the
backend, a program outside this repository, matches and ignores payments and
cancels invoices by hand. Each part may run more than once at the same time:
`index` beside `run`, a scheduled `run --once` beside both, two `streams` or two
`reconcile` processes. What orders them is rows locked `for update`, unique
indexes and `on conflict` clauses, and the modules model those one statement at
a time. The two registries, `contracts` and `accounts`, are written by commands
and read by the supervisor, which keeps what it has read until the next reload.

### What is hard

* **Crashes between awaits.** Nothing ties the rows of a page to the cursor
  save that follows it; a page is handled again after a crash.
* **Positions.** A stream resumes from the page's cursor, else the last event
  id, else what it had; a first page that is empty and has neither leaves it
  with no position at all until it starts over. RPC prunes meanwhile, and the
  skip to the retention floor rewrites the cursor from an error message.
* **Serial ids as a log.** Ids are drawn when a row is inserted and the row is
  seen when it commits, so a reader may see id 2 before id 1.
* **Leases, timeouts, retries.** A delivery is claimed for 300 s, a request
  times out after 10 s, a failed one waits for its backoff; crashes lose
  outcomes, and a request may reach its receiver though it failed here.
* **Reads without a lock.** The engine decides from `match_status` and an
  invoice's status that it has not locked, while people decide by hand.
* **Deadlocks.** An allocation's foreign key takes a share lock on the invoice
  and `recalc_invoice` asks for the exclusive one: two passes can wait for each
  other and PostgreSQL aborts one of them.
* **Registries.** What is to run is read by two statements, acted upon later,
  and changes meanwhile; tasks fail on their own, and an account's beginning
  must survive all of it until the first cursor save makes it durable.
* **Termination.** `--once` must go on while there is work and then return.
* **References.** A payer names an invoice by a number that passes through a
  muxed id or a memo, an XDR event, two sinks, a trimmed text and a query that
  also compares invoice numbers, which users choose: one text may name two
  invoices, and the invoice may be younger than the payment.
* **Two writers of `contracts`.** The stream of an account inserts a row for
  any token it is paid in, between a user's `add` and `remove` of the same one.
* **Poison.** A custom token may emit a transfer the tables refuse; the stream
  then tries that event again for ever, and what is behind it waits.

`PROJECT.json` lists every hazard at its line, with the properties that guard
it, or the reason why none does yet.

### What makes each component correct

* Stream: the saved cursor covers nothing unhandled; it does not go back; a
  replay is confined to the page in hand; where its reading began stays where it
  was; a payment is recorded once; `--once` returns only when caught up; every
  event is handled in the end.
* Supervisor: an account is read from the ledger it was first added at, and its
  reading is never begun anew; a
  stream that is added is picked up and one that is removed is stopped, however
  others fail; `run --once` returns, and exits with success only when every
  stream is caught up.
* Dispatcher: no wanted event is passed over; one task at a time sends a
  delivery; attempts are bounded; a delivery counted accepted reached its
  receiver; a `--once` run leaves nothing behind that it says it does; every
  delivery settles.
* Engine: an invoice has received what is allocated to it, and its status says
  so; matched means allocated; a payment is in one pass at a time, is never
  skipped nor stranded out of the recheck's sight, is decided when `--once`
  returns, and is matched in the end when its invoice exists; passes contend for
  invoices and for nothing else.
* From command to match: a payment is recorded as its payer meant it; it goes to
  an invoice it names, on its account and in its asset, and to the one whose
  reference it gives; amounts are shown as they were typed; being paid in a
  token does not index its contract; what pays an invoice is matched to it.

## 2. The modules

| module | what it is |
|---|---|
| `EventFeed` | what a stream promises: an at-least-once feed whose acknowledgement never covers what was not delivered |
| `Ingestor` | the stream loop, refined to `EventFeed` |
| `IngestorProofs` | theorems about `Ingestor` |
| `Supervisor` | `supervisor.rs`, the registries and the commands that change them |
| `SupervisorProofs` | theorems about `Supervisor` |
| `Outbox` | what the delivery queue promises: put in once, leaves for good, accepted only if it arrived |
| `Dispatcher` | `streams.rs`, refined to `Outbox` |
| `Transfers` | the filter of an account stream, `decode_transfer`, and what the two sinks make of an event; how the network emits a transfer |
| `Amounts` | `parse_amount` and `format_amount` of `stellar.rs`, beside what an amount's text means |
| `MatchRules` | `lookup_key` and `decide` of `rules.rs`, `find_invoice` |
| `Billing` | from `invoices add` to the matched invoice, composing these three with the registries, the account streams and the engine |
| `AmountProofs` | theorems about `Amounts`, for texts of any length |
| `BillingProofs` | theorems about `Billing`; it extends `AmountProofs` |
| `Settlement` | what the engine and the hands promise together: an allocation is made once and never moved, invoices add up |
| `Reconciler` | `engine.rs` and `recalc_invoice`, refined to `Settlement` |
| `DispatcherProofs`, `ReconcilerProofs`, `SettlementProofs` | theorems about `Dispatcher` and `Reconciler`; the last extends the one before it with sums, locks and the refinement |
| `Extrema` | two lemmas on least and greatest naturals, where a proof would use induction |
| `MC*` | the small instances TLC checks |

A definition whose comment begins with "mutant" is no part of a model. It is a
plausible slip in the definition below it, and putting it there makes TLC find
the property named in `PROJECT.json` violated.

### Ingestor

An event is its number in its stream; `Ledger` gives its ledger. `tip` and
`floor` are the window RPC serves: `CloseLedger` and `Prune` move them at any
time. `rows`, `payments` and `saved` are the tables; `cur`, `start` and `page`
are one runner's memory, `pc` the await it stands before:

| action | code |
|---|---|
| `RestoreCursor`, `LatestLedger` | `restore_cursor` and the four ways to begin |
| `FetchPage`, `FetchRejected`, `FetchFailed` | the three outcomes of `fetch_page_with_retry`: a page, a window named in an error, another error |
| `SaveSkip` | the jump to the retention floor, saved at once |
| `StoreEvent`, `RecordPayment` | one event through `TeeSink` |
| `SaveCursor` | the resume position, its upsert, and the end of `--once` |
| `Stop`, `RunAgain` | a crash or an error, and the supervisor's restart; the next scheduled run |

A retried transport error changes nothing and is a stutter. One piece of history
is kept: `from`, the ledger a cursor's reading began at.

Assumptions about what is outside: RPC answers a request from one snapshot, and
a page that is not full means that there was nothing more up to the tip it
reports. `accounts add` records the tip of the moment as an account's first
ledger, so `StartLedger` is at most the tip (`IngestorAssumption`). A sink may
fail at any event; that is `Stop`.

### Supervisor

Any number of processes run `stardex run`, each started with `--once` or
without (`once`, chosen anew at every start). A stream's task is reduced to what
the supervisor and the registries decide: what it was spawned with (`start`),
where its reading began (`from`), and the first save that makes this durable
(`saved`). Everything later in a stream's life is `Ingestor`.

| action | code |
|---|---|
| `Register`, `Remove` | `add`, `remove`, `accounts remove`: a row is never deleted, only made inactive |
| `AskTip`, `AddAccount` | the two halves of `accounts add`: the tip from RPC, then the upsert that coalesces `first_ledger` |
| `Start` | the listing `cmd_run` prints, whose errors end the process |
| `ListContracts`, `ListAccounts`, `ReadFails` | the two statements of `CombinedRegistry::streams` |
| `Spawn`, `Wake` | `reconcile` of what runs with what was read (or the spawning of `catch_up`), and the sleep |
| `Begin`, `SaveCursor`, `Finish` | the beginning of a stream's loop, its first save, the return of `catch_up_stream` |
| `FailsAsAlways`, `FailsOnce`, `Restart` | an error of a stream in `Broken` or of any other, and the loop of `spawn` |
| `Join` | the end of `catch_up` and the exit status |
| `Crash`, `RunAgain` | the process dies; it is started again |

Two pieces of history: `since`, the tip when an account was first added, and
`through`, the streams that have been active since a process started.

### Dispatcher

One step per SQL statement. `enqueue_pass` is `LockCursor`, `ReadSlice`,
`QueueDeliveries`, `CommitPass`; `claim_due` is `ClaimDue` and `ReadDue`;
`deliver_one` is `Post` followed by `RecordSuccess` or `RecordFailure`, for
every claimed delivery on its own; `FinishPass` ends `deliver_pass`, and
`AfterTick` is what `run` or `run_once` does next. `PassFails`, `ClaimFails` and
`RecordFails` are database errors at each of the places the code handles one,
and `Crash` may come anywhere. Writers draw an id in `BeginInsert` and make the
row visible in `CommitInsert`.

`wait` is how many ticks are left until `next_attempt_at`. That makes time
relative, and the model needs no bound on it. Of a `--once` run one piece of
history is kept: `seen`, the events there were when it began. `Prompt` says that a dispatcher
gets through every step other than the request within a tick, which stands for
"a task does not stall for the 290 s between the request timeout and the
lease". `InOrder` says that inserts commit in the order of their ids. That holds
while one stream at a time writes `events`: every stream of a supervisor is a
task of its own and inserts through a connection of its own, out of a pool of
ten, so that two streams that run are two `Writers` and `DispatchSkipped` is
about them.

### Reconciler

One step per SQL statement, in two kinds of transaction (`new_payments_pass`
holds the cursor row, `recheck_pass` does not). `staged` is what a transaction
wrote and others do not see; `curLock`, `payLock` and `invLock` are row locks;
an uncommitted allocation blocks the same payment's entry (`Entering`, the
unique index) and its invoice's exclusive lock (`Sharing`, the foreign key).
`apply` is `FindInvoice`, then `InsertAllocation`, `MarkMatched`, `LockInvoice`,
`UpdateInvoice`, or `MarkUnmatched`. `BreakDeadlock` rolls back one of the
engines that wait for each other in a cycle. `MatchByHand`, `IgnoreByHand` and
`CancelByHand` are the backend's; it is not in this repository, and each is
modelled as one transaction that waits for nobody, on the tables as the
migrations and `docs/reconciliation.md` describe them.

`newer` holds the pairs for which `issued_at >= recorded_at`: both are `now()`,
the time the transaction began. `recent` is the 30-day window of the recheck,
which `AgeOut` closes at any time.

### Billing

This module composes what the others take apart. A payment's way is followed
from the command that creates its invoice to the row that matches it, with
every actor going its own way: users, clerks, the chain, each account's stream
and the engine. In return each of them is simpler than in its own module: a
stream has a position and a saved position, but no pages; the engine's
transaction is one step, `Match`, that may come at any time to any payment
that is new or named no invoice yet.

| action | code |
|---|---|
| `AddAccount`, `RemoveAccount` | `accounts add` and `remove`, with the supervisor that starts and aborts the stream |
| `Register`, `Unregister` | `add`, `remove` |
| `TypeCommand`, `CheckWatched`, `InsertInvoice` | `invoices add`: the amount and asset are checked, the account is read, the row is inserted and shown |
| `Leave` | a command ends, or is killed where it stands |
| `Transact` | the next event of one of `Chains` happens |
| `StoreRow`, `RecordPayment`, `FailPayment` | one event through the two sinks of the stream's `TeeSink` (`PgFactory`), or a payment that the table's check refuses, after which the stream begins again at its cursor |
| `SaveCursor` | the position reached is saved |
| `Match` | `lookup_key`, `find_invoice`, `decide`, and the update of `match_status` |

The data is as fine as the properties need and no finer. An ScVal is a record
with one field named for its type, so that decoding can fail wherever the code
returns `None`. A memo's text is a word, a number behind it, whether there are
capitals and whether there are spaces around it: that is what tells a
reference, a number, and a number typed in another way apart. An amount's text
is its digits before and after the point, and whether anything else is in it.
The widths are constants: `Half` is 2^64, `I64Max` and `I128Max` are the
largest of their types.

`chain` carries with each event what its payer meant (`intent`), if anybody
meant something: an event in it is either the CAP-67 event of an intended
transfer (`Emitted`, which is the network's and not in this repository) or
anything else that a contract may emit. What is recorded and matched is
compared with the intent, never with the decoder's own answer.

Assumptions: references handed out stay within an i64 (`BillingAssumption`;
the sequence is a `bigint`); amounts people send are natural numbers and the
address of a contract is not the name of a classic asset (`ChainsAssumption`);
the value that stands for an absent option is no other value
(`NoneAssumption`).

## 3. The runs

The longest run, `Billing`, takes about three minutes with two workers, the
others less. A property of a passing run has a
mutant in `PROJECT.json`.

| run | instance | what it shows |
|---|---|---|
| `IngestAccount` | 4 events, the first before the account was added, the others in one ledger, one of them a payment, pages of 2, a supervisor's task and a `--once` runner that is started again and again, 1 crash | `NothingLost`, `CaughtUp`, `PaidOnce`, `ImplementsFeed` though the runners overwrite each other's cursor, and under fairness `EveryEventHandled` |
| `IngestContract` | 3 events of a stream without a first ledger, one runner that goes on polling, 2 crashes | `CursorNeverBack`, `NoReplayBehindCursor`, and `ReadingKept`: the reading is not begun anew |
| `Billing` | 1 account, 1 registered token, 1 clerk with 6 commands to type, 2 references, 5 chains of 2 events; 2 decimal places, halves of 4, `i64::MAX` = 3, `i128::MAX` = 250 | `RecordedAsSent`, `MatchedToNamed`, `AmountAsTyped`, `OnlyRegisteredIndexed`, `ReferenceFirst`, and under fairness `EventuallyMatched` |
| `Supervise` | 1 process, with and without `--once`, a contract whose stream always fails, an account, 2 ledgers, 2 failures or crashes | `WatchedSinceAdded`, `OnceTellsAll`, and under fairness `AddedIsRead`, `RemovedStops`, `OnceReturns` |
| `DispatchQueue` | 2 events, both wanted while the subscription is active, slices of 1, 2 writers, a `--once` dispatcher beside one that polls, 1 failure | `NothingSkipped`, `OnceSends` |
| `DispatchSend` | 1 event, 2 dispatchers, one with `--once`, 2 attempts, lease of 2 ticks, 1 failure | `OneTaskPerDelivery`, `AttemptsBounded`, `ImplementsOutbox`, and under fairness `EveryDeliverySettles`, `EveryWantedIsQueued` |
| `DispatchSkipped` | 2 writers whose inserts commit in any order | finding, section 7 |
| `DispatchUndrained` | 2 events, the second one wanted, slices of 1, one `--once` dispatcher | finding, section 7 |
| `ReconcileBooks` | 2 payments, 1 invoice that both name by its number and one by its reference, 2 engines, all decisions by hand, inserts committing in any order, 1 failure | `ReceivedIsAllocated`, `MatchedIsAllocated`, `OnePassPerPayment`, `WaitsOverInvoices`, `ImplementsSettlement` |
| `ReconcileLive` | 2 payments, 1 invoice, 2 engines, one with `--once`, 1 failure | `NoneSkipped`, `OnceDecides`, `NoneStranded`, and under fairness `EveryPayableMatches` |
| `ReconcileStarved` | 2 payments, 1 engine, batches of 1 | finding, section 7 |
| `ReconcileIgnored` | 2 payments, 1 engine, matching and ignoring by hand | finding, section 7 |

**Why these bounds.** Three events of a reading with pages of two give full pages,
short pages, empty pages, a page boundary inside a ledger, and ledgers without
events, so that the window can move past the events or stop before them. Two crashes
(`IngestContract`) are enough to crash, replay part of a page, and crash again
during the replay; beside a second runner (`IngestAccount`) one crash is enough,
because the other runner's cursor is stale in as many ways. `PageCursors` has
both values where the resume position is in question. Batches of one event or payment make a pass see less
than there is; two engines, payments and dispatchers are what the locks
separate, and two engines are what a deadlock takes. Amounts 1, 2 against an
invoice of 2 reach every status of an invoice: open, partial, paid, overpaid.
Adding, removing and adding again are not bounded in `Supervise`; two ledgers
make an early and a late beginning, one broken stream beside one that works is
what "the others" takes, and two failures are a failed read and a failed or
crashed task. In `Billing` an amount of
6 has a low half with its highest bit set, 5 is a muxed id past `i64::MAX`, 2.5
is the largest amount there is and 2.51 one unit more; two references are what
it takes for the number of one invoice to be the reference of the other, and the
chains hold a text that is both, an invoice number in other letters and with
spaces, a hash, a transfer to oneself, a transfer of less than nothing, and an
event that carries no amount.
The lease is longer than the request timeout as in the code (300 s, 10 s), the
first backoff is as long as that timeout (`backoff_secs(1)` is 10 s), and backoffs
grow with the attempt. `DispatchQueue` asks what is queued and claimed and not
how sending ends: there every request times out before the next tick, and only
`DispatchSend` has receivers that accept. The theorems of section 5 remove the bounds from
every safety property.

`DispatchQueue` uses symmetry over the writers, which no action tells apart;
the runs that check liveness use none. Deadlock is checked in every run: the
chain stops at `MaxLedger`, but a runner, a dispatcher or an engine always has
a step to take, since a `--once` process is started again; in `Billing` the
registries can always be changed.

## 4. Fairness

* Stream: weak fairness of each runner's `Step` (tokio keeps polling it, the
  supervisor restarts a failed stream, `--once` is scheduled again) and of
  `CloseLedger` (the network goes on). Pruning and crashes need never happen,
  and crashes are bounded by `MaxRestarts`.
* Supervisor: weak fairness of each process's `Step` and of each task's
  `TaskStep` (tokio polls them all, whichever of them is waiting). Users, the
  chain, failing reads, crashes and whoever starts a process again owe nothing;
  a stream in `Broken` may fail for ever.
* Dispatcher: weak fairness of an open insert's end, of each dispatcher's
  `Step`, of each task's `Send` and of `Tick`. Nothing makes a receiver accept.
* Engine: weak fairness of each engine's `Step` and strong fairness of its
  `LockInvoice`. With weak fairness alone two engines may deadlock, be broken
  up, and meet in the same deadlock for ever. PostgreSQL wakes the
  transaction that waits as soon as the other is rolled back, and the loser
  sleeps `POLL_INTERVAL` before it comes again, so the survivor does get its
  lock: that is what the strong fairness says. Neither inserts nor hands are
  fair.
* Billing: weak fairness of each stream's `StoreRow \/ RecordPayment` (a stream
  of an active account goes on, the supervisor sees to it) and of the engine's
  `Match` on some payment. Users, clerks, the chain and `SaveCursor` owe
  nothing. A stream that an event is refused on, or that is removed, is named in
  the property (`Hindered`), not excluded by the fairness.

## 5. What is proved

### Ingestor

`IngestorProofs` proves, for any chain, page size, page shape, any number of
runners, crashes and pruning (only `IngestorAssumption` is used):

| theorem | property |
|---|---|
| `TypeCorrect` | `TypeOK` |
| `CursorLosesNothing` | `NothingLost` |
| `OnceCatchesUp` | `CaughtUp` |
| `PaymentsOnce` | `PaidOnce` |
| `StreamFeeds` | `ImplementsFeed` |
| `CursorForward`, with one runner | `CursorNeverBack` |
| `PageReplayedOnly`, with one runner | `NoReplayBehindCursor` |
| `ReadingStays`, with one runner | `ReadingKept` |
| `AckedHandled` | `AckedIsDelivered` of `EventFeed` |

`NothingLost` speaks of the saved row only and is not inductive: that the row
saved next is safe depends on what each runner has in memory. The invariant
`IInv` adds to it, for every runner,

* `Shape`: what a place of the loop says of the page in hand (there is an event
  to handle before `StoreEvent`, the page is done before `SaveCursor`, ...);
* `CursorCovered`, `StartCovered`, `SkipPruned`: everything before the position
  it will ask for is handled, pruned, or before its reading began;
* `PageCovered`, `HalfHandled`: so is everything before the event it is at, and
  between the two sinks the event row is there;
* `TipBlank`, `EmptyAtTip`, `DoneCovered`: a stream without a position has
  passed nothing, an empty page means the tip is reached, and a `--once` run
  that is done has everything up to it.

What makes many runners provable one at a time is `StepGrows` and
`SettledStays`: no step of anybody takes away from what is handled or pruned,
so each conjunct, which only asks for more of that set, survives the steps of
the others (`OthersUntouched`). `RunnerStep` does the runner's own steps,
`InvStep` puts them together with the chain's. `PaymentsOnce` has an invariant
of its own on top of `TypeInv`.

`StreamFeeds` shows that `EventFeed` is implemented: `RestoreCursor` is `Open`,
`StoreEvent` or `RecordPayment`, whichever handles the event for good, is
`Deliver`, `SaveCursor` and `SaveSkip` are `Ack`, the answers of RPC
(`FetchPage`, `FetchRejected`) that leave pruned events behind are `Skip`, a
crash or an error is `Close`, and the chain's steps are `Expire` or nothing. It
needs `FeedInv` besides: every position a runner has is one of the chain
(`OnChain`), its first request is for the ledger its cursor names or for the
beginning of the stream (`Begins`), and an answer without events begins where
the cursor says (`EmptyPage`).

`AckedHandled` is what the refinement is worth. In a feed nothing is
acknowledged that was neither delivered nor expendable (`FeedKeepsPromise`, an
invariant of `EventFeed` alone), so this holds of the stream: an account's row
covers nothing after the account's first ledger that was not handled or pruned,
whichever reading the row belongs to. `CursorLosesNothing` says more of one
reading and nothing of the ledgers before it.

The theorems with one runner add to this. `CursorForward` and
`PageReplayedOnly` rest on `Ahead`: what the saved cursor covers, the runner has
gone past. `ReadingStays` rests on `Begun`: once the row says something, the
cursor in hand began where the row did and says something too, so that the tip
is not asked for again. The row stays so because a ledger handled and a floor
skipped to are greater than zero, which is how `restore_cursor` tells a row that
says nothing. Two runners overwrite each other's cursor, and there none of the
three holds (`IngestAccount`, which has two, does not list them).

### Supervisor

`SupervisorProofs` proves, for any contracts, accounts and processes, and
whatever the bounds (only `SupervisorAssumption` is used):

| theorem | property |
|---|---|
| `TypeCorrect` | `TypeOK` |
| `WatchedInTime` | `WatchedSinceAdded` |
| `ReadFromFirst` | `OneBeginning` |
| `OnceTells` | `OnceTellsAll` |

`WatchedSinceAdded` speaks of the cursor row, whose value has come a long way:
`accounts add` reads a tip, the upsert writes it or keeps what is there, a
process reads the row, spawns a task with it, and the task saves it, each at a
time of its own. `IInv` follows it: a tip in flight is one of the past
(`AskedPast`), the row is not later than the first add (`FirstInTime`), what a
process has read is what the row says (`SpecsInTime`), so is what a task was
spawned with, and its reading began no later (`TaskInTime`). It is inductive
because of `Kept`: once written, the row's first ledger does not change, so that
what was read long ago is not wrong. With the arguments of the `coalesce`
swapped, `Kept` fails, and with it the theorem. `ReadFromFirst` goes a step further
along the same chain: a task that reads began at the very ledger of the row
(`FromFirst`), because what it was spawned with and what was saved before are
both that ledger, so that two processes that save in any order save one
beginning.

`OnceTells` follows a stream that stays active from the moment a `--once`
process starts (`OnceInv`): it is active when the registries are read, so it is
in `specs`, so a task was spawned for it; and `Join` leaves none out.

### Dispatcher

`DispatcherProofs` proves, for any events, subscriptions, writers, dispatchers,
batch, lease, timeout and backoff (only `DispatcherAssumption` is used):

| theorem | property |
|---|---|
| `TypeCorrect` | `TypeOK` |
| `CursorForward` | `CursorOnlyForward` |
| `DeadAfterAttempts` | `DeadWasTried` |
| `EventsNotSkipped`, with `InOrder` or a single writer | `NothingSkipped` |
| `RunsDrain` | `OnceDrains` |
| `RunsSend`, with `InOrder` or a single writer | `OnceSends` |
| `OneTask`, with `Prompt` | `OneTaskPerDelivery` |
| `Bounded`, with `Prompt` | `AttemptsBounded` |
| `TableIsOutbox`, with `Prompt` | `ImplementsOutbox` |
| `SettledForGood`, with `Prompt` | `AcceptedReached` and `LeavesForGood` of `Outbox` |

The log. A pass reads the cursor, then a slice, then queues, then commits, and
`PassInv` says that the locked row has not moved meanwhile and that the slice
ends at an event behind which the cursor will be. `OrderInv` says what `InOrder`
buys, and a single connection without it: an id that is still to commit is above
every visible one. `WantInv` puts
the two together: before the commit, a wanted event of the slice has its
delivery staged or in the table already.

The runs of `--once`. `run_once` stops at a tick that queued nothing and sent
nothing, and takes that for the end of the log. `RunInv` carries what this does
mean through the tick: a slice that was read is full or ends the log as the run
found it; what is staged of a slice is all of it that is wanted; so a pass that
queued nothing, because nothing was wanted or because another dispatcher had
moved the cursor, leaves everything behind the cursor or was full (`Drained`).
`BehindInv` and `IdsInv` say meanwhile that ids are given out once and that what
is queued is behind the cursor. `OnceDrains` needs no `InOrder`: it speaks of
events that could be seen when the run began. `RunsSend` adds that a delivery
no claim has counted is due (`UnclaimedDue`), so the last claim, which found
nothing, leaves none.

The lease. `PlaceInv` says how far the tasks of a dispatcher may be while it is
at a place of its loop, `LeaseInv` that a task's delivery is pending, that no
other dispatcher has a task for it, and that what is left until
`next_attempt_at` is the lease less the task's age. A prompt dispatcher's task
is never as old as the lease, so a delivery that is being sent is not due, and
the second claim that `OneTask` excludes cannot be made. `BoundInv` counts
attempts against failures.

The refinement. `CommitPass` is `PutIn`, `Post` reaches the receiver,
`RecordSuccess` is `Accept`, `RecordFailure` of a last attempt `Abandon`, and
everything else stutters. `SettledForGood` draws the conclusion: what an `Outbox`
promises of its parcels holds of the table (`OutboxKeepsPromise`).

### Reconciler and Settlement

`ReconcilerProofs` and `SettlementProofs` prove, for any payments, invoices,
engines, batch and lookups (only `ReconcilerAssumption` is used):

| theorem | property |
|---|---|
| `TypeCorrect` | `TypeOK` |
| `PassesApart` | `OnePassPerPayment` |
| `BooksAgree` | `MatchedIsAllocated` |
| `PaymentsNotSkipped`, with `InOrder` | `NoneSkipped` |
| `OnceFinishes`, with `InOrder` | `OnceDecides` |
| `InvoicesContended` | `WaitsOverInvoices` |
| `NoPaymentStranded`, with `InOrder` | `NoneStranded` |
| `InvoicesAddUp` | `ReceivedIsAllocated` |
| `TablesSettle` | `ImplementsSettlement` |
| `AllocationsStand` | `EntriesStand` of `Settlement` |

`Base` is the shape of the state: what a transaction has staged at each place of
its pass, and which locks it holds there. Each step of an engine then has
one lemma that says all it does (`..Effect`), and the invariants after `Base` are
proved from these effects. Five layers follow.

* `PassRows`: a pass over new payments works ahead of the cursor and alone, a
  recheck works behind it on rows it has locked; hence `OnePassPerPayment`.
* `BookInv`: of the payment in hand, what is staged and what the tables say agree
  (`Stage`), which is what makes a commit keep `MatchedIsAllocated`; and for
  `NoneSkipped`, each payment up to where a pass will put the cursor is still in
  its rows, staged, or settled (`Covers`).
* `LedgerInv`, for the sums: a payment has one entry, staged or committed
  (`Entries`); who has staged a total of an invoice holds its lock, and while
  somebody holds it nobody else has an entry for the invoice (`Locks`); a staged total is the sum of what is
  allocated to the invoice, except between the entry and the update (`Totals`).
  Without `Locks` two passes would add up the same invoice from what each of
  them sees, and one of the payments would be missing from the total that
  commits last. The share lock that an entry's foreign key takes, and that
  `LockInvoice` has to wait for, is what gives `Locks`.

* `ClaimsInv`, for what is waited for: the payments a pass has locked or entered
  are its own to work on, ahead of the cursor when it holds the cursor's row, else
  behind it and locked (`Own`). No payment is the own one of two passes, so when
  one waits for another, it waits for an invoice.
* `StrandInv`, for `NoneStranded`: when a payment is found to name no invoice,
  every invoice it could name is one that began later (`Left`), and with
  `InOrder` so is every one that is being inserted and the payment was recorded
  before (`InsertingNewer`). Those are what `newer` holds, and the recheck asks for
  them. `ReasonsBehind` adds that the cursor has passed such a payment, which the
  recheck asks for too.

A sum over a set of payments is a recursive function, and its facts (`SumNat`,
`SumEmpty`) are proved from a least counterexample (`Extrema`) where one would
use induction.

`CommitPass` and `MatchByHand` are `Settle`, `CommitInvoice` is `Issue`,
`CancelByHand` is `Cancel`, and everything else stutters. `AllocationsStand` is
what follows: a committed allocation is not moved, and a cancelled invoice stays
so, also when payments still reach it.

### Amounts

`AmountProofs` proves, for every text and any decimals (only `AmountsAssumption`
is used), that `parse_amount` accepts what stands for an amount and nothing else
(`ParsesRepresentable`), and that `format_amount` shows of the units the amount
that was typed (`FormatsWhatWasTyped`). `Amounts` says what a text means without
units, as all its digits over a power of ten; the lemmas relate the two:
padding with zeroes is multiplying (`PaddedNumber`), two rows of digits one after
the other are one number (`NumberOfConcat`), the digits and the places that are
shown stand for what was divided (`DigitsStandFor`, `PlacesNumber`, where the
division rests on `QuotientByTen`).

`Power`, `NumberOf` and `DigitsOf` are recursive functions, and that such a
function exists and has the values it should is induction over data. The
library's theorems for it take operators as parameters, which no backend can
instantiate. `Recursion` and `Unique` say the same of functions and sets: a base,
a predecessor and a step are functions, equations along a decreasing measure
have a solution, and what obeys the equations is that solution. Both come from
the least element of a set of naturals, as does `FromZero`, induction over a set.

### Billing

`BillingProofs` proves, for any accounts, contracts, clerks, commands and
chains, any widths of integers, and any decimals (from the assumptions of
section 2):

| theorem | property |
|---|---|
| `TypeCorrect` | `TypeOK` |
| `RegisteredOnly` | `OnlyRegisteredIndexed` |
| `PaymentsAsSent` | `RecordedAsSent` |
| `MatchesNamed` | `MatchedToNamed` |
| `ReferencesFirst` | `ReferenceFirst` |
| `AmountsAsTyped` | `AmountAsTyped` |

Three facts about the operators carry the weight. `AmountRoundTrip`: the halves
of an i128 give back the number, for any width. `DecodeEmitted`: every event
the network emits for an intended transfer passes the filter and decodes, to
what was meant. `FoundIsNamed`: what `FindInvoice` returns is an invoice that
the payment's memo names; it needs `ParsedNumber`, that a text read as a
reference is that reference and no truncation of it.

The state invariants are small on top of these. `ShownInv` adds to
`AmountAsTyped` that a command on its way to the insert has an amount that
parses; `AmountProofs` is the rest of that theorem. `TypeInv` says of a row and of
a payment that they are those of their event. `WrittenInv` adds that a saved
position is never ahead of the one reached, and that an account which was paid
by a transfer whose row is written has been added: it cannot be added for the
first time later, with a beginning past that transfer and no payment of it. The
second half of `RecordedAsSent` is the rest of it. `MatchInv` adds that a decided payment exists
and that the invoice it went to was among those found; it survives later
inserts because invoices are never removed. `ReferencesFirst` needs that no two
invoices share a reference, which `TypeInv` keeps: references in use are below
the sequence.

## 6. What is only model-checked

Liveness under fairness is out of the prover's reach, and with it every
property that ends in "under fairness" in section 3. The safety properties of
all runs that pass, the action properties and the three refinements have
theorems; some of them need a hypothesis the code does not always meet
(`InOrder`, `Prompt`, one runner), which the run assumes as well. Four more
safety properties are theorems that no run lists: `CursorOnlyForward`,
`DeadWasTried`, `OnceDrains`, whose invariant `OnceSends` rests on, and
`OneBeginning`.

Two things are not stated as theorems. That `BreakDeadlock` is enabled whenever
all engines wait for each other rests on `TransitiveClosure`, whose definition
quantifies over sequences in a way the backends do not take; the deadlock check
of TLC and `EveryPayableMatches` cover it on two engines, and
`InvoicesContended` proves what such a cycle can be made of. And the violations
of section 7 are counterexamples, which need no proof.

## 7. Where the code and its documentation part

Four runs expect a violation of something the repository says of itself.

* `DispatchSkipped`: streams.rs:109, "an event can never be skipped". It can
  when two connections insert and the lower id commits last. The engine's
  cursor over `payments` has the same property (engine.rs:85); `NoneSkipped` is
  checked with commits in order.
* `ReconcileStarved`: docs/reconciliation.md:59. The recheck takes the oldest
  candidates, and one that is rechecked in vain stays the oldest.
* `ReconcileIgnored`: docs/reconciliation.md:61. `match_status` is read without
  a lock, and the update to `matched` names the payment by its id alone.
* `DispatchUndrained`: streams.rs:65, "Queue and send everything that is
  currently due". A full slice that matches no subscription ends the run, and
  what is wanted after it waits for another one, which starts with the next slice.
  `RunsDrain` proves that this is the only exception.

Others that the modules contain as behaviours and no run is spent on: a
delivery of a retired subscription is still claimed (`Due` does not look at
`subs`); a dispatcher that stalls past its lease can mark a delivered row dead
(`RecordFailure` does not look at the status; needs `Prompt = FALSE`); a payment
can be allocated to an invoice that was cancelled after `FindInvoice`.

README.md:115 says "restarts, crashes, and deploys never lose or double-process
events". An event row has no unique key (postgres_event_store.rs:43) and the
cursor is saved after the page, so what was stored of the page in hand is stored
again after a crash (`StoreEvent`, `Stop`). `PageReplayedOnly` proves that with
one runner it is never more than that page, `PaymentsOnce` that payments are not
doubled.

streams.rs:67 says that deliveries that fail are "left for a later run with
their backoff, not retried in a tight loop here". A pass waits for its slowest
request, 10 s at most, and the first backoff is 10 s: the next tick of the same
run can claim again what was refused at once in this one (`AfterTick`).

A contract stream that stops before its first cursor save asks for the tip again
and goes on from there (`LatestLedger`): of the ledgers in between nothing is
promised. `ReadingKept` says that this ends with the first save, and accounts,
which have a first ledger, do not lose their beginning at all (`ReadFromFirst`).
Two streams that see one transfer, a registered token's and an
account's, each store a row of it; `RecordedAsSent` and `PaidOnce` say that the
payment is one all the same.

Three more are visible in `Billing`. An invoice whose number was typed with
spaces around it is never found by that number, since the memo is trimmed and
the number is not (`Trim`, `NamesNumber`). Two invoices whose numbers differ
only in case are both named by one memo, and either may get the payment
(`Preferred`). And `EventuallyMatched` has to exclude an invoice whose number is
the digits of another's reference: a payment decided before its own invoice is
there goes to that one.

One is visible in `Reconciler` with `InOrder = FALSE`. `issued_at` and
`recorded_at` are the times at which two transactions began. When the invoice's
begins first and commits after the payment was decided, the payment is left
`no_invoice` and the invoice is not a newer one: the payment is rechecked when
some later invoice of the account makes it a candidate. `NoneStranded` says that
there is no other way to be left out of the recheck; it and `EveryPayableMatches`
are checked, and the first is proved, with inserts that commit in the order they
began.

## 8. What is not modelled, and why

* Encodings: XDR and base64, strkeys and muxed addresses, text that is not
  UTF-8. `Transfers` begins where an ScVal has been read.
* In `Reconciler`, what a payment names is a constant (`Keyless`, `ByReference`,
  `ByNumber`, `Asset`), in `Ingestor` so is which events are payments
  (`Paying`); `MatchRules` and `Transfers` model how the code tells.
* `validate_asset` and `validate_address` are membership in a constant. Amounts
  of custom tokens are shown with seven places like all others; negative ones
  are never shown.
* The request envelope, topic filters, the webhook's JSON and its signature,
  `paid_at`, names and descriptions, printing, argument parsing: data that no
  property tells apart.
* Of the supervisor: account rows edited by hand (skipped with a message), rows
  written before migration 0007, which have no first ledger and begin at the
  tip, a task that panics and stays in `running`, and what an aborted task still
  does until its next await.
* Listings (`payments`, `invoices`, `accounts`, `streams list`): they only read.
* The in-memory stores: used by tests (and, by `--accounts-only`, as the empty
  contract registry, which is the constant `AccountsOnly`).
* The connection pool: no logic of its own. It does bound how many statements
  are in flight; no transaction here waits for a second connection.
* `migrate.sh` applies files that may be applied again, in order, by hand, and
  keeps no state between them. The scheduled workflow calls the `--once` commands
  in order; each is modelled as a run that stops anywhere and is started again,
  which is all the workflow does to it.
* PostgreSQL itself is modelled from how the code uses it: read committed,
  row locks, unique indexes, `on conflict`, `skip locked`, deadlock detection.

## 9. What is left

A contract stream and an account stream over one `events` table, read by the
dispatcher, are not one module: what `Dispatcher` knows of the streams is that
they are `Writers`, which insert rows in any order (`DispatchSkipped`) or, with
`InOrder`, one after the other.
