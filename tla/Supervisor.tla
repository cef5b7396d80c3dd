----------------------------- MODULE Supervisor -----------------------------
(***************************************************************************)
(* `stardex run`: core/src/supervisor.rs with the registries of contracts  *)
(* and accounts it follows (contract_store.rs, account_store.rs) and the   *)
(* commands that change them.                                              *)
(*                                                                         *)
(* Any number of processes share the database, each started with or        *)
(* without --once.  The two registries are read by two statements, what    *)
(* has been read is acted on later, and each stream's task goes its way.   *)
(* A task is what Ingestor.tla describes, reduced to where its reading     *)
(* began and to the first save that makes this durable.                    *)
(***************************************************************************)
EXTENDS Naturals

CONSTANTS Contracts, Accounts,  \* the streams that may be registered
          Processes,            \* processes running `stardex run`
          AccountsOnly,         \* those of them that run with --accounts-only
          Broken,               \* streams whose every request fails
          MaxTip,               \* bound: the chain's tip stops here
          MaxFailures,          \* bound: crashes, database errors, other streams' errors
          None

Streams == Contracts \cup Accounts

ASSUME SupervisorAssumption ==
  /\ Contracts \cap Accounts = {}
  /\ AccountsOnly \subseteq Processes
  /\ MaxTip \in Nat \ {0}
  /\ MaxFailures \in Nat
  /\ None \notin Nat

VARIABLES
  tip,           \* the chain's latest ledger
  active,        \* the streams whose row in contracts or accounts is active
  asking,        \* per account, the tips `accounts add` commands have read
  first,         \* accounts.first_ledger, None when there is no row
  saved,         \* per stream, where the reading its cursor row continues began
  once,          \* the processes that were started with --once
  pc, specs,     \* per process: where it is, the streams read from the registries
  task,          \* per process and stream, its task
  failures,      \* counts against MaxFailures
  since, through \* history: when an account was added; what was active all through a run

registry == <<active, asking, first, since>>
runs == <<once, through>>
vars == <<tip, registry, saved, pc, specs, task, failures, runs>>

Ledgers == 1 .. MaxTip
StreamSpec == [key : Streams, start_ledger : Ledgers \cup {None}]

(* A task that is none is not in `running`. *)
Task == [phase : {"none", "fresh", "reading", "saved", "backoff", "ok", "failed"},
         start : Ledgers \cup {None}, from : Ledgers \cup {None}]
NoTask == [phase |-> "none", start |-> None, from |-> None]
Idle == [s \in Streams |-> NoTask]
Live == {"fresh", "reading", "saved", "backoff"}

TypeOK ==
  /\ tip \in Ledgers
  /\ active \in SUBSET Streams
  /\ asking \in [Accounts -> SUBSET Ledgers]
  /\ first \in [Accounts -> Ledgers \cup {None}]
  /\ saved \in [Streams -> Ledgers \cup {None}]
  /\ once \in SUBSET Processes
  /\ pc \in [Processes -> {"start", "contracts", "accounts", "spawn", "sleep", "join",
                           "ok", "failed"}]
  /\ specs \in [Processes -> SUBSET StreamSpec]
  /\ task \in [Processes -> [Streams -> Task]]
  /\ failures \in Nat
  /\ since \in [Accounts -> Ledgers \cup {None}]
  /\ through \in [Processes -> SUBSET Streams]

Init ==
  /\ tip = 1
  /\ active = {}
  /\ asking = [a \in Accounts |-> {}]
  /\ first = [a \in Accounts |-> None]
  /\ saved = [s \in Streams |-> None]
  /\ once \in SUBSET Processes
  /\ pc = [p \in Processes |-> "start"]
  /\ specs = [p \in Processes |-> {}]
  /\ task = [p \in Processes |-> Idle]
  /\ failures = 0
  /\ since = [a \in Accounts |-> None]
  /\ through = [p \in Processes |-> {}]

-----------------------------------------------------------------------------
(* The chain, and the commands that change the registries.                 *)

CloseLedger ==
  /\ tip < MaxTip
  /\ tip' = tip + 1
  /\ UNCHANGED <<registry, saved, pc, specs, task, failures, runs>>

Register(c) ==
  /\ c \notin active
  /\ active' = active \cup {c}
  /\ UNCHANGED <<tip, asking, first, since, saved, pc, specs, task, failures, runs>>

(* mutant: watching begins after the ledger RPC answers with *)
LatestNext == tip + 1

(* latest_ledger *)
Latest == tip

(* accounts add: the tip is read first, the row is written later. *)
AskTip(a) ==
  /\ asking' = [asking EXCEPT ![a] = @ \cup {Latest}]
  /\ UNCHANGED <<tip, active, first, since, saved, pc, specs, task, failures, runs>>

(* mutant: coalesce with its arguments swapped *)
ExcludedFirst(old, new) == new

(* coalesce(accounts.first_ledger, excluded.first_ledger) *)
Coalesce(old, new) == IF old = None THEN new ELSE old

AddAccount(a) ==
  /\ \E t \in asking[a] :
       /\ first' = [first EXCEPT ![a] = Coalesce(@, t)]
       /\ asking' = [asking EXCEPT ![a] = @ \ {t}]
  /\ active' = active \cup {a}
  /\ since' = [since EXCEPT ![a] = IF @ = None THEN tip ELSE @]
  /\ UNCHANGED <<tip, saved, pc, specs, task, failures, runs>>

(* unregister, remove: the row stays, with its first ledger. *)
Remove(s) ==
  /\ s \in active
  /\ active' = active \ {s}
  /\ through' = [p \in Processes |-> through[p] \ {s}]
  /\ UNCHANGED <<tip, asking, first, since, saved, once, pc, specs, task, failures>>

-----------------------------------------------------------------------------
(* cmd_run, watch and catch_up.                                            *)

Goto(p, place) == pc' = [pc EXCEPT ![p] = place]

(* The listing cmd_run prints; its errors end the process. *)
Start(p) ==
  /\ pc[p] = "start"
  /\ Goto(p, "contracts")
  /\ UNCHANGED <<tip, registry, saved, specs, task, failures, runs>>

(* CombinedRegistry::streams, the contracts; --accounts-only has none. *)
ListContracts(p) ==
  /\ pc[p] = "contracts"
  /\ specs' = [specs EXCEPT ![p] =
                 IF p \in AccountsOnly THEN {}
                 ELSE {[key |-> c, start_ledger |-> None] : c \in active \cap Contracts}]
  /\ Goto(p, "accounts")
  /\ UNCHANGED <<tip, registry, saved, task, failures, runs>>

(* CombinedRegistry::streams, the accounts. *)
ListAccounts(p) ==
  /\ pc[p] = "accounts"
  /\ specs' = [specs EXCEPT ![p] =
                 @ \cup {[key |-> a, start_ledger |-> first[a]] : a \in active \cap Accounts}]
  /\ Goto(p, "spawn")
  /\ UNCHANGED <<tip, registry, saved, task, failures, runs>>

(* A registry cannot be read: watch keeps what it has until the next tick. *)
ReadFails(p) ==
  /\ pc[p] \in {"start", "contracts", "accounts"}
  /\ failures < MaxFailures
  /\ failures' = failures + 1
  /\ specs' = [specs EXCEPT ![p] = {}]
  /\ Goto(p, IF pc[p] = "start" \/ p \in once THEN "failed" ELSE "sleep")
  /\ UNCHANGED <<tip, registry, saved, task, runs>>

Spawned(spec) == [phase |-> "fresh", start |-> spec.start_ledger, from |-> None]

(* mutant: what is no longer wanted goes on *)
KeptTask(t) == t

(* abort *)
DroppedTask(t) == NoTask

(* The task of s once the specs are reconciled with what is running: a key *)
(* that is there keeps its task, and the spec it was spawned with.         *)
Reconciled(p, s) ==
  LET t == task[p][s]
      mine == {spec \in specs[p] : spec.key = s}
  IN IF mine = {} THEN DroppedTask(t)
     ELSE IF t.phase # "none" THEN t
     ELSE Spawned(CHOOSE spec \in mine : TRUE)

(* Supervisor::reconcile, and the spawning of catch_up. *)
Spawn(p) ==
  /\ pc[p] = "spawn"
  /\ task' = [task EXCEPT ![p] = [s \in Streams |-> Reconciled(p, s)]]
  /\ specs' = [specs EXCEPT ![p] = {}]
  /\ Goto(p, IF p \in once THEN "join" ELSE "sleep")
  /\ UNCHANGED <<tip, registry, saved, failures, runs>>

Wake(p) ==
  /\ pc[p] = "sleep"
  /\ Goto(p, "contracts")
  /\ UNCHANGED <<tip, registry, saved, specs, task, failures, runs>>

SomeFailed(p) == \E s \in Streams : task[p][s].phase = "failed"

(* mutant: the first failure ends catch_up *)
JoinedOrFailed(p) == SomeFailed(p) \/ \A s \in Streams : task[p][s].phase \notin Live

Joined(p) == \A s \in Streams : task[p][s].phase \notin Live

(* catch_up returns, and cmd_run exits with what it says. *)
Join(p) ==
  /\ pc[p] = "join"
  /\ Joined(p)
  /\ Goto(p, IF SomeFailed(p) THEN "failed" ELSE "ok")
  /\ UNCHANGED <<tip, registry, saved, specs, task, failures, runs>>

(* A new process, with --once or without; history: what is active then. *)
BeginRun(p) ==
  /\ once' \in {once \cup {p}, once \ {p}}
  /\ Goto(p, "start")
  /\ specs' = [specs EXCEPT ![p] = {}]
  /\ task' = [task EXCEPT ![p] = Idle]
  /\ through' = [through EXCEPT ![p] = active]
  /\ UNCHANGED <<tip, registry, saved>>

Crash(p) ==
  /\ pc[p] \notin {"start", "ok", "failed"}
  /\ failures < MaxFailures
  /\ failures' = failures + 1
  /\ BeginRun(p)

RunAgain(p) ==
  /\ pc[p] \in {"ok", "failed"}
  /\ BeginRun(p)
  /\ UNCHANGED failures

-----------------------------------------------------------------------------
(* A stream's task.                                                        *)

Becomes(p, s, t) ==
  /\ task' = [task EXCEPT ![p][s] = t]
  /\ UNCHANGED <<tip, registry, pc, specs, runs>>

(* mutant: the account's first ledger is not asked for *)
FromTip(p, s) == IF saved[s] # None THEN saved[s] ELSE tip

(* The saved cursor, or the spec's ledger, or the tip. *)
From(p, s) == IF saved[s] # None THEN saved[s]
              ELSE IF task[p][s].start # None THEN task[p][s].start ELSE tip

Begin(p, s) ==
  /\ task[p][s].phase = "fresh"
  /\ Becomes(p, s, [phase |-> "reading", start |-> task[p][s].start, from |-> From(p, s)])
  /\ UNCHANGED <<saved, failures>>

SaveCursor(p, s) ==
  /\ task[p][s].phase = "reading"
  /\ s \notin Broken
  /\ saved' = [saved EXCEPT ![s] = task[p][s].from]
  /\ Becomes(p, s, [task[p][s] EXCEPT !.phase = "saved"])
  /\ UNCHANGED failures

(* catch_up_stream returns. *)
Finish(p, s) ==
  /\ task[p][s].phase = "saved"
  /\ p \in once
  /\ Becomes(p, s, [task[p][s] EXCEPT !.phase = "ok"])
  /\ UNCHANGED <<saved, failures>>

(* mutant: the error ends the task *)
Ended(p) == "failed"

(* mutant: the task of a --once run is restarted too *)
Restarted(p) == "backoff"

(* spawn restarts the task after a pause, catch_up reports its error. *)
AfterError(p) == IF p \in once THEN "failed" ELSE "backoff"

Fails(p, s) ==
  /\ task[p][s].phase \in {"fresh", "reading", "saved"}
  /\ Becomes(p, s, [phase |-> AfterError(p), start |-> task[p][s].start, from |-> None])
  /\ UNCHANGED saved

FailsAsAlways(p, s) ==
  /\ s \in Broken
  /\ Fails(p, s)
  /\ UNCHANGED failures

FailsOnce(p, s) ==
  /\ s \notin Broken
  /\ failures < MaxFailures
  /\ failures' = failures + 1
  /\ Fails(p, s)

Restart(p, s) ==
  /\ task[p][s].phase = "backoff"
  /\ Becomes(p, s, [task[p][s] EXCEPT !.phase = "fresh"])
  /\ UNCHANGED <<saved, failures>>

-----------------------------------------------------------------------------
Step(p) == \/ Start(p) \/ ListContracts(p) \/ ListAccounts(p)
           \/ Spawn(p) \/ Wake(p) \/ Join(p)

TaskStep(p, s) == \/ Begin(p, s) \/ SaveCursor(p, s) \/ Finish(p, s)
                  \/ FailsAsAlways(p, s) \/ Restart(p, s)

Next ==
  \/ CloseLedger
  \/ \E c \in Contracts : Register(c)
  \/ \E a \in Accounts : AskTip(a) \/ AddAccount(a)
  \/ \E s \in Streams : Remove(s)
  \/ \E p \in Processes : Step(p) \/ ReadFails(p) \/ Crash(p) \/ RunAgain(p)
  \/ \E p \in Processes, s \in Streams : TaskStep(p, s) \/ FailsOnce(p, s)

Spec == Init /\ [][Next]_vars

(* The runtime polls every process and every task.  Users, the chain and   *)
(* whoever starts a process again owe nothing.                             *)
Fairness == /\ \A p \in Processes : WF_vars(Step(p))
            /\ \A p \in Processes, s \in Streams : WF_vars(TaskStep(p, s))

LiveSpec == Spec /\ Fairness

-----------------------------------------------------------------------------
(* Properties.                                                             *)

(* account_store.rs, first_ledger: "payments made before the watcher first *)
(* runs are not missed": whatever is removed, added again by several hands *)
(* or restarted before the stream's first save, its reading began no later *)
(* than the account was first added.                                       *)
WatchedSinceAdded ==
  \A a \in Accounts : saved[a] # None => since[a] # None /\ saved[a] <= since[a]

(* However often an account is added, removed, or its stream restarted     *)
(* beside another process's, all that is ever saved of it continues one    *)
(* reading: the one that began at the ledger its row was first written     *)
(* with, so no save moves the beginning past what another one promised.    *)
OneBeginning == \A a \in Accounts : saved[a] # None => saved[a] = first[a]

(* The streams p runs when they are registered. *)
Followed(p) == IF p \in AccountsOnly THEN Accounts ELSE Streams

(* supervisor.rs, catch_up: "the others still finish": a --once run is over *)
(* only when no stream is cut off, and exits with success only when every  *)
(* stream of its kind that was registered all through it is caught up.     *)
OnceTellsAll ==
  \A p \in once :
    /\ pc[p] \in {"ok", "failed"} => \A s \in Streams : task[p][s].phase \notin Live
    /\ pc[p] = "ok" => \A s \in through[p] \cap Followed(p) : task[p][s].phase = "ok"

(* supervisor.rs: "one stream's failure never stalls the others", "streams *)
(* added while running are picked up": while watch goes on, a stream that  *)
(* stays registered and whose requests do not fail for ever gets its task, *)
(* and that comes through its failures, be other streams broken or not.    *)
AddedIsRead ==
  \A p \in Processes : \A s \in Followed(p) \ Broken :
    <>[](p \notin once /\ pc[p] # "failed" /\ s \in active) =>
      <>[](task[p][s].phase = "saved")

(* supervisor.rs, reconcile: a stream that stays removed is stopped for    *)
(* good, the tasks of the others or not.                                   *)
RemovedStops ==
  \A p \in Processes, s \in Streams :
    <>[](p \notin once /\ s \notin active) => <>[](task[p][s].phase = "none")

(* `run --once` returns, although streams fail, are added and are removed. *)
OnceReturns ==
  \A p \in Processes : p \in once ~> p \notin once \/ pc[p] \in {"ok", "failed"}
=============================================================================
