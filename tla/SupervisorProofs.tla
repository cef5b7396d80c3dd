-------------------------- MODULE SupervisorProofs --------------------------
(***************************************************************************)
(* Theorems about Supervisor.tla, for every set of streams and processes   *)
(* and without its bounds on failures.                                     *)
(***************************************************************************)
EXTENDS Supervisor, TLAPS

(* A command in flight holds a tip of the past. *)
AskedPast == \A a \in Accounts : \A t \in asking[a] : t <= tip

(* first_ledger is written when the account is first added, and is not     *)
(* later than that moment.                                                 *)
FirstInTime(a) ==
  /\ first[a] = None <=> since[a] = None
  /\ first[a] # None => first[a] <= since[a]

ActiveHasFirst == \A a \in active \cap Accounts : first[a] # None

RegistryInv == /\ AskedPast
               /\ \A a \in Accounts : FirstInTime(a)
               /\ ActiveHasFirst

(* What a process has read of an account may be old, but not wrong: a      *)
(* first ledger does not change.                                           *)
SpecsInTime(p) ==
  \A spec \in specs[p] : spec.key \in Accounts =>
    first[spec.key] # None /\ spec.start_ledger = first[spec.key]

(* Nor is what a task was spawned with, or where it has begun.             *)
TaskInTime(p, a) ==
  task[p][a].phase # "none" =>
    /\ first[a] # None
    /\ task[p][a].start = first[a]
    /\ task[p][a].phase \in {"reading", "saved"} =>
         task[p][a].from # None /\ task[p][a].from <= since[a]

(* The inductive invariant: the tips `accounts add` holds, the row, what a *)
(* process has read of it, its tasks and the cursor row each depend on the *)
(* one before.                                                             *)
IInv == /\ TypeOK
        /\ RegistryInv
        /\ \A p \in Processes : SpecsInTime(p)
        /\ \A p \in Processes, a \in Accounts : TaskInTime(p, a)
        /\ WatchedSinceAdded

-----------------------------------------------------------------------------
(* A task is a record of its three fields, and a change of its phase is.   *)
LEMMA TaskFields ==
  ASSUME NEW t \in Task,
         NEW ph \in {"none", "fresh", "reading", "saved", "backoff", "ok", "failed"},
         NEW f \in Ledgers \cup {None}
  PROVE  /\ [t EXCEPT !.phase = ph] \in Task
         /\ [phase |-> ph, start |-> t.start, from |-> f] \in Task
         /\ t.from \in Ledgers \cup {None}
BY DEF Task

LEMMA PhaseChanged ==
  ASSUME NEW t \in Task, NEW ph, NEW u, u = [t EXCEPT !.phase = ph]
  PROVE  u.phase = ph /\ u.start = t.start /\ u.from = t.from
BY DEF Task

LEMMA TypeStep ==
  ASSUME TypeOK, [Next]_vars
  PROVE  TypeOK'
<1> USE SupervisorAssumption DEF TypeOK, registry, runs
<1>1. CASE CloseLedger
  BY <1>1 DEF CloseLedger, Ledgers, StreamSpec, Task
<1>2. ASSUME NEW c \in Contracts, Register(c) PROVE TypeOK'
  BY <1>2 DEF Register, Streams
<1>3. ASSUME NEW a \in Accounts, AskTip(a) PROVE TypeOK'
  BY <1>3 DEF AskTip, Latest
<1>4. ASSUME NEW a \in Accounts, AddAccount(a) PROVE TypeOK'
  <2>1. PICK t \in asking[a] : /\ first' = [first EXCEPT ![a] = Coalesce(@, t)]
                               /\ asking' = [asking EXCEPT ![a] = @ \ {t}]
    BY <1>4 DEF AddAccount
  <2>2. first' \in [Accounts -> Ledgers \cup {None}]
    BY <2>1 DEF Coalesce
  <2>3. asking' \in [Accounts -> SUBSET Ledgers]
    BY <2>1
  <2> QED BY <1>4, <2>2, <2>3 DEF AddAccount, Streams
<1>5. ASSUME NEW s \in Streams, Remove(s) PROVE TypeOK'
  BY <1>5 DEF Remove
<1>6. ASSUME NEW p \in Processes, Start(p) PROVE TypeOK'
  BY <1>6 DEF Start, Goto
<1>7. ASSUME NEW p \in Processes, ListContracts(p) PROVE TypeOK'
  <2>1. {[key |-> c, start_ledger |-> None] : c \in active \cap Contracts} \in SUBSET StreamSpec
    BY DEF StreamSpec
  <2> QED BY <1>7, <2>1 DEF ListContracts, Goto
<1>8. ASSUME NEW p \in Processes, ListAccounts(p) PROVE TypeOK'
  <2>1. {[key |-> a, start_ledger |-> first[a]] : a \in active \cap Accounts} \in SUBSET StreamSpec
    BY DEF StreamSpec
  <2> QED BY <1>8, <2>1 DEF ListAccounts, Goto
<1>9. ASSUME NEW p \in Processes, ReadFails(p) PROVE TypeOK'
  BY <1>9 DEF ReadFails, Goto
<1>10. NoTask \in Task
  BY DEF NoTask, Task
<1>11. ASSUME NEW p \in Processes, Spawn(p) PROVE TypeOK'
  <2>1. ASSUME NEW s \in Streams PROVE Reconciled(p, s) \in Task
    <3> DEFINE mine == {spec \in specs[p] : spec.key = s}
    <3>1. mine # {} => (CHOOSE spec \in mine : TRUE) \in StreamSpec
      OBVIOUS
    <3>2. ASSUME NEW spec \in StreamSpec PROVE Spawned(spec) \in Task
      BY DEF Spawned, StreamSpec, Task
    <3>3. task[p][s] \in Task
      OBVIOUS
    <3> HIDE DEF mine
    <3> QED BY <1>10, <3>1, <3>2, <3>3 DEF Reconciled, DroppedTask, mine
  <2>2. task' \in [Processes -> [Streams -> Task]]
    BY <1>11, <2>1 DEF Spawn
  <2> QED BY <1>11, <2>2 DEF Spawn, Goto
<1>12. ASSUME NEW p \in Processes, Wake(p) PROVE TypeOK'
  BY <1>12 DEF Wake, Goto
<1>13. ASSUME NEW p \in Processes, Join(p) PROVE TypeOK'
  BY <1>13 DEF Join, Goto
<1>14. ASSUME NEW p \in Processes, BeginRun(p), failures' \in Nat PROVE TypeOK'
  BY <1>10, <1>14 DEF BeginRun, Goto, Idle
<1>15. ASSUME NEW p \in Processes, Crash(p) PROVE TypeOK'
  BY <1>14, <1>15 DEF Crash
<1>16. ASSUME NEW p \in Processes, RunAgain(p) PROVE TypeOK'
  BY <1>14, <1>16 DEF RunAgain
<1>17. ASSUME NEW p \in Processes, NEW s \in Streams, NEW t \in Task, Becomes(p, s, t),
              saved' \in [Streams -> Ledgers \cup {None}], failures' \in Nat
       PROVE  TypeOK'
  BY <1>17 DEF Becomes
<1>18. ASSUME NEW p \in Processes, NEW s \in Streams PROVE task[p][s] \in Task
  OBVIOUS
<1>19. ASSUME NEW p \in Processes, NEW s \in Streams, Begin(p, s) PROVE TypeOK'
  <2>1. From(p, s) \in Ledgers
    BY <1>18 DEF From, Task
  <2>2. [phase |-> "reading", start |-> task[p][s].start, from |-> From(p, s)] \in Task
    BY <1>18, <2>1, TaskFields
  <2>3. /\ Becomes(p, s, [phase |-> "reading", start |-> task[p][s].start, from |-> From(p, s)])
        /\ saved' = saved /\ failures' = failures
    BY <1>19 DEF Begin
  <2> QED BY <1>17, <2>2, <2>3
<1>20. ASSUME NEW p \in Processes, NEW s \in Streams, SaveCursor(p, s) PROVE TypeOK'
  <2>1. [task[p][s] EXCEPT !.phase = "saved"] \in Task /\ task[p][s].from \in Ledgers \cup {None}
    BY <1>18, TaskFields
  <2>2. /\ Becomes(p, s, [task[p][s] EXCEPT !.phase = "saved"])
        /\ saved' = [saved EXCEPT ![s] = task[p][s].from] /\ failures' = failures
    BY <1>20 DEF SaveCursor
  <2>3. saved' \in [Streams -> Ledgers \cup {None}]
    BY <2>1, <2>2
  <2> QED BY <1>17, <2>1, <2>2, <2>3
<1>21. ASSUME NEW p \in Processes, NEW s \in Streams, Finish(p, s) PROVE TypeOK'
  <2>1. [task[p][s] EXCEPT !.phase = "ok"] \in Task
    BY <1>18, TaskFields
  <2>2. /\ Becomes(p, s, [task[p][s] EXCEPT !.phase = "ok"])
        /\ saved' = saved /\ failures' = failures
    BY <1>21 DEF Finish
  <2> QED BY <1>17, <2>1, <2>2
<1>22. ASSUME NEW p \in Processes, NEW s \in Streams, Fails(p, s), failures' \in Nat
       PROVE  TypeOK'
  <2>1. AfterError(p) \in {"backoff", "failed"}
    BY DEF AfterError
  <2>2. [phase |-> AfterError(p), start |-> task[p][s].start, from |-> None] \in Task
    BY <1>18, <2>1, TaskFields
  <2>3. /\ Becomes(p, s, [phase |-> AfterError(p), start |-> task[p][s].start, from |-> None])
        /\ saved' = saved
    BY <1>22 DEF Fails
  <2> QED BY <1>17, <1>22, <2>2, <2>3
<1>23. ASSUME NEW p \in Processes, NEW s \in Streams, Restart(p, s) PROVE TypeOK'
  <2>1. [task[p][s] EXCEPT !.phase = "fresh"] \in Task
    BY <1>18, TaskFields
  <2>2. /\ Becomes(p, s, [task[p][s] EXCEPT !.phase = "fresh"])
        /\ saved' = saved /\ failures' = failures
    BY <1>23 DEF Restart
  <2> QED BY <1>17, <2>1, <2>2
<1>24. CASE UNCHANGED vars
  BY <1>24 DEF vars
<1> QED
  BY <1>1, <1>2, <1>3, <1>4, <1>5, <1>6, <1>7, <1>8, <1>9, <1>11, <1>12, <1>13, <1>15, <1>16,
     <1>19, <1>20, <1>21, <1>22, <1>23, <1>24
  DEF Next, Step, TaskStep, FailsAsAlways, FailsOnce

-----------------------------------------------------------------------------
LEMMA InitInv == Init => IInv
<1> SUFFICES ASSUME Init PROVE IInv
  OBVIOUS
<1> USE SupervisorAssumption DEF Init
<1>1. TypeOK
  BY DEF TypeOK, Ledgers, Idle, NoTask, Task
<1>2. RegistryInv
  BY DEF RegistryInv, AskedPast, FirstInTime, ActiveHasFirst
<1>3. ASSUME NEW p \in Processes, NEW a \in Accounts PROVE TaskInTime(p, a)
  BY DEF TaskInTime, Idle, NoTask, Streams
<1>4. \A p \in Processes : SpecsInTime(p)
  BY DEF SpecsInTime
<1>5. WatchedSinceAdded
  BY DEF WatchedSinceAdded, Streams
<1> QED BY <1>1, <1>2, <1>3, <1>4, <1>5 DEF IInv

(* Once an account has a first ledger, neither it nor the moment of its    *)
(* first add changes: the upsert coalesces, and a removal keeps the row.   *)
Kept == \A a \in Accounts :
          first[a] # None => first'[a] = first[a] /\ since'[a] = since[a]

LEMMA RegistryStep ==
  ASSUME TypeOK, RegistryInv, [Next]_vars
  PROVE  RegistryInv' /\ Kept
<1> USE SupervisorAssumption
    DEF RegistryInv, AskedPast, FirstInTime, ActiveHasFirst, Kept, registry
<1>1. CASE UNCHANGED <<tip, registry>>
  BY <1>1
<1>2. CASE CloseLedger
  <2>1. tip' = tip + 1 /\ UNCHANGED registry
    BY <1>2 DEF CloseLedger
  <2>2. \A a \in Accounts : \A t \in asking[a] : t \in Nat /\ tip \in Nat
    BY DEF TypeOK, Ledgers
  <2>3. AskedPast'
    BY <2>1, <2>2
  <2> QED BY <2>1, <2>3
<1>3. ASSUME NEW c \in Contracts, Register(c) PROVE RegistryInv' /\ Kept
  BY <1>3 DEF Register
<1>4. ASSUME NEW a \in Accounts, AskTip(a) PROVE RegistryInv' /\ Kept
  <2>1. /\ asking' = [asking EXCEPT ![a] = @ \cup {tip}]
        /\ UNCHANGED <<tip, active, first, since>>
    BY <1>4 DEF AskTip, Latest
  <2>2. tip \in Nat /\ asking \in [Accounts -> SUBSET Ledgers]
    BY DEF TypeOK, Ledgers
  <2>3. AskedPast'
    BY <2>1, <2>2
  <2> QED BY <2>1, <2>3
<1>5. ASSUME NEW a \in Accounts, AddAccount(a) PROVE RegistryInv' /\ Kept
  <2>1. PICK t \in asking[a] : /\ first' = [first EXCEPT ![a] = Coalesce(@, t)]
                               /\ asking' = [asking EXCEPT ![a] = @ \ {t}]
    BY <1>5 DEF AddAccount
  <2>2. /\ active' = active \cup {a}
        /\ since' = [since EXCEPT ![a] = IF @ = None THEN tip ELSE @]
        /\ tip' = tip
    BY <1>5 DEF AddAccount
  <2>3. /\ t \in Nat /\ tip \in Nat /\ t <= tip
        /\ first \in [Accounts -> Ledgers \cup {None}]
        /\ since \in [Accounts -> Ledgers \cup {None}]
        /\ asking \in [Accounts -> SUBSET Ledgers]
    BY DEF TypeOK, Ledgers
  <2>4. AskedPast'
    BY <2>1, <2>2, <2>3
  <2>5. ASSUME NEW b \in Accounts
        PROVE  /\ FirstInTime(b)'
               /\ first[b] # None => first'[b] = first[b] /\ since'[b] = since[b]
    <3>1. CASE b = a
      BY <2>1, <2>2, <2>3, <3>1 DEF Coalesce
    <3>2. CASE b # a
      BY <2>1, <2>2, <2>3, <3>2
    <3> QED BY <3>1, <3>2
  <2>6. ActiveHasFirst'
    BY <2>1, <2>2, <2>3 DEF Coalesce
  <2> QED BY <2>4, <2>5, <2>6
<1>6. ASSUME NEW s \in Streams, Remove(s) PROVE RegistryInv' /\ Kept
  BY <1>6 DEF Remove
<1>7. ASSUME NEW p \in Processes, Step(p) \/ ReadFails(p) \/ Crash(p) \/ RunAgain(p)
      PROVE  UNCHANGED <<tip, registry>>
  BY <1>7 DEF Step, Start, ListContracts, ListAccounts, ReadFails, Spawn, Wake, Join, BeginRun,
              Crash, RunAgain
<1>8. ASSUME NEW p \in Processes, NEW s \in Streams, TaskStep(p, s) \/ FailsOnce(p, s)
      PROVE  UNCHANGED <<tip, registry>>
  BY <1>8 DEF TaskStep, Becomes, Begin, SaveCursor, Finish, Fails, FailsAsAlways, FailsOnce,
              Restart
<1>9. CASE UNCHANGED vars
  BY <1>1, <1>9 DEF vars
<1> HIDE DEF RegistryInv, Kept, registry
<1> QED
  BY <1>1, <1>2, <1>3, <1>4, <1>5, <1>6, <1>7, <1>8, <1>9 DEF Next

LEMMA SpecsStep ==
  ASSUME IInv, [Next]_vars, NEW p \in Processes
  PROVE  SpecsInTime(p)'
<1>1. TypeOK /\ RegistryInv /\ SpecsInTime(p)
  BY DEF IInv
<1>2. Kept
  BY <1>1, RegistryStep
<1>3. specs \in [Processes -> SUBSET StreamSpec]
  BY <1>1 DEF TypeOK
<1>4. CASE specs'[p] \subseteq specs[p]
  BY <1>1, <1>2, <1>4 DEF SpecsInTime, Kept
<1>5. ASSUME NEW q \in Processes, ListContracts(q) PROVE SpecsInTime(p)'
  <2>1. first' = first
    BY <1>5 DEF ListContracts, registry
  <2>2. CASE q # p
    BY <1>3, <1>4, <1>5, <2>2 DEF ListContracts
  <2>3. CASE q = p
    <3>1. \A spec \in specs'[p] : spec.key \in Contracts
      BY <1>3, <1>5, <2>3 DEF ListContracts
    <3> QED BY <3>1, SupervisorAssumption DEF SpecsInTime
  <2> QED BY <2>2, <2>3
<1>6. ASSUME NEW q \in Processes, ListAccounts(q) PROVE SpecsInTime(p)'
  <2>1. first' = first
    BY <1>6 DEF ListAccounts, registry
  <2>2. CASE q # p
    BY <1>3, <1>4, <1>6, <2>2 DEF ListAccounts
  <2>3. CASE q = p
    <3>1. specs'[p] = specs[p] \cup
                      {[key |-> a, start_ledger |-> first[a]] : a \in active \cap Accounts}
      BY <1>3, <1>6, <2>3 DEF ListAccounts
    <3> QED BY <1>1, <2>1, <3>1 DEF SpecsInTime, RegistryInv, ActiveHasFirst
  <2> QED BY <2>2, <2>3
<1>7. ASSUME NEW q \in Processes, specs' = [specs EXCEPT ![q] = {}] PROVE SpecsInTime(p)'
  BY <1>3, <1>4, <1>7
<1>8. CASE UNCHANGED specs
  BY <1>4, <1>8
<1> QED
  BY <1>5, <1>6, <1>7, <1>8
  DEF Next, Step, TaskStep, CloseLedger, Register, AskTip, AddAccount, Remove, Start, ReadFails,
      Spawn, Wake, Join, BeginRun, Crash, RunAgain, Becomes, Begin, SaveCursor, Finish, Fails,
      FailsAsAlways, FailsOnce, Restart, vars

(* What Becomes leaves alone. *)
LEMMA OtherTasks ==
  ASSUME TypeOK, NEW p \in Processes, NEW s \in Streams, NEW t, Becomes(p, s, t)
  PROVE  /\ task'[p][s] = t
         /\ \A q \in Processes, r \in Streams :
              q # p \/ r # s => task'[q][r] = task[q][r]
         /\ first' = first /\ since' = since
BY DEF TypeOK, Becomes, registry

LEMMA TaskInTimeStep ==
  ASSUME IInv, [Next]_vars, NEW p \in Processes, NEW a \in Accounts
  PROVE  TaskInTime(p, a)'
<1>1. TypeOK /\ RegistryInv /\ SpecsInTime(p) /\ TaskInTime(p, a) /\ WatchedSinceAdded
  BY DEF IInv
<1>2. Kept
  BY <1>1, RegistryStep
<1>3. a \in Streams
  BY DEF Streams
<1>4. task \in [Processes -> [Streams -> Task]] /\ task[p][a] \in Task
  BY <1>1, <1>3 DEF TypeOK
<1>5. CASE task'[p][a] = task[p][a]
  BY <1>1, <1>2, <1>5 DEF TaskInTime, Kept
<1>6. CASE task'[p][a] = NoTask
  BY <1>6 DEF TaskInTime, NoTask
<1>7. ASSUME NEW q \in Processes, Spawn(q) PROVE TaskInTime(p, a)'
  <2>1. first' = first
    BY <1>7 DEF Spawn, registry
  <2>2. CASE q # p
    BY <1>4, <1>5, <1>7, <2>2 DEF Spawn
  <2>3. CASE q = p
    <3> DEFINE mine == {spec \in specs[p] : spec.key = a}
    <3>1. task'[p][a] = Reconciled(p, a)
      BY <1>3, <1>4, <1>7, <2>3 DEF Spawn
    <3>2. CASE mine = {}
      BY <1>6, <3>1, <3>2 DEF Reconciled, DroppedTask
    <3>3. CASE mine # {} /\ task[p][a].phase # "none"
      BY <1>5, <3>1, <3>3 DEF Reconciled
    <3>4. CASE mine # {} /\ task[p][a].phase = "none"
      <4>1. PICK spec \in mine : task'[p][a] = Spawned(spec)
        BY <3>1, <3>4 DEF Reconciled
      <4>2. first[a] # None /\ spec.start_ledger = first[a]
        BY <1>1, <4>1 DEF SpecsInTime
      <4> QED BY <2>1, <4>1, <4>2 DEF TaskInTime, Spawned
    <3> QED BY <3>2, <3>3, <3>4
  <2> QED BY <2>2, <2>3
<1>8. ASSUME NEW q \in Processes, BeginRun(q) PROVE TaskInTime(p, a)'
  BY <1>3, <1>4, <1>5, <1>6, <1>8 DEF BeginRun, Idle
<1>9. ASSUME NEW q \in Processes, NEW s \in Streams, NEW t, Becomes(q, s, t), q # p \/ s # a
      PROVE  TaskInTime(p, a)'
  BY <1>1, <1>3, <1>5, <1>9, OtherTasks
<1>10. ASSUME NEW t \in Task, Becomes(p, a, t),
              t.phase # "none" =>
                /\ first[a] # None
                /\ t.start = first[a]
                /\ t.phase \in {"reading", "saved"} => t.from # None /\ t.from <= since[a]
       PROVE  TaskInTime(p, a)'
  <2>1. task'[p][a] = t /\ first' = first /\ since' = since
    BY <1>1, <1>3, <1>10, OtherTasks
  <2> QED BY <1>10, <2>1 DEF TaskInTime
<1>11. ASSUME NEW q \in Processes, NEW s \in Streams, Begin(q, s) PROVE TaskInTime(p, a)'
  <2> DEFINE t == [phase |-> "reading", start |-> task[p][a].start, from |-> From(p, a)]
  <2>1. CASE q = p /\ s = a
    <3>1. task[p][a].phase = "fresh" /\ Becomes(p, a, t)
      BY <1>11, <2>1 DEF Begin
    <3>2. first[a] # None /\ first[a] <= since[a] /\ task[p][a].start = first[a]
      BY <1>1, <3>1 DEF TaskInTime, RegistryInv, FirstInTime
    <3>3. From(p, a) # None /\ From(p, a) <= since[a]
      BY <1>1, <3>2 DEF From, WatchedSinceAdded
    <3>4. From(p, a) \in Ledgers \cup {None}
      BY <1>1, <1>3, <1>4, <3>2, TaskFields DEF From, TypeOK
    <3>5. t \in Task
      BY <1>4, <3>4, TaskFields
    <3> QED BY <1>10, <3>1, <3>2, <3>3, <3>5
  <2>2. CASE q # p \/ s # a
    BY <1>9, <1>11, <2>2 DEF Begin
  <2> QED BY <2>1, <2>2
<1>12. ASSUME NEW ph \in {"saved", "ok", "fresh"},
              Becomes(p, a, [task[p][a] EXCEPT !.phase = ph]),
              task[p][a].phase # "none",
              ph = "saved" => task[p][a].phase = "reading"
       PROVE  TaskInTime(p, a)'
  <2> DEFINE t == [task[p][a] EXCEPT !.phase = ph]
  <2>1. t \in Task /\ t = [task[p][a] EXCEPT !.phase = ph]
    BY <1>4, TaskFields
  <2>2. Becomes(p, a, t)
    BY <1>12
  <2> HIDE DEF t
  <2>3. t.phase = ph /\ t.start = task[p][a].start /\ t.from = task[p][a].from
    BY <1>4, <2>1, PhaseChanged
  <2> QED BY <1>1, <1>10, <1>12, <2>1, <2>2, <2>3 DEF TaskInTime
<1>13. ASSUME NEW q \in Processes, NEW s \in Streams,
              SaveCursor(q, s) \/ Finish(q, s) \/ Restart(q, s)
       PROVE  TaskInTime(p, a)'
  <2>1. PICK ph \in {"saved", "ok", "fresh"} :
          /\ Becomes(q, s, [task[q][s] EXCEPT !.phase = ph])
          /\ task[q][s].phase # "none"
          /\ ph = "saved" => task[q][s].phase = "reading"
    BY <1>13 DEF SaveCursor, Finish, Restart
  <2>2. CASE q = p /\ s = a
    BY <1>12, <2>1, <2>2
  <2>3. CASE q # p \/ s # a
    BY <1>9, <2>1, <2>3
  <2> QED BY <2>2, <2>3
<1>14. ASSUME NEW q \in Processes, NEW s \in Streams, Fails(q, s) PROVE TaskInTime(p, a)'
  <2> DEFINE t == [phase |-> AfterError(p), start |-> task[p][a].start, from |-> None]
  <2>1. CASE q = p /\ s = a
    <3>1. /\ task[p][a].phase \in {"fresh", "reading", "saved"}
          /\ Becomes(p, a, t)
      BY <1>14, <2>1 DEF Fails
    <3>2. AfterError(p) \in {"backoff", "failed"}
      BY DEF AfterError
    <3>3. t \in Task
      BY <1>4, <3>2, TaskFields
    <3> QED BY <1>1, <1>10, <3>1, <3>2, <3>3 DEF TaskInTime
  <2>2. CASE q # p \/ s # a
    BY <1>9, <1>14, <2>2 DEF Fails
  <2> QED BY <2>1, <2>2
<1>15. CASE UNCHANGED task
  BY <1>5, <1>15
<1> QED
  BY <1>7, <1>8, <1>11, <1>13, <1>14, <1>15
  DEF Next, Step, TaskStep, CloseLedger, Register, AskTip, AddAccount, Remove, Start, ReadFails,
      ListContracts, ListAccounts, Wake, Join, Crash, RunAgain, FailsAsAlways, FailsOnce, vars

LEMMA SavedStep ==
  ASSUME IInv, [Next]_vars
  PROVE  WatchedSinceAdded'
<1>1. TypeOK /\ RegistryInv /\ WatchedSinceAdded
  BY DEF IInv
<1>2. Kept
  BY <1>1, RegistryStep
<1>3. CASE UNCHANGED saved
  BY <1>1, <1>2, <1>3 DEF WatchedSinceAdded, RegistryInv, FirstInTime, Kept
<1>4. ASSUME NEW p \in Processes, NEW s \in Streams, SaveCursor(p, s) PROVE WatchedSinceAdded'
  <2>1. /\ task[p][s].phase = "reading"
        /\ saved' = [saved EXCEPT ![s] = task[p][s].from]
        /\ UNCHANGED <<first, since>>
    BY <1>4 DEF SaveCursor, Becomes, registry
  <2>2. s \in Accounts => since[s] # None /\ task[p][s].from <= since[s]
    BY <1>1, <2>1 DEF IInv, TaskInTime, RegistryInv, FirstInTime
  <2>3. saved \in [Streams -> Ledgers \cup {None}]
    BY <1>1 DEF TypeOK
  <2> QED BY <1>1, <2>1, <2>2, <2>3 DEF WatchedSinceAdded, Streams
<1> QED
  BY <1>3, <1>4
  DEF Next, Step, TaskStep, CloseLedger, Register, AskTip, AddAccount, Remove, Start, ReadFails,
      ListContracts, ListAccounts, Spawn, Wake, Join, BeginRun, Crash, RunAgain, Begin, Finish,
      Fails, FailsAsAlways, FailsOnce, Restart, vars

-----------------------------------------------------------------------------
LEMMA InvStep == IInv /\ [Next]_vars => IInv'
<1> SUFFICES ASSUME IInv, [Next]_vars PROVE IInv'
  OBVIOUS
<1>1. TypeOK' /\ RegistryInv'
  BY TypeStep, RegistryStep DEF IInv
<1>2. \A p \in Processes : SpecsInTime(p)'
  BY SpecsStep
<1>3. \A p \in Processes, a \in Accounts : TaskInTime(p, a)'
  BY TaskInTimeStep
<1>4. WatchedSinceAdded'
  BY SavedStep
<1> QED BY <1>1, <1>2, <1>3, <1>4 DEF IInv

LEMMA Invariance == Spec => []IInv
BY InitInv, InvStep, PTL DEF Spec

(* Every state of any number of processes, streams, crashes and failures   *)
(* is typed: a task, for one, always has a stream and a phase of its own.  *)
THEOREM TypeCorrect == Spec => []TypeOK
<1>1. IInv => TypeOK
  BY DEF IInv
<1> QED BY Invariance, <1>1, PTL

(* account_store.rs, first_ledger: whatever is added twice, removed, added *)
(* again, restarted or aborted, in whatever number of processes, the       *)
(* reading of an account began no later than it was first added.           *)
THEOREM WatchedInTime == Spec => []WatchedSinceAdded
<1>1. IInv => WatchedSinceAdded
  BY DEF IInv
<1> QED BY Invariance, <1>1, PTL

-----------------------------------------------------------------------------
(* Where an account's reading began.                                       *)

(* A task that reads, reads from the ledger the account's row holds.       *)
FromFirst(p, a) == task[p][a].phase \in {"reading", "saved"} => task[p][a].from = first[a]

BeginInv == /\ \A p \in Processes, a \in Accounts : FromFirst(p, a)
            /\ OneBeginning

LEMMA FromFirstStep ==
  ASSUME IInv, BeginInv, [Next]_vars, NEW p \in Processes, NEW a \in Accounts
  PROVE  FromFirst(p, a)'
<1>1. /\ TypeOK /\ RegistryInv /\ TaskInTime(p, a) /\ FromFirst(p, a) /\ OneBeginning
  BY DEF IInv, BeginInv
<1>2. Kept
  BY <1>1, RegistryStep
<1>3. a \in Streams
  BY DEF Streams
<1>4. task \in [Processes -> [Streams -> Task]] /\ task[p][a] \in Task
  BY <1>1, <1>3 DEF TypeOK
<1>5. CASE task'[p][a] = task[p][a]
  BY <1>1, <1>2, <1>5 DEF TaskInTime, FromFirst, Kept
<1>6. CASE task'[p][a].phase \notin {"reading", "saved"}
  BY <1>6 DEF FromFirst
<1>7. ASSUME NEW q \in Processes, Spawn(q) PROVE FromFirst(p, a)'
  <2>1. CASE q # p
    BY <1>4, <1>5, <1>7, <2>1 DEF Spawn
  <2>2. CASE q = p
    <3>1. task'[p][a] = Reconciled(p, a)
      BY <1>3, <1>4, <1>7, <2>2 DEF Spawn
    <3>2. \A spec : Spawned(spec).phase \notin {"reading", "saved"}
      BY DEF Spawned
    <3>3. task'[p][a] = task[p][a] \/ task'[p][a].phase \notin {"reading", "saved"}
      BY <3>1, <3>2 DEF Reconciled, DroppedTask, NoTask
    <3> QED BY <1>5, <1>6, <3>3
  <2> QED BY <2>1, <2>2
<1>8. ASSUME NEW q \in Processes, BeginRun(q) PROVE FromFirst(p, a)'
  <2>1. task'[p][a] = task[p][a] \/ task'[p][a] = NoTask
    BY <1>3, <1>4, <1>8 DEF BeginRun, Idle
  <2> QED BY <1>5, <1>6, <2>1 DEF NoTask
<1>9. ASSUME NEW q \in Processes, NEW s \in Streams, NEW t, Becomes(q, s, t), q # p \/ s # a
      PROVE  FromFirst(p, a)'
  BY <1>1, <1>3, <1>5, <1>9, OtherTasks
<1>10. ASSUME NEW t, Becomes(p, a, t), t.phase \in {"reading", "saved"} => t.from = first[a]
       PROVE  FromFirst(p, a)'
  <2>1. task'[p][a] = t /\ first' = first
    BY <1>1, <1>3, <1>10, OtherTasks
  <2> QED BY <1>10, <2>1 DEF FromFirst
<1>11. ASSUME NEW q \in Processes, NEW s \in Streams, Begin(q, s) PROVE FromFirst(p, a)'
  <2> DEFINE t == [phase |-> "reading", start |-> task[p][a].start, from |-> From(p, a)]
  <2>1. CASE q = p /\ s = a
    <3>1. task[p][a].phase = "fresh" /\ Becomes(p, a, t)
      BY <1>11, <2>1 DEF Begin
    <3>2. first[a] # None /\ task[p][a].start = first[a]
      BY <1>1, <3>1 DEF TaskInTime
    <3>3. From(p, a) = first[a]
      BY <1>1, <3>2 DEF From, OneBeginning
    <3> QED BY <1>10, <3>1, <3>3
  <2>2. CASE q # p \/ s # a
    BY <1>9, <1>11, <2>2 DEF Begin
  <2> QED BY <2>1, <2>2
<1>12. ASSUME NEW q \in Processes, NEW s \in Streams,
              SaveCursor(q, s) \/ Finish(q, s) \/ Restart(q, s)
       PROVE  FromFirst(p, a)'
  <2>1. PICK ph \in {"saved", "ok", "fresh"} :
          /\ Becomes(q, s, [task[q][s] EXCEPT !.phase = ph])
          /\ ph = "saved" => task[q][s].phase = "reading"
    BY <1>12 DEF SaveCursor, Finish, Restart
  <2>2. CASE q = p /\ s = a
    <3> DEFINE t == [task[p][a] EXCEPT !.phase = ph]
    <3>1. t = [task[p][a] EXCEPT !.phase = ph] /\ Becomes(p, a, t)
      BY <2>1, <2>2
    <3> HIDE DEF t
    <3>2. t.phase = ph /\ t.from = task[p][a].from
      BY <1>4, <3>1, PhaseChanged
    <3> QED BY <1>1, <1>10, <2>1, <2>2, <3>1, <3>2 DEF FromFirst
  <2>3. CASE q # p \/ s # a
    BY <1>9, <2>1, <2>3
  <2> QED BY <2>2, <2>3
<1>13. ASSUME NEW q \in Processes, NEW s \in Streams, Fails(q, s) PROVE FromFirst(p, a)'
  <2> DEFINE t == [phase |-> AfterError(p), start |-> task[p][a].start, from |-> None]
  <2>1. CASE q = p /\ s = a
    <3>1. Becomes(p, a, t) /\ t.phase \notin {"reading", "saved"}
      BY <1>13, <2>1 DEF Fails, AfterError
    <3> QED BY <1>10, <3>1
  <2>2. CASE q # p \/ s # a
    BY <1>9, <1>13, <2>2 DEF Fails
  <2> QED BY <2>1, <2>2
<1>14. CASE UNCHANGED task
  BY <1>5, <1>14
<1> QED
  BY <1>7, <1>8, <1>11, <1>12, <1>13, <1>14
  DEF Next, Step, TaskStep, CloseLedger, Register, AskTip, AddAccount, Remove, Start, ReadFails,
      ListContracts, ListAccounts, Wake, Join, Crash, RunAgain, FailsAsAlways, FailsOnce, vars

LEMMA OneBeginningStep ==
  ASSUME IInv, BeginInv, [Next]_vars
  PROVE  OneBeginning'
<1>1. TypeOK /\ RegistryInv /\ WatchedSinceAdded /\ OneBeginning
  BY DEF IInv, BeginInv
<1>2. Kept
  BY <1>1, RegistryStep
<1>3. CASE UNCHANGED saved
  BY <1>1, <1>2, <1>3 DEF OneBeginning, WatchedSinceAdded, RegistryInv, FirstInTime, Kept
<1>4. ASSUME NEW p \in Processes, NEW s \in Streams, SaveCursor(p, s) PROVE OneBeginning'
  <2>1. /\ task[p][s].phase = "reading"
        /\ saved' = [saved EXCEPT ![s] = task[p][s].from]
        /\ first' = first
    BY <1>4 DEF SaveCursor, Becomes, registry
  <2>2. s \in Accounts => task[p][s].from = first[s]
    BY <2>1 DEF BeginInv, FromFirst
  <2>3. saved \in [Streams -> Ledgers \cup {None}]
    BY <1>1 DEF TypeOK
  <2> QED BY <1>1, <2>1, <2>2, <2>3 DEF OneBeginning, Streams
<1> QED
  BY <1>3, <1>4
  DEF Next, Step, TaskStep, CloseLedger, Register, AskTip, AddAccount, Remove, Start, ReadFails,
      ListContracts, ListAccounts, Spawn, Wake, Join, BeginRun, Crash, RunAgain, Begin, Finish,
      Fails, FailsAsAlways, FailsOnce, Restart, vars

(* All that is ever saved of an account continues the reading that began   *)
(* at the ledger its row was first written with, whatever number of        *)
(* processes run its stream beside one another, crash, or read the         *)
(* registry late.                                                          *)
THEOREM ReadFromFirst == Spec => []OneBeginning
<1>1. Init => BeginInv
  <2> SUFFICES ASSUME Init PROVE BeginInv
    OBVIOUS
  <2>1. OneBeginning
    BY DEF Init, OneBeginning, Streams
  <2>2. ASSUME NEW p \in Processes, NEW a \in Accounts PROVE FromFirst(p, a)
    BY DEF Init, FromFirst, Idle, NoTask, Streams
  <2> QED BY <2>1, <2>2 DEF BeginInv
<1>2. IInv /\ BeginInv /\ [Next]_vars => BeginInv'
  BY FromFirstStep, OneBeginningStep DEF BeginInv
<1>3. BeginInv => OneBeginning
  BY DEF BeginInv
<1> QED BY <1>1, <1>2, <1>3, Invariance, PTL DEF Spec

-----------------------------------------------------------------------------
(* What a --once run tells.                                                *)

Listed(p) == {spec.key : spec \in specs[p]}

(* Streams that were active all through a run are active, those it follows *)
(* are among what it has read, and then among its tasks; its tasks begin   *)
(* when it has read, and stop for good.                                    *)
OnceAt(p) ==
  LET mine == through[p] \cap Followed(p) IN
  /\ pc[p] # "sleep"
  /\ pc[p] \in {"start", "contracts", "accounts", "spawn"} =>
       \A s \in Streams : task[p][s].phase = "none"
  /\ pc[p] = "accounts" => mine \cap Contracts \subseteq Listed(p)
  /\ pc[p] = "spawn" => mine \subseteq Listed(p)
  /\ pc[p] \in {"join", "ok"} => \A s \in mine : task[p][s].phase # "none"
  /\ pc[p] \in {"ok", "failed"} => \A s \in Streams : task[p][s].phase \notin Live
  /\ pc[p] = "ok" => \A s \in Streams : task[p][s].phase # "failed"

OnceInv == \A p \in Processes : through[p] \subseteq active /\ (p \in once => OnceAt(p))

(* Time only takes away from what was active all through.                  *)
LEMMA OnceElsewhere ==
  ASSUME NEW p \in Processes, p \in once => OnceAt(p), p \in once' => p \in once,
         pc'[p] = pc[p], specs'[p] = specs[p], task'[p] = task[p], through'[p] \subseteq through[p]
  PROVE  p \in once' => OnceAt(p)'
BY DEF OnceAt, Listed, Followed

(* A run begins with what is active, and with nothing else.                *)
LEMMA OnceBegins ==
  ASSUME TypeOK, OnceInv, NEW p \in Processes, BeginRun(p)
  PROVE  OnceInv'
<1>1. /\ pc'[p] = "start" /\ task'[p] = Idle /\ specs'[p] = {} /\ through'[p] = active
      /\ active' = active
  BY DEF BeginRun, Goto, TypeOK, registry
<1>2. \A s \in Streams : Idle[s].phase = "none"
  BY DEF Idle, NoTask
<1>3. OnceAt(p)'
  BY <1>1, <1>2 DEF OnceAt
<1>4. ASSUME NEW q \in Processes, q # p
      PROVE  through'[q] \subseteq active' /\ (q \in once' => OnceAt(q)')
  <2>1. /\ pc'[q] = pc[q] /\ task'[q] = task[q] /\ specs'[q] = specs[q]
        /\ through'[q] = through[q] /\ (q \in once' => q \in once)
    BY <1>4 DEF BeginRun, Goto, TypeOK
  <2>2. through[q] \subseteq active /\ (q \in once => OnceAt(q))
    BY DEF OnceInv
  <2> QED BY <1>1, <2>1, <2>2, OnceElsewhere
<1> QED BY <1>1, <1>3, <1>4 DEF OnceInv

(* A task that moves was live, and does not go away.                       *)
LEMMA TaskMoves ==
  ASSUME TypeOK, NEW p \in Processes, NEW s \in Streams, TaskStep(p, s) \/ FailsOnce(p, s)
  PROVE  \E t \in Task : Becomes(p, s, t) /\ task[p][s].phase \in Live /\ t.phase # "none"
<1>1. task[p][s] \in Task
  BY DEF TypeOK
<1>2. task[p][s].start \in Ledgers \cup {None}
  BY <1>1 DEF Task
<1>3. ASSUME NEW ph \in {"saved", "ok", "fresh"}, task[p][s].phase \in Live,
             Becomes(p, s, [task[p][s] EXCEPT !.phase = ph])
      PROVE  \E t \in Task : Becomes(p, s, t) /\ task[p][s].phase \in Live /\ t.phase # "none"
  <2> DEFINE t == [task[p][s] EXCEPT !.phase = ph]
  <2>1. t \in Task /\ t = [task[p][s] EXCEPT !.phase = ph] /\ Becomes(p, s, t)
    BY <1>1, <1>3, TaskFields
  <2> HIDE DEF t
  <2>2. t.phase = ph
    BY <1>1, <2>1, PhaseChanged
  <2> QED BY <1>3, <2>1, <2>2
<1>4. CASE SaveCursor(p, s) \/ Finish(p, s) \/ Restart(p, s)
  BY <1>3, <1>4 DEF SaveCursor, Finish, Restart, Live
<1>5. CASE Begin(p, s)
  <2> DEFINE t == [phase |-> "reading", start |-> task[p][s].start, from |-> From(p, s)]
  <2>1. From(p, s) \in Ledgers
    BY <1>1, SupervisorAssumption DEF From, TypeOK, Task
  <2>2. t \in Task /\ t.phase = "reading" /\ Becomes(p, s, t) /\ task[p][s].phase \in Live
    BY <1>2, <1>5, <2>1 DEF Task, Begin, Live
  <2> QED BY <2>2
<1>6. CASE Fails(p, s)
  <2> DEFINE t == [phase |-> AfterError(p), start |-> task[p][s].start, from |-> None]
  <2>1. AfterError(p) \in {"backoff", "failed"}
    BY DEF AfterError
  <2>2. t \in Task /\ t.phase # "none" /\ Becomes(p, s, t) /\ task[p][s].phase \in Live
    BY <1>2, <1>6, <2>1 DEF Task, Fails, Live
  <2> QED BY <2>2
<1> QED BY <1>4, <1>5, <1>6 DEF TaskStep, FailsAsAlways, FailsOnce

LEMMA OnceTaskStep ==
  ASSUME TypeOK, OnceInv, NEW p \in Processes, NEW s \in Streams,
         TaskStep(p, s) \/ FailsOnce(p, s)
  PROVE  OnceInv'
<1>1. PICK t \in Task : Becomes(p, s, t) /\ task[p][s].phase \in Live /\ t.phase # "none"
  BY TaskMoves
<1>2. /\ UNCHANGED <<pc, specs, once, through, active>>
      /\ task' = [task EXCEPT ![p][s] = t]
      /\ task \in [Processes -> [Streams -> Task]]
  BY <1>1 DEF Becomes, registry, runs, TypeOK
<1>3. ASSUME NEW q \in Processes, q \in once PROVE OnceAt(q)'
  <2>1. OnceAt(q)
    BY <1>3 DEF OnceInv
  <2>2. CASE q # p
    <3>1. task'[q] = task[q]
      BY <1>2, <2>2
    <3> QED BY <1>2, <1>3, <2>1, <3>1, OnceElsewhere
  <2>3. CASE q = p
    <3>1. pc[p] = "join" \/ pc[p] \notin {"start", "contracts", "accounts", "spawn", "ok", "failed"}
      BY <1>1, <2>1, <2>3 DEF OnceAt, Live
    <3>2. \A u \in Streams : task'[p][u].phase # "none" \/ task'[p][u] = task[p][u]
      BY <1>1, <1>2
    <3>3. Followed(p) \subseteq Streams
      BY DEF Followed, Streams
    <3> QED BY <1>2, <2>1, <2>3, <3>1, <3>2, <3>3 DEF OnceAt, Followed
  <2> QED BY <2>2, <2>3
<1> QED BY <1>2, <1>3 DEF OnceInv

LEMMA OnceProcessStep ==
  ASSUME TypeOK, OnceInv, NEW p \in Processes, Step(p) \/ ReadFails(p)
  PROVE  OnceInv'
<1> USE SupervisorAssumption
<1>1. /\ UNCHANGED <<active, first, once, through>>
      /\ pc \in [Processes -> {"start", "contracts", "accounts", "spawn", "sleep", "join",
                               "ok", "failed"}]
      /\ specs \in [Processes -> SUBSET StreamSpec]
      /\ task \in [Processes -> [Streams -> Task]]
      /\ through[p] \subseteq active /\ active \subseteq Streams
  BY DEF Step, Start, ListContracts, ListAccounts, Spawn, Wake, Join, ReadFails, registry, runs,
         TypeOK, OnceInv
<1>2. ASSUME NEW q \in Processes, q # p
      PROVE  pc'[q] = pc[q] /\ specs'[q] = specs[q] /\ task'[q] = task[q]
  BY <1>1, <1>2 DEF Step, Start, ListContracts, ListAccounts, Spawn, Wake, Join, ReadFails, Goto
<1>3. ASSUME NEW q \in Processes, q # p PROVE q \in once' => OnceAt(q)'
  BY <1>1, <1>2, <1>3, OnceElsewhere DEF OnceInv
<1>4. ASSUME p \in once, OnceAt(p) PROVE OnceAt(p)'
  <2> DEFINE mine == through[p] \cap Followed(p)
  <2>0. mine' = mine /\ mine \subseteq active \cap Streams
    BY <1>1 DEF Followed, Streams
  <2>1. CASE Start(p)
    <3>1. pc[p] = "start" /\ pc'[p] = "contracts" /\ task' = task
      BY <1>1, <2>1 DEF Start, Goto
    <3> QED BY <1>4, <3>1 DEF OnceAt
  <2>2. CASE ListContracts(p)
    <3>1. /\ pc[p] = "contracts" /\ pc'[p] = "accounts" /\ task' = task
          /\ specs'[p] = IF p \in AccountsOnly THEN {}
                         ELSE {[key |-> c, start_ledger |-> None] : c \in active \cap Contracts}
      BY <1>1, <2>2 DEF ListContracts, Goto
    <3>2. mine \cap Contracts \subseteq Listed(p)'
      <4>1. CASE p \in AccountsOnly
        BY <4>1 DEF Followed
      <4>2. CASE p \notin AccountsOnly
        <5>1. \A c \in active \cap Contracts :
                /\ [key |-> c, start_ledger |-> None] \in specs'[p]
                /\ [key |-> c, start_ledger |-> None].key = c
          BY <3>1, <4>2
        <5> QED BY <2>0, <5>1 DEF Listed
      <4> QED BY <4>1, <4>2
    <3> QED BY <1>4, <2>0, <3>1, <3>2 DEF OnceAt
  <2>3. CASE ListAccounts(p)
    <3>1. /\ pc[p] = "accounts" /\ pc'[p] = "spawn" /\ task' = task
          /\ specs'[p] = specs[p] \cup
               {[key |-> a, start_ledger |-> first[a]] : a \in active \cap Accounts}
      BY <1>1, <2>3 DEF ListAccounts, Goto
    <3>2. mine \cap Contracts \subseteq Listed(p)'
      BY <1>4, <3>1 DEF OnceAt, Listed
    <3>3. mine \cap Accounts \subseteq Listed(p)'
      <4>1. \A a \in active \cap Accounts :
              /\ [key |-> a, start_ledger |-> first[a]] \in specs'[p]
              /\ [key |-> a, start_ledger |-> first[a]].key = a
        BY <3>1
      <4> QED BY <2>0, <4>1 DEF Listed
    <3>4. mine \subseteq Listed(p)'
      BY <2>0, <3>2, <3>3 DEF Streams
    <3> QED BY <1>4, <2>0, <3>1, <3>4 DEF OnceAt
  <2>4. CASE Spawn(p)
    <3>1. /\ pc[p] = "spawn" /\ pc'[p] = "join"
          /\ task'[p] = [s \in Streams |-> Reconciled(p, s)]
      BY <1>1, <1>4, <2>4 DEF Spawn, Goto
    <3>2. ASSUME NEW s \in mine PROVE task'[p][s].phase # "none"
      <4> DEFINE specsOf == {spec \in specs[p] : spec.key = s}
      <4>1. s \in Streams /\ specsOf # {} /\ task[p][s].phase = "none"
        BY <1>4, <2>0, <3>1 DEF OnceAt, Listed
      <4>2. Reconciled(p, s) = Spawned(CHOOSE spec \in specsOf : TRUE)
        BY <4>1 DEF Reconciled
      <4> QED BY <3>1, <4>1, <4>2 DEF Spawned
    <3> QED BY <2>0, <3>1, <3>2 DEF OnceAt
  <2>5. CASE Wake(p)
    BY <1>4, <2>5 DEF Wake, OnceAt
  <2>6. CASE Join(p)
    <3>1. /\ pc[p] = "join" /\ task' = task
          /\ pc'[p] = (IF SomeFailed(p) THEN "failed" ELSE "ok")
          /\ \A s \in Streams : task[p][s].phase \notin Live
      BY <1>1, <2>6 DEF Join, Joined, Goto
    <3> QED BY <1>4, <2>0, <3>1 DEF OnceAt, SomeFailed
  <2>7. CASE ReadFails(p)
    <3>1. pc[p] \in {"start", "contracts", "accounts"} /\ pc'[p] = "failed" /\ task' = task
      BY <1>1, <1>4, <2>7 DEF ReadFails, Goto
    <3> QED BY <1>4, <3>1 DEF OnceAt, Live
  <2> QED BY <2>1, <2>2, <2>3, <2>4, <2>5, <2>6, <2>7 DEF Step
<1> QED BY <1>1, <1>3, <1>4 DEF OnceInv

LEMMA OnceInvStep ==
  ASSUME TypeOK, OnceInv, [Next]_vars
  PROVE  OnceInv'
<1>1. ASSUME UNCHANGED <<pc, specs, task, once>>,
             \A p \in Processes : through'[p] \subseteq through[p] /\ through'[p] \subseteq active'
      PROVE  OnceInv'
  BY <1>1, OnceElsewhere DEF OnceInv
<1>2. ASSUME UNCHANGED <<pc, specs, task, once, through>>, active \subseteq active'
      PROVE  OnceInv'
  BY <1>1, <1>2 DEF OnceInv
<1>3. CASE CloseLedger \/ (\E c \in Contracts : Register(c))
           \/ (\E a \in Accounts : AskTip(a) \/ AddAccount(a)) \/ UNCHANGED vars
  <2>1. UNCHANGED <<pc, specs, task, once, through>> /\ active \subseteq active'
    BY <1>3 DEF CloseLedger, Register, AskTip, AddAccount, registry, runs, vars
  <2> QED BY <1>2, <2>1
<1>4. ASSUME NEW s \in Streams, Remove(s) PROVE OnceInv'
  <2>1. /\ UNCHANGED <<pc, specs, task, once>> /\ active' = active \ {s}
        /\ \A p \in Processes : through'[p] = through[p] \ {s}
    BY <1>4 DEF Remove
  <2> QED BY <1>1, <2>1 DEF OnceInv
<1>5. ASSUME NEW p \in Processes, Crash(p) \/ RunAgain(p) PROVE OnceInv'
  BY <1>5, OnceBegins DEF Crash, RunAgain
<1>6. ASSUME NEW p \in Processes, Step(p) \/ ReadFails(p) PROVE OnceInv'
  BY <1>6, OnceProcessStep
<1>7. ASSUME NEW p \in Processes, NEW s \in Streams, TaskStep(p, s) \/ FailsOnce(p, s)
      PROVE  OnceInv'
  BY <1>7, OnceTaskStep
<1> QED BY <1>3, <1>4, <1>5, <1>6, <1>7 DEF Next

(* supervisor.rs, catch_up: "the others still finish": a --once run ends   *)
(* when no stream is cut off, and exits with success only when all that    *)
(* were registered throughout are caught up, however many streams fail and *)
(* whatever is added and removed meanwhile.                                *)
THEOREM OnceTells == Spec => []OnceTellsAll
<1>1. Init => OnceInv
  BY DEF Init, OnceInv, OnceAt, Idle, NoTask
<1>2. TypeOK /\ OnceInv /\ [Next]_vars => OnceInv'
  BY OnceInvStep
<1>3. TypeOK /\ OnceInv => OnceTellsAll
  <2> SUFFICES ASSUME TypeOK, OnceInv, NEW p \in once
               PROVE  /\ pc[p] \in {"ok", "failed"} =>
                           \A s \in Streams : task[p][s].phase \notin Live
                      /\ pc[p] = "ok" =>
                           \A s \in through[p] \cap Followed(p) : task[p][s].phase = "ok"
    BY DEF OnceTellsAll
  <2>1. p \in Processes /\ OnceAt(p) /\ Followed(p) \subseteq Streams
    BY DEF TypeOK, OnceInv, Followed, Streams
  <2>2. \A s \in Streams : task[p][s].phase \in
          {"none", "fresh", "reading", "saved", "backoff", "ok", "failed"}
    BY <2>1 DEF TypeOK, Task
  <2> QED BY <2>1, <2>2 DEF OnceAt, Live
<1> QED BY <1>1, <1>2, <1>3, TypeCorrect, PTL DEF Spec
=============================================================================
