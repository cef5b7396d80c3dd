-------------------------- MODULE DispatcherProofs --------------------------
(***************************************************************************)
(* Theorems about Dispatcher for every value of its constants that meets   *)
(* DispatcherAssumption: any number of subscriptions, events, writers and  *)
(* dispatchers, any batch, lease, timeout and backoff.                     *)
(***************************************************************************)
EXTENDS Dispatcher, Extrema, FiniteSetTheorems

-----------------------------------------------------------------------------
(* Types, with the count of attempts a task carries.                       *)

(* A claim counts its attempt before a task hears of it.                   *)
TasksCounted ==
  \A d \in Dispatchers, p \in Pairs :
    /\ task[d][p].phase = "claimed" => attempts[p] >= 1
    /\ task[d][p].phase \in {"sending", "accepted", "refused"} =>
         task[d][p].attempts \in 1 .. attempts[p]

TypeInv == TypeOK /\ TasksCounted

LEMMA NoTaskType == NoTask \in Tasks /\ Idle \in [Pairs -> Tasks]
BY DispatcherAssumption DEF NoTask, Tasks, Idle

LEMMA NewestType ==
  ASSUME events \in SUBSET Ids
  PROVE  /\ Newest \in 0 .. MaxEvents
         /\ \A e \in events : e <= Newest
         /\ events # {} => Newest \in events
<1>1. CASE events = {}
  BY <1>1, DispatcherAssumption DEF Newest
<1>2. CASE events # {}
  <2>1. events \in SUBSET (0 .. MaxEvents)
    BY DispatcherAssumption DEF Ids
  <2>2. \E e \in events : \A f \in events : f <= e
    BY <1>2, <2>1, GreatestUpTo, DispatcherAssumption
  <2>3. Newest \in events /\ \A f \in events : f <= Newest
    BY <1>2, <2>2 DEF Newest
  <2> QED BY <2>1, <2>3
<1> QED BY <1>1, <1>2

(* One task changes, or all tasks of a dispatcher.                         *)
LEMMA OneTaskSet ==
  ASSUME task \in [Dispatchers -> [Pairs -> Tasks]],
         NEW d \in Dispatchers, NEW p \in Pairs, NEW t \in Tasks,
         task' = [task EXCEPT ![d][p] = t]
  PROVE  /\ task' \in [Dispatchers -> [Pairs -> Tasks]]
         /\ \A c \in Dispatchers, q \in Pairs :
              task'[c][q] = IF c = d /\ q = p THEN t ELSE task[c][q]
OBVIOUS

LEMMA TasksSet ==
  ASSUME task \in [Dispatchers -> [Pairs -> Tasks]],
         NEW d \in Dispatchers, NEW f \in [Pairs -> Tasks],
         task' = [task EXCEPT ![d] = f]
  PROVE  /\ task' \in [Dispatchers -> [Pairs -> Tasks]]
         /\ \A c \in Dispatchers, q \in Pairs :
              task'[c][q] = IF c = d THEN f[q] ELSE task[c][q]
OBVIOUS

LEMMA PhaseSet ==
  ASSUME task \in [Dispatchers -> [Pairs -> Tasks]],
         NEW d \in Dispatchers, NEW p \in Pairs, NEW x \in {"accepted", "refused"}
  PROVE  /\ [task[d][p] EXCEPT !.phase = x] \in Tasks
         /\ [task EXCEPT ![d][p].phase = x] = [task EXCEPT ![d][p] = [task[d][p] EXCEPT !.phase = x]]
BY DEF Tasks

-----------------------------------------------------------------------------
(* What an action does to the tasks.                                       *)

LEMMA TaskEndsEffect ==
  ASSUME TypeOK, NEW d \in Dispatchers, NEW p \in Pairs, TaskEnds(d, p)
  PROVE  /\ task' \in [Dispatchers -> [Pairs -> Tasks]]
         /\ \A c \in Dispatchers, q \in Pairs :
              task'[c][q] = IF c = d /\ q = p THEN NoTask ELSE task[c][q]
BY NoTaskType, OneTaskSet DEF TypeOK, TaskEnds

(* The outcome of a request.                                               *)
LEMMA PostEffect ==
  ASSUME TypeOK, NEW d \in Dispatchers, NEW p \in Pairs, Post(d, p)
  PROVE  /\ task' \in [Dispatchers -> [Pairs -> Tasks]]
         /\ \A c \in Dispatchers, q \in Pairs :
              c # d \/ q # p => task'[c][q] = task[c][q]
         /\ task'[d][p].phase \in {"accepted", "refused"}
         /\ task'[d][p].phase = "accepted" => p \in received'
         /\ task'[d][p].attempts = task[d][p].attempts
         /\ task'[d][p].age = task[d][p].age
         /\ task[d][p].phase = "sending"
         /\ received' \in {received, received \cup {p}}
<1>1. PICK x \in {"accepted", "refused"} : /\ task' = [task EXCEPT ![d][p].phase = x]
                                           /\ x = "accepted" => p \in received'
  BY DEF Post
<1> DEFINE t == [task[d][p] EXCEPT !.phase = x]
<1>2. t \in Tasks /\ task' = [task EXCEPT ![d][p] = t]
  BY <1>1, PhaseSet DEF TypeOK
<1>3. /\ task' \in [Dispatchers -> [Pairs -> Tasks]]
      /\ \A c \in Dispatchers, q \in Pairs :
           task'[c][q] = IF c = d /\ q = p THEN t ELSE task[c][q]
  <2> HIDE DEF t
  <2> QED BY <1>2, OneTaskSet DEF TypeOK
<1>4. t.phase = x /\ t.attempts = task[d][p].attempts /\ t.age = task[d][p].age
  BY DEF TypeOK, Tasks
<1>5. received' \in {received, received \cup {p}} /\ task[d][p].phase = "sending"
  BY DEF Post
<1> HIDE DEF t
<1> QED BY <1>1, <1>3, <1>4, <1>5

(* Claiming: what was claimed becomes a task, nothing else is one.         *)
FreshTask == [phase |-> "claimed", attempts |-> 0, age |-> 0]

Claims(d, ps) ==
  /\ attempts' = [p \in Pairs |-> IF p \in ps THEN attempts[p] + 1 ELSE attempts[p]]
  /\ wait' = Held(ps)
  /\ task' \in [Dispatchers -> [Pairs -> Tasks]]
  /\ \A c \in Dispatchers, q \in Pairs : c # d => task'[c][q] = task[c][q]
  /\ \A q \in Pairs : task'[d][q] = IF q \in ps THEN FreshTask ELSE NoTask
  /\ pc' = [pc EXCEPT ![d] = "read"]

ClaimsNone(d) ==
  /\ UNCHANGED <<attempts, wait, task>>
  /\ pc' = [pc EXCEPT ![d] = AfterTick(d, FALSE)]

LEMMA ClaimEffect ==
  ASSUME TypeOK, NEW d \in Dispatchers, ClaimDue(d)
  PROVE  ClaimsNone(d) \/ \E ps \in SUBSET Due : Claims(d, ps)
<1>1. CASE UNCHANGED <<attempts, wait, task>> /\ Goto(d, AfterTick(d, FALSE))
  BY <1>1 DEF Goto, ClaimsNone
<1>2. ASSUME NEW ps \in SUBSET Due,
             attempts' = [p \in Pairs |-> IF p \in ps THEN attempts[p] + 1 ELSE attempts[p]],
             wait' = Held(ps),
             task' = [task EXCEPT ![d] =
                      [p \in Pairs |-> IF p \in ps THEN [NoTask EXCEPT !.phase = "claimed"]
                                                   ELSE NoTask]],
             Goto(d, "read")
      PROVE  Claims(d, ps)
  <2> DEFINE f == [p \in Pairs |-> IF p \in ps THEN FreshTask ELSE NoTask]
  <2>1. FreshTask \in Tasks /\ [NoTask EXCEPT !.phase = "claimed"] = FreshTask
    BY DispatcherAssumption DEF NoTask, Tasks, FreshTask
  <2>2. task' = [task EXCEPT ![d] = f]
    BY <1>2, <2>1
  <2>3. f \in [Pairs -> Tasks]
    BY <2>1, NoTaskType
  <2>4. /\ task' \in [Dispatchers -> [Pairs -> Tasks]]
        /\ \A c \in Dispatchers, q \in Pairs :
             task'[c][q] = IF c = d THEN f[q] ELSE task[c][q]
    <3> HIDE DEF f
    <3> QED BY <2>2, <2>3, TasksSet DEF TypeOK
  <2>5. \A q \in Pairs : f[q] = IF q \in ps THEN FreshTask ELSE NoTask
    OBVIOUS
  <2> HIDE DEF f
  <2> QED BY <1>2, <2>4, <2>5 DEF Goto, Claims
<1> QED BY <1>1, <1>2 DEF ClaimDue

(* The claimed rows are read and sent.                                     *)
LEMMA ReadEffect ==
  ASSUME TypeOK, NEW d \in Dispatchers, ReadDue(d)
  PROVE  /\ task' \in [Dispatchers -> [Pairs -> Tasks]]
         /\ \A c \in Dispatchers, q \in Pairs : c # d => task'[c][q] = task[c][q]
         /\ \A q \in Pairs :
              task'[d][q] = IF task[d][q].phase = "claimed"
                              THEN [phase |-> "sending", attempts |-> attempts[q], age |-> 0]
                              ELSE NoTask
<1> DEFINE t(q) == [phase |-> "sending", attempts |-> attempts[q], age |-> 0]
           f == [p \in Pairs |-> IF task[d][p].phase = "claimed" THEN t(p) ELSE NoTask]
<1>1. \A q \in Pairs : t(q) \in Tasks
  BY DispatcherAssumption DEF TypeOK, Tasks
<1>2. f \in [Pairs -> Tasks] /\ task' = [task EXCEPT ![d] = f]
  BY <1>1, NoTaskType DEF ReadDue
<1>3. \A q \in Pairs : f[q] = IF task[d][q].phase = "claimed" THEN t(q) ELSE NoTask
  OBVIOUS
<1>4. /\ task' \in [Dispatchers -> [Pairs -> Tasks]]
      /\ \A c \in Dispatchers, q \in Pairs :
           task'[c][q] = IF c = d THEN f[q] ELSE task[c][q]
  <2> HIDE DEF f
  <2> QED BY <1>2, TasksSet DEF TypeOK
<1> HIDE DEF f
<1> QED BY <1>3, <1>4

(* All tasks of a dispatcher go.                                           *)
LEMMA IdleEffect ==
  ASSUME TypeOK, NEW d \in Dispatchers, task' = [task EXCEPT ![d] = Idle]
  PROVE  /\ task' \in [Dispatchers -> [Pairs -> Tasks]]
         /\ \A c \in Dispatchers, q \in Pairs :
              task'[c][q] = IF c = d THEN NoTask ELSE task[c][q]
<1>1. \A q \in Pairs : Idle[q] = NoTask
  BY DEF Idle
<1> QED BY <1>1, NoTaskType, TasksSet DEF TypeOK

LEMMA TickEffect ==
  ASSUME TypeOK, Tick
  PROVE  /\ task' \in [Dispatchers -> [Pairs -> Tasks]]
         /\ \A c \in Dispatchers, q \in Pairs :
              /\ task'[c][q].phase = task[c][q].phase
              /\ task'[c][q].attempts = task[c][q].attempts
              /\ task'[c][q].age = IF task[c][q].phase = "sending" /\ task[c][q].age < Timeout
                                     THEN task[c][q].age + 1 ELSE task[c][q].age
<1>1. ASSUME NEW t \in Tasks
      PROVE  /\ Older(t) \in Tasks
             /\ Older(t).phase = t.phase
             /\ Older(t).attempts = t.attempts
             /\ Older(t).age = IF t.phase = "sending" /\ t.age < Timeout THEN t.age + 1 ELSE t.age
  BY DispatcherAssumption DEF Older, Tasks
<1>2. task' = [d \in Dispatchers |-> [p \in Pairs |-> Older(task[d][p])]]
  BY DEF Tick
<1>3. \A c \in Dispatchers, q \in Pairs : task[c][q] \in Tasks
  BY DEF TypeOK
<1> QED BY <1>1, <1>2, <1>3

-----------------------------------------------------------------------------
(* Every step keeps the types.                                             *)

LEMMA CountedStays ==
  ASSUME TasksCounted, UNCHANGED <<task, attempts>>
  PROVE  TasksCounted'
BY DEF TasksCounted

LEMMA TypeInvInit == Init => TypeInv
<1> SUFFICES ASSUME Init PROVE TypeInv
  OBVIOUS
<1>1. \A d \in Dispatchers, p \in Pairs : task[d][p] = NoTask
  BY DEF Init, Idle
<1>2. TasksCounted
  BY <1>1 DEF TasksCounted, NoTask
<1>3. TypeOK
  BY NoTaskType, DispatcherAssumption DEF Init, TypeOK
<1> QED BY <1>2, <1>3 DEF TypeInv

LEMMA TypeInvWriters ==
  ASSUME TypeInv,
         \/ \E w \in Writers : BeginInsert(w) \/ CommitInsert(w) \/ AbortInsert(w)
         \/ \E s \in Subs : Create(s) \/ Deactivate(s)
  PROVE  TypeInv'
<1> USE DEF eventVars, rowVars, passVars, tickVars
<1>1. UNCHANGED <<task, attempts>>
  BY DEF BeginInsert, CommitInsert, AbortInsert, Create, Deactivate
<1>2. TasksCounted'
  BY <1>1, CountedStays DEF TypeInv
<1>3. TypeOK
  BY DEF TypeInv
<1>4. CASE \E w \in Writers : BeginInsert(w)
  <2>1. nextId' \in 1 .. MaxEvents + 1
    BY <1>3, <1>4, DispatcherAssumption DEF BeginInsert, TypeOK, Ids
  <2> QED BY <1>2, <1>3, <1>4, <2>1 DEF BeginInsert, TypeInv, TypeOK
<1>5. CASE \E w \in Writers : CommitInsert(w)
  <2>1. PICK w \in Writers : CommitInsert(w)
    BY <1>5
  <2>2. inserting[w] \in Ids
    BY <1>3, <2>1 DEF CommitInsert, TypeOK
  <2>3. wanted' \in SUBSET Pairs /\ events' \in SUBSET Ids
    BY <1>3, <2>1, <2>2 DEF CommitInsert, TypeOK
  <2>4. inserting' \in [Writers -> Ids \cup {None}]
    BY <1>3, <2>1 DEF CommitInsert, TypeOK
  <2> QED BY <1>2, <1>3, <2>1, <2>3, <2>4 DEF CommitInsert, TypeInv, TypeOK
<1>6. CASE \E w \in Writers : AbortInsert(w)
  BY <1>2, <1>3, <1>6 DEF AbortInsert, TypeInv, TypeOK
<1>7. CASE \E s \in Subs : Create(s) \/ Deactivate(s)
  BY <1>2, <1>3, <1>7 DEF Create, Deactivate, TypeInv, TypeOK
<1> QED BY <1>4, <1>5, <1>6, <1>7

LEMMA MatchingType ==
  ASSUME NEW low, NEW high
  PROVE  Matching(low, high) \in SUBSET Pairs
BY DEF Matching

LEMMA TypeInvPass ==
  ASSUME TypeInv, NEW d \in Dispatchers,
         LockCursor(d) \/ ReadSlice(d) \/ QueueDeliveries(d) \/ CommitPass(d) \/ PassFails(d)
  PROVE  TypeInv'
<1> USE DEF eventVars, rowVars, passVars, tickVars, Goto
<1>1. UNCHANGED <<task, attempts>>
  BY DEF LockCursor, ReadSlice, QueueDeliveries, CommitPass, PassFails
<1>2. TasksCounted'
  BY <1>1, CountedStays DEF TypeInv
<1>3. TypeOK
  BY DEF TypeInv
<1>4. CASE LockCursor(d)
  <2>1. Newest \in 0 .. MaxEvents
    BY <1>3, NewestType DEF TypeOK
  <2> QED BY <1>2, <1>3, <1>4, <2>1 DEF LockCursor, TypeInv, TypeOK
<1>5. CASE ReadSlice(d)
  <2>1. events \in SUBSET (0 .. MaxEvents)
    BY <1>3, DispatcherAssumption DEF TypeOK, Ids
  <2>2. upper' \in [Dispatchers -> 0 .. MaxEvents]
    BY <1>3, <1>5, <2>1 DEF ReadSlice, TypeOK
  <2>3. lastEvent' \in 0 .. MaxEvents \cup {None} /\ lock' \in Dispatchers \cup {None}
    BY <1>3, <1>5 DEF ReadSlice, TypeOK
  <2>4. pc' \in {[pc EXCEPT ![d] = "claim"], [pc EXCEPT ![d] = "queue"]}
    BY <1>5 DEF ReadSlice
  <2>5. UNCHANGED <<nextId, inserting, events, wanted, subs, status, attempts, wait, received,
                    last, found, worked, erred, seen, task, failures>>
    BY <1>5 DEF ReadSlice
  <2> QED BY <1>2, <1>3, <2>2, <2>3, <2>4, <2>5 DEF TypeInv, TypeOK
<1>6. CASE QueueDeliveries(d)
  <2>1. {p \in Matching(last[d], upper[d]) : status[p] = "absent"} \in SUBSET Pairs
    BY MatchingType
  <2> QED BY <1>2, <1>3, <1>6, <2>1 DEF QueueDeliveries, TypeInv, TypeOK
<1>7. CASE CommitPass(d)
  <2>1. status' \in [Pairs -> {"absent", "pending", "delivered", "dead"}]
    BY <1>3, <1>7 DEF CommitPass, TypeOK
  <2>2. worked' \in [Dispatchers -> BOOLEAN]
    BY <1>3, <1>7 DEF CommitPass, TypeOK
  <2>3. found' \in [Dispatchers -> SUBSET Pairs] /\ lastEvent' \in 0 .. MaxEvents
    BY <1>3, <1>7 DEF CommitPass, TypeOK
  <2>4. pc' = [pc EXCEPT ![d] = "claim"] /\ lock' = None
    BY <1>7 DEF CommitPass
  <2>5. UNCHANGED <<nextId, inserting, events, wanted, subs, attempts, wait, received, last,
                    upper, erred, seen, task, failures>>
    BY <1>7 DEF CommitPass
  <2> QED BY <1>2, <1>3, <2>1, <2>2, <2>3, <2>4, <2>5 DEF TypeInv, TypeOK
<1>8. CASE PassFails(d)
  BY <1>2, <1>3, <1>8, DispatcherAssumption DEF PassFails, TypeInv, TypeOK
<1> QED BY <1>4, <1>5, <1>6, <1>7, <1>8

LEMMA AfterTickType ==
  ASSUME NEW d \in Dispatchers, NEW attempted \in BOOLEAN
  PROVE  AfterTick(d, attempted) \in {"idle", "failed", "done"}
BY DEF AfterTick

LEMMA HeldType ==
  ASSUME TypeOK, NEW ps
  PROVE  /\ Held(ps) \in [Pairs -> Nat]
         /\ \A p \in Pairs : Held(ps)[p] = IF p \in ps THEN Lease ELSE wait[p]
BY DispatcherAssumption DEF Held, TypeOK

LEMMA RunType ==
  ASSUME TypeOK, NEW d \in Dispatchers,
         ClaimDue(d) \/ BeginRun(d)
  PROVE  seen' \in [Dispatchers -> SUBSET Ids]
<1>1. CASE ClaimDue(d)
  BY <1>1 DEF ClaimDue, TypeOK
<1>2. CASE BeginRun(d)
  <2>1. OfRun(d, events) \in SUBSET Ids
    BY DEF OfRun, TypeOK
  <2> QED BY <1>2, <2>1 DEF BeginRun, TypeOK
<1> QED BY <1>1, <1>2

LEMMA TypeInvClaim ==
  ASSUME TypeInv, NEW d \in Dispatchers,
         ClaimDue(d) \/ ReadDue(d) \/ ClaimFails(d) \/ FinishPass(d) \/ Crash(d) \/ RunAgain(d)
  PROVE  TypeInv'
<1> USE DEF eventVars, rowVars, passVars, tickVars
<1>1. TypeOK /\ TasksCounted
  BY DEF TypeInv
<1>2. CASE ClaimDue(d)
  <2>1. CASE ClaimsNone(d)
    <3>1. TasksCounted'
      BY <1>1, <2>1, CountedStays DEF ClaimsNone
    <3>2. seen' \in [Dispatchers -> SUBSET Ids]
      BY <1>1, <1>2, RunType
    <3> QED BY <1>1, <1>2, <2>1, <3>1, <3>2, AfterTickType
            DEF ClaimDue, ClaimsNone, TypeInv, TypeOK
  <2>2. ASSUME NEW ps \in SUBSET Due, Claims(d, ps)
        PROVE  TypeInv'
    <3>1. attempts' \in [Pairs -> Nat] /\ \A p \in Pairs : attempts[p] <= attempts'[p]
      BY <1>1, <2>2 DEF TypeOK, Claims
    <3>2. \A p \in ps : p \in Pairs /\ attempts'[p] >= 1
      BY <1>1, <2>2 DEF TypeOK, Due, Claims
    <3>3. TasksCounted'
      <4> SUFFICES ASSUME NEW c \in Dispatchers, NEW q \in Pairs
                   PROVE  /\ task'[c][q].phase = "claimed" => attempts'[q] >= 1
                          /\ task'[c][q].phase \in {"sending", "accepted", "refused"} =>
                               task'[c][q].attempts \in 1 .. attempts'[q]
        BY DEF TasksCounted
      <4>1. CASE c # d
        <5>1. task'[c][q] = task[c][q]
          BY <2>2, <4>1 DEF Claims
        <5>2. attempts[q] \in Nat /\ attempts'[q] \in Nat /\ attempts[q] <= attempts'[q]
          BY <1>1, <3>1 DEF TypeOK
        <5>3. task[c][q].phase \in {"sending", "accepted", "refused"} =>
                task[c][q].attempts \in 1 .. attempts[q]
          BY <1>1 DEF TasksCounted
        <5>4. task[c][q].phase = "claimed" => attempts[q] >= 1
          BY <1>1 DEF TasksCounted
        <5> QED BY <5>1, <5>2, <5>3, <5>4
      <4>2. CASE c = d /\ q \in ps
        <5>1. task'[c][q].phase = "claimed"
          BY <2>2, <4>2 DEF Claims, FreshTask
        <5> QED BY <3>2, <4>2, <5>1
      <4>3. CASE c = d /\ q \notin ps
        BY <2>2, <4>3 DEF NoTask, Claims
      <4> QED BY <4>1, <4>2, <4>3
    <3>4. wait' \in [Pairs -> Nat]
      BY <1>1, <2>2, HeldType DEF Claims
    <3>5. seen' \in [Dispatchers -> SUBSET Ids]
      BY <1>1, <1>2, RunType
    <3>6. TypeOK'
      BY <1>1, <1>2, <2>2, <3>1, <3>4, <3>5 DEF ClaimDue, Claims, TypeOK
    <3> QED BY <3>3, <3>6 DEF TypeInv
  <2> QED BY <1>1, <1>2, <2>1, <2>2, ClaimEffect, Zenon
<1>3. CASE ReadDue(d)
  <2>1. /\ task' \in [Dispatchers -> [Pairs -> Tasks]]
        /\ \A c \in Dispatchers, q \in Pairs : c # d => task'[c][q] = task[c][q]
        /\ \A q \in Pairs :
             task'[d][q] = IF task[d][q].phase = "claimed"
                             THEN [phase |-> "sending", attempts |-> attempts[q], age |-> 0]
                             ELSE NoTask
    BY <1>1, <1>3, ReadEffect
  <2>2. TypeOK'
    BY <1>1, <1>3, <2>1 DEF ReadDue, Goto, TypeOK
  <2>3. attempts' = attempts
    BY <1>3 DEF ReadDue
  <2>4. TasksCounted'
    <3> SUFFICES ASSUME NEW c \in Dispatchers, NEW q \in Pairs
                 PROVE  /\ task'[c][q].phase = "claimed" => attempts[q] >= 1
                        /\ task'[c][q].phase \in {"sending", "accepted", "refused"} =>
                             task'[c][q].attempts \in 1 .. attempts[q]
      BY <2>3 DEF TasksCounted
    <3>1. CASE c # d
      BY <1>1, <2>1, <3>1 DEF TasksCounted
    <3>2. CASE c = d /\ task[d][q].phase = "claimed"
      <4>1. attempts[q] >= 1 /\ attempts[q] \in Nat
        BY <1>1, <3>2 DEF TasksCounted, TypeOK
      <4>2. task'[c][q] = [phase |-> "sending", attempts |-> attempts[q], age |-> 0]
        BY <2>1, <3>2
      <4> QED BY <4>1, <4>2
    <3>3. CASE c = d /\ task[d][q].phase # "claimed"
      <4>1. task'[c][q] = NoTask
        BY <2>1, <3>3
      <4> QED BY <4>1 DEF NoTask
    <3> QED BY <3>1, <3>2, <3>3
  <2> QED BY <2>2, <2>4 DEF TypeInv
<1>4. CASE ClaimFails(d) \/ Crash(d) \/ RunAgain(d)
  <2>1. task' = [task EXCEPT ![d] = Idle] /\ attempts' = attempts
    BY <1>4 DEF ClaimFails, Crash, RunAgain, BeginRun
  <2>2. /\ task' \in [Dispatchers -> [Pairs -> Tasks]]
        /\ \A c \in Dispatchers, q \in Pairs :
             task'[c][q] = IF c = d THEN NoTask ELSE task[c][q]
    BY <1>1, <2>1, IdleEffect
  <2>3. TasksCounted'
    BY <1>1, <2>1, <2>2 DEF TasksCounted, NoTask
  <2>4. CASE ClaimFails(d)
    BY <1>1, <2>2, <2>3, <2>4, DispatcherAssumption DEF ClaimFails, Goto, TypeInv, TypeOK
  <2>5. CASE Crash(d) \/ RunAgain(d)
    <3>1. failures' \in Nat
      BY <1>1, <2>5, DispatcherAssumption DEF Crash, RunAgain, TypeOK
    <3>2. BeginRun(d)
      BY <2>5 DEF Crash, RunAgain
    <3>3. seen' \in [Dispatchers -> SUBSET Ids]
      BY <1>1, <3>2, RunType
    <3> QED BY <1>1, <2>2, <2>3, <3>1, <3>2, <3>3 DEF BeginRun, Goto, TypeInv, TypeOK
  <2> QED BY <1>4, <2>4, <2>5
<1>5. CASE FinishPass(d)
  <2>1. TasksCounted'
    BY <1>1, <1>5, CountedStays DEF FinishPass
  <2> QED BY <1>1, <1>5, <2>1, AfterTickType DEF FinishPass, Goto, TypeInv, TypeOK
<1> QED BY <1>2, <1>3, <1>4, <1>5

LEMMA TypeInvSend ==
  ASSUME TypeInv, NEW d \in Dispatchers, NEW p \in Pairs,
         Send(d, p) \/ RecordFails(d, p)
  PROVE  TypeInv'
<1> USE DEF eventVars, rowVars, passVars, tickVars
<1>1. TypeOK /\ TasksCounted
  BY DEF TypeInv
<1>2. attempts' = attempts
  BY DEF Send, Post, RecordSuccess, RecordFailure, RecordFails
<1>3. CASE Post(d, p)
  <2>1. /\ task' \in [Dispatchers -> [Pairs -> Tasks]]
        /\ \A c \in Dispatchers, q \in Pairs :
              c # d \/ q # p => task'[c][q] = task[c][q]
        /\ task'[d][p].phase \in {"accepted", "refused"}
        /\ task'[d][p].attempts = task[d][p].attempts
        /\ task[d][p].phase = "sending"
        /\ received' \in {received, received \cup {p}}
    BY <1>1, <1>3, PostEffect
  <2>2. TasksCounted'
    BY <1>1, <1>2, <2>1 DEF TasksCounted
  <2>3. received' \in SUBSET Pairs
    BY <1>1, <2>1 DEF TypeOK
  <2> QED BY <1>1, <1>3, <2>1, <2>2, <2>3 DEF Post, TypeInv, TypeOK
<1>4. CASE RecordSuccess(d, p) \/ RecordFailure(d, p) \/ RecordFails(d, p)
  <2>1. TaskEnds(d, p)
    BY <1>4 DEF RecordSuccess, RecordFailure, RecordFails
  <2>2. /\ task' \in [Dispatchers -> [Pairs -> Tasks]]
        /\ \A c \in Dispatchers, q \in Pairs :
             task'[c][q] = IF c = d /\ q = p THEN NoTask ELSE task[c][q]
    BY <1>1, <2>1, TaskEndsEffect
  <2>3. TasksCounted'
    BY <1>1, <1>2, <2>2 DEF TasksCounted, NoTask
  <2>4. CASE RecordSuccess(d, p)
    BY <1>1, <2>2, <2>3, <2>4 DEF RecordSuccess, TypeInv, TypeOK
  <2>5. CASE RecordFailure(d, p)
    <3>1. task[d][p].attempts \in Nat /\ task[d][p].attempts >= 1
      BY <1>1, <2>5 DEF RecordFailure, TasksCounted, TypeOK
    <3>2. ~GivesUp(task[d][p].attempts) => Backoff[task[d][p].attempts] \in Nat
      BY <3>1, DispatcherAssumption DEF GivesUp
    <3>3. wait' \in [Pairs -> Nat] /\ status' \in [Pairs -> {"absent", "pending", "delivered", "dead"}]
      BY <1>1, <2>5, <3>2 DEF RecordFailure, TypeOK
    <3> QED BY <1>1, <2>2, <2>3, <2>5, <3>3 DEF RecordFailure, TypeInv, TypeOK
  <2>6. CASE RecordFails(d, p)
    BY <1>1, <2>2, <2>3, <2>6, DispatcherAssumption DEF RecordFails, TypeInv, TypeOK
  <2> QED BY <1>4, <2>4, <2>5, <2>6
<1> QED BY <1>3, <1>4 DEF Send

LEMMA TypeInvNext ==
  ASSUME TypeInv, [Next]_vars
  PROVE  TypeInv'
<1>1. CASE Tick
  <2>1. TypeOK /\ TasksCounted
    BY DEF TypeInv
  <2>2. /\ task' \in [Dispatchers -> [Pairs -> Tasks]]
        /\ \A c \in Dispatchers, q \in Pairs : /\ task'[c][q].phase = task[c][q].phase
                                               /\ task'[c][q].attempts = task[c][q].attempts
    BY <1>1, <2>1, TickEffect
  <2>3. attempts' = attempts
    BY <1>1 DEF Tick
  <2>4. TasksCounted'
    BY <2>1, <2>2, <2>3 DEF TasksCounted
  <2>5. wait' \in [Pairs -> Nat]
    BY <1>1, <2>1 DEF Tick, TypeOK
  <2> QED BY <1>1, <2>1, <2>2, <2>4, <2>5
          DEF Tick, TypeInv, TypeOK, eventVars, passVars, tickVars
<1>2. CASE UNCHANGED vars
  BY <1>2 DEF vars, eventVars, rowVars, passVars, tickVars, TypeInv, TypeOK, TasksCounted
<1> QED BY <1>1, <1>2, TypeInvWriters, TypeInvPass, TypeInvClaim, TypeInvSend DEF Next, Step

LEMMA TypeInvAlways == Spec => []TypeInv
BY TypeInvInit, TypeInvNext, PTL DEF Spec

(* Every variable of the dispatchers, the tables and the tasks keeps its   *)
(* type.                                                                   *)
THEOREM TypeCorrect == Spec => []TypeOK
<1>1. TypeInv => TypeOK
  BY DEF TypeInv
<1> QED BY <1>1, TypeInvAlways, PTL

-----------------------------------------------------------------------------
(* The passes of several dispatchers, and the cursor.                      *)

InPass(d) == pc[d] \in {"slice", "queue", "commit"}

(* A delivery being sent is one that was queued; the lock keeps a pass to  *)
(* itself, so that what it read of the cursor row stays true; and the      *)
(* cursor, what a pass read of it and where it will move to are ids that   *)
(* have been seen.                                                         *)
PassInv ==
  /\ \A d \in Dispatchers, p \in Pairs : task[d][p].phase # "none" => status[p] # "absent"
  /\ lastEvent \in events \cup {0, None}
  /\ \A d \in Dispatchers :
       /\ InPass(d) => /\ lock = d
                       /\ lastEvent # None => last[d] = lastEvent
                       /\ last[d] \in events \cup {0}
       /\ pc[d] \in {"queue", "commit"} => last[d] < upper[d] /\ upper[d] \in events
       /\ found[d] # {} => pc[d] = "commit"
       /\ \A p \in found[d] : status[p] = "absent"

LEMMA PassInvInit == Init => PassInv
BY DEF Init, PassInv, InPass, Idle, NoTask

LEMMA PassInvWriters ==
  ASSUME TypeInv, PassInv,
         \/ \E w \in Writers : BeginInsert(w) \/ CommitInsert(w) \/ AbortInsert(w)
         \/ \E s \in Subs : Create(s) \/ Deactivate(s)
  PROVE  PassInv'
<1>1. /\ UNCHANGED <<task, status, lastEvent, lock, pc, last, upper, found>>
      /\ events \in SUBSET events'
  BY DEF BeginInsert, CommitInsert, AbortInsert, Create, Deactivate, eventVars, rowVars,
         passVars
<1> QED BY <1>1 DEF PassInv, InPass

LEMMA PassInvPass ==
  ASSUME TypeInv, PassInv, NEW d \in Dispatchers,
         LockCursor(d) \/ ReadSlice(d) \/ QueueDeliveries(d) \/ CommitPass(d) \/ PassFails(d)
  PROVE  PassInv'
<1> USE DEF eventVars, rowVars, passVars, tickVars, Goto
<1>1. TypeOK
  BY DEF TypeInv
<1>2. UNCHANGED <<events, task>>
  BY DEF LockCursor, ReadSlice, QueueDeliveries, CommitPass, PassFails
<1>3. \A c \in Dispatchers \ {d} : InPass(d) => ~InPass(c) /\ found[c] = {}
  BY DispatcherAssumption DEF PassInv, InPass
<1>4. CASE LockCursor(d)
  <2>1. last'[d] \in events \cup {0} /\ (lastEvent # None => last'[d] = lastEvent)
    BY <1>1, <1>4, NewestType DEF LockCursor, TypeOK, PassInv, Newest
  <2>2. \A c \in Dispatchers : ~InPass(c)
    BY <1>4, DispatcherAssumption DEF LockCursor, CursorFree, PassInv
  <2>3. \A c \in Dispatchers : found[c] = {}
    BY <2>2 DEF PassInv, InPass
  <2> QED BY <1>1, <1>2, <1>4, <2>1, <2>2, <2>3 DEF LockCursor, PassInv, InPass, TypeOK
<1>5. CASE ReadSlice(d)
  <2>1. InPass(d) /\ found[d] = {}
    BY <1>5 DEF ReadSlice, InPass, PassInv
  <2>2. \A c \in Dispatchers \ {d} : pc'[c] = pc[c] /\ last'[c] = last[c] /\ found'[c] = found[c]
    BY <1>1, <1>5 DEF ReadSlice, TypeOK
  <2>3. CASE pc' = [pc EXCEPT ![d] = "claim"] /\ lastEvent' = last[d] /\ UNCHANGED upper
    BY <1>1, <1>2, <1>3, <1>5, <2>1, <2>2, <2>3 DEF ReadSlice, PassInv, InPass, TypeOK
  <2>4. ASSUME NEW u \in events, u > last[d], upper' = [upper EXCEPT ![d] = u],
               pc' = [pc EXCEPT ![d] = "queue"], UNCHANGED <<lastEvent, lock>>
        PROVE  PassInv'
    <3>1. upper'[d] = u /\ last[d] < u
      BY <1>1, <2>4, DispatcherAssumption DEF TypeOK, Ids
    <3> QED BY <1>1, <1>2, <1>3, <1>5, <2>1, <2>2, <2>4, <3>1
            DEF ReadSlice, PassInv, InPass, TypeOK
  <2> QED BY <1>5, <2>3, <2>4 DEF ReadSlice
<1>6. CASE QueueDeliveries(d)
  <2>1. InPass(d)
    BY <1>6 DEF QueueDeliveries, InPass
  <2>2. \A p \in found'[d] : status[p] = "absent"
    BY <1>1, <1>6 DEF QueueDeliveries, TypeOK
  <2>3. \A c \in Dispatchers \ {d} : pc'[c] = pc[c] /\ found'[c] = found[c]
    BY <1>1, <1>6 DEF QueueDeliveries, TypeOK
  <2>4. pc'[d] = "commit" /\ pc[d] = "queue"
    BY <1>1, <1>6 DEF QueueDeliveries, TypeOK
  <2>5. UNCHANGED <<lastEvent, lock, last, upper, status>>
    BY <1>6 DEF QueueDeliveries
  <2> QED BY <1>2, <2>1, <2>2, <2>3, <2>4, <2>5 DEF PassInv, InPass
<1>7. CASE CommitPass(d)
  <2>1. InPass(d)
    BY <1>7 DEF CommitPass, InPass
  <2>2. \A c \in Dispatchers : ~InPass(c)' /\ found'[c] = {}
    BY <1>1, <1>3, <1>7, <2>1 DEF CommitPass, TypeOK, InPass
  <2>3. \A p \in Pairs : status[p] # "absent" => status'[p] # "absent"
    BY <1>7 DEF CommitPass
  <2>4. lastEvent' \in events
    BY <1>7 DEF CommitPass, PassInv
  <2> QED BY <1>2, <2>2, <2>3, <2>4 DEF PassInv, InPass
<1>8. CASE PassFails(d)
  <2>1. InPass(d)
    BY <1>8 DEF PassFails, InPass
  <2>2. \A c \in Dispatchers : ~InPass(c)' /\ found'[c] = {}
    BY <1>1, <1>3, <1>8, <2>1 DEF PassFails, TypeOK, InPass
  <2>3. UNCHANGED <<lastEvent, status>>
    BY <1>8 DEF PassFails
  <2> QED BY <1>2, <2>2, <2>3 DEF PassInv, InPass
<1> QED BY <1>4, <1>5, <1>6, <1>7, <1>8

LEMMA PassInvClaim ==
  ASSUME TypeInv, PassInv, NEW d \in Dispatchers,
         ClaimDue(d) \/ ReadDue(d) \/ ClaimFails(d) \/ FinishPass(d) \/ Crash(d) \/ RunAgain(d)
  PROVE  PassInv'
<1> USE DEF eventVars, rowVars, passVars, tickVars
<1>1. TypeOK
  BY DEF TypeInv
<1>2. UNCHANGED <<events, status, lastEvent, last, upper>>
  BY DEF ClaimDue, ReadDue, ClaimFails, FinishPass, Crash, RunAgain, BeginRun
<1>3. pc'[d] \in {"idle", "done", "failed", "read", "send"} /\ \A c \in Dispatchers \ {d} : pc'[c] = pc[c]
  BY <1>1, AfterTickType
     DEF ClaimDue, ReadDue, ClaimFails, FinishPass, Crash, RunAgain, BeginRun, Goto, TypeOK
<1>4. found'[d] = {} /\ \A c \in Dispatchers \ {d} : found'[c] = found[c]
  <2>1. CASE Crash(d) \/ RunAgain(d)
    BY <1>1, <2>1 DEF Crash, RunAgain, BeginRun, TypeOK
  <2>2. CASE ClaimDue(d) \/ ReadDue(d) \/ ClaimFails(d) \/ FinishPass(d)
    BY <2>2 DEF ClaimDue, ReadDue, ClaimFails, FinishPass, PassInv
  <2> QED BY <2>1, <2>2
<1>5. \A c \in Dispatchers \ {d} : lock = c => lock' = c
  BY DEF ClaimDue, ReadDue, ClaimFails, FinishPass, Crash, RunAgain, BeginRun
<1>6. \A c \in Dispatchers, p \in Pairs : task'[c][p].phase # "none" => status[p] # "absent"
  <2>1. CASE ClaimDue(d)
    <3>1. CASE ClaimsNone(d)
      BY <3>1 DEF ClaimsNone, PassInv
    <3>2. ASSUME NEW ps \in SUBSET Due, Claims(d, ps)
          PROVE  \A c \in Dispatchers, p \in Pairs :
                   task'[c][p].phase # "none" => status[p] # "absent"
      <4>1. \A p \in ps : status[p] # "absent"
        BY DEF Due
      <4> SUFFICES ASSUME NEW c \in Dispatchers, NEW q \in Pairs, task'[c][q].phase # "none"
                   PROVE  status[q] # "absent"
        OBVIOUS
      <4>2. CASE c # d
        BY <3>2, <4>2 DEF Claims, PassInv
      <4>3. CASE c = d
        <5>1. q \in ps \/ task'[c][q] = NoTask
          BY <3>2, <4>3 DEF Claims
        <5> QED BY <4>1, <5>1 DEF NoTask
      <4> QED BY <4>2, <4>3
    <3> QED BY <1>1, <2>1, <3>1, <3>2, ClaimEffect, Zenon
  <2>2. CASE ReadDue(d)
    <3>1. \A c \in Dispatchers, q \in Pairs : task'[c][q].phase # "none" => task[c][q].phase # "none"
      <4> SUFFICES ASSUME NEW c \in Dispatchers, NEW q \in Pairs, task'[c][q].phase # "none"
                   PROVE  task[c][q].phase # "none"
        OBVIOUS
      <4>1. CASE c # d
        BY <1>1, <2>2, <4>1, ReadEffect
      <4>2. CASE c = d
        <5>1. task[d][q].phase = "claimed" \/ task'[c][q] = NoTask
          BY <1>1, <2>2, <4>2, ReadEffect
        <5> QED BY <4>2, <5>1 DEF NoTask
      <4> QED BY <4>1, <4>2
    <3> QED BY <3>1 DEF PassInv
  <2>3. CASE ClaimFails(d) \/ Crash(d) \/ RunAgain(d)
    <3>1. task' = [task EXCEPT ![d] = Idle]
      BY <2>3 DEF ClaimFails, Crash, RunAgain, BeginRun
    <3>2. \A c \in Dispatchers, q \in Pairs : task'[c][q] \in {NoTask, task[c][q]}
      BY <1>1, <3>1, IdleEffect
    <3>3. NoTask.phase = "none"
      BY DEF NoTask
    <3> QED BY <3>2, <3>3 DEF PassInv
  <2>4. CASE FinishPass(d)
    BY <2>4 DEF FinishPass, PassInv
  <2> QED BY <2>1, <2>2, <2>3, <2>4
<1> QED BY <1>2, <1>3, <1>4, <1>5, <1>6 DEF PassInv, InPass

LEMMA PassInvSend ==
  ASSUME TypeInv, PassInv, NEW d \in Dispatchers, NEW p \in Pairs,
         Send(d, p) \/ RecordFails(d, p)
  PROVE  PassInv'
<1>1. TypeOK
  BY DEF TypeInv
<1>2. UNCHANGED <<events, lastEvent, lock, pc, last, upper, found>>
  BY DEF Send, Post, RecordSuccess, RecordFailure, RecordFails, eventVars, passVars
<1>3. task[d][p].phase # "none"
  BY DEF Send, Post, RecordSuccess, RecordFailure, RecordFails, IsSuccess
<1>4. \A c \in Dispatchers, q \in Pairs : task'[c][q].phase # "none" => task[c][q].phase # "none"
  <2>1. CASE Post(d, p)
    BY <1>1, <1>3, <2>1, PostEffect
  <2>2. CASE TaskEnds(d, p)
    BY <1>1, <2>2, TaskEndsEffect DEF NoTask
  <2> QED BY <2>1, <2>2 DEF Send, RecordSuccess, RecordFailure, RecordFails
<1>5. \A q \in Pairs : /\ status[q] # "absent" => status'[q] # "absent"
                       /\ status[q] = "absent" => status'[q] = "absent"
  <2>1. status[p] # "absent"
    BY <1>3 DEF PassInv
  <2>2. status' \in {status, [status EXCEPT ![p] = "delivered"], [status EXCEPT ![p] = "dead"]}
    BY DEF Send, Post, RecordSuccess, RecordFailure, RecordFails, rowVars
  <2> QED BY <1>1, <2>1, <2>2 DEF TypeOK
<1>6. \A c \in Dispatchers : \A q \in found[c] : status'[q] = "absent"
  BY <1>1, <1>5 DEF PassInv, TypeOK
<1>7. \A c \in Dispatchers, q \in Pairs : task'[c][q].phase # "none" => status'[q] # "absent"
  <2>1. \A c \in Dispatchers, q \in Pairs : task[c][q].phase # "none" => status[q] # "absent"
    BY DEF PassInv
  <2>2. \A q \in Pairs : status[q] # "absent" => status'[q] # "absent"
    BY <1>5
  <2> QED BY <1>4, <2>1, <2>2, Zenon
<1> QED BY <1>2, <1>6, <1>7 DEF PassInv, InPass

LEMMA PassInvNext ==
  ASSUME TypeInv, PassInv, [Next]_vars
  PROVE  PassInv'
<1>1. CASE Tick
  <2>1. \A c \in Dispatchers, q \in Pairs : task'[c][q].phase = task[c][q].phase
    BY <1>1, TickEffect DEF TypeInv
  <2> QED BY <1>1, <2>1 DEF Tick, PassInv, InPass, eventVars, passVars
<1>2. CASE UNCHANGED vars
  BY <1>2 DEF vars, eventVars, rowVars, passVars, tickVars, PassInv, InPass
<1> QED BY <1>1, <1>2, PassInvWriters, PassInvPass, PassInvClaim, PassInvSend DEF Next, Step

LEMMA PassInvAlways == Spec => [](TypeInv /\ PassInv)
BY TypeInvInit, TypeInvNext, PassInvInit, PassInvNext, PTL DEF Spec

(* The cursor moves only as a pass that holds its row says, and so forward *)
(* from where that pass found it.                                          *)
LEMMA CursorStep ==
  ASSUME TypeInv, PassInv, [Next]_vars, lastEvent # None
  PROVE  lastEvent' # None /\ lastEvent <= lastEvent'
<1> USE DEF eventVars, rowVars, passVars, tickVars
<1>1. lastEvent \in Nat
  BY DispatcherAssumption DEF TypeInv, TypeOK
<1>2. CASE UNCHANGED lastEvent
  BY <1>1, <1>2
<1>3. ASSUME NEW d \in Dispatchers, ReadSlice(d)
      PROVE  lastEvent' = lastEvent
  BY <1>3 DEF ReadSlice, PassInv, InPass
<1>4. ASSUME NEW d \in Dispatchers, CommitPass(d)
      PROVE  lastEvent' \in Nat /\ lastEvent < lastEvent'
  <2>1. upper[d] \in Nat
    BY DispatcherAssumption DEF TypeInv, TypeOK
  <2>2. lastEvent < upper[d] /\ lastEvent' = upper[d]
    BY <1>4 DEF CommitPass, PassInv, InPass
  <2> QED BY <2>1, <2>2
<1>5. lastEvent' = lastEvent \/ \E d \in Dispatchers : ReadSlice(d) \/ CommitPass(d)
  BY DEF Next, Step, Send, BeginInsert, CommitInsert, AbortInsert, Create, Deactivate,
         LockCursor, QueueDeliveries, PassFails, ClaimDue, ReadDue, ClaimFails, FinishPass,
         Crash, RunAgain, BeginRun, Post, RecordSuccess, RecordFailure, RecordFails, Tick,
         vars
<1> QED BY <1>1, <1>2, <1>3, <1>4, <1>5, DispatcherAssumption

(* However the passes of several dispatchers interleave, fail and crash,   *)
(* the cursor never moves back.                                            *)
THEOREM CursorForward == Spec => CursorOnlyForward
<1>1. TypeInv /\ PassInv /\ [Next]_vars
        => [lastEvent # None => lastEvent' # None /\ lastEvent <= lastEvent']_vars
  BY CursorStep
<1> QED BY <1>1, PassInvAlways, PTL DEF Spec, CursorOnlyForward

-----------------------------------------------------------------------------
(* Nothing is skipped while inserts commit in the order of their ids, as   *)
(* the inserts of one connection do by themselves.                         *)

OneWriter == \A v, w \in Writers : v = w

(* An id that is still to appear is above all that have.                   *)
OrderInv ==
  /\ \A e \in events : e < nextId
  /\ \A w \in Writers : inserting[w] # None =>
       /\ inserting[w] < nextId
       /\ \A e \in events : e < inserting[w]
       /\ \A v \in Writers \ {w} : inserting[v] # inserting[w]

(* Who gives out ids and shows events.                                     *)
LEMMA IdsSteps ==
  ASSUME [Next]_vars
  PROVE  \/ UNCHANGED <<nextId, inserting, events>>
         \/ \E w \in Writers : BeginInsert(w) \/ CommitInsert(w) \/ AbortInsert(w)
<1> USE DEF eventVars, rowVars, passVars, tickVars
<1>1. ASSUME NEW d \in Dispatchers, Step(d) \/ PassFails(d) \/ ClaimFails(d) \/ Crash(d)
      PROVE  UNCHANGED <<nextId, inserting, events>>
  BY <1>1 DEF Step, LockCursor, ReadSlice, QueueDeliveries, CommitPass, PassFails, ClaimDue,
              ReadDue, ClaimFails, FinishPass, Crash, RunAgain, BeginRun
<1>2. ASSUME NEW d \in Dispatchers, NEW p \in Pairs, Send(d, p) \/ RecordFails(d, p)
      PROVE  UNCHANGED <<nextId, inserting, events>>
  BY <1>2 DEF Send, Post, RecordSuccess, RecordFailure, RecordFails
<1>3. CASE Tick \/ UNCHANGED vars \/ \E s \in Subs : Create(s) \/ Deactivate(s)
  BY <1>3 DEF Tick, vars, Create, Deactivate
<1> QED BY <1>1, <1>2, <1>3 DEF Next

LEMMA OrderInvInit == Init => OrderInv
BY DispatcherAssumption DEF Init, OrderInv

LEMMA OrderInvNext ==
  ASSUME InOrder \/ OneWriter, TypeInv, OrderInv, [Next]_vars
  PROVE  OrderInv'
<1> USE DEF eventVars, rowVars, passVars, tickVars
<1>1. TypeOK
  BY DEF TypeInv
<1>2. /\ nextId \in Nat /\ events \in SUBSET Nat
      /\ \A w \in Writers : inserting[w] # None => inserting[w] \in Nat
  BY <1>1, DispatcherAssumption DEF TypeOK, Ids
<1>3. ASSUME NEW w \in Writers, BeginInsert(w) PROVE OrderInv'
  <2>1. /\ \A v \in Writers : inserting'[v] = IF v = w THEN nextId ELSE inserting[v]
        /\ nextId' = nextId + 1 /\ events' = events
    BY <1>1, <1>3 DEF BeginInsert, TypeOK
  <2>2. \A v \in Writers : inserting[v] # None => inserting[v] # nextId
    BY <1>2 DEF OrderInv
  <2> QED BY <1>2, <2>1, <2>2, DispatcherAssumption DEF OrderInv
<1>4. ASSUME NEW w \in Writers, CommitInsert(w) PROVE OrderInv'
  <2>1. /\ \A v \in Writers : inserting'[v] = IF v = w THEN None ELSE inserting[v]
        /\ nextId' = nextId /\ events' = events \cup {inserting[w]}
        /\ inserting[w] # None
        /\ \A v \in Writers : inserting[v] # None => inserting[v] >= inserting[w]
    BY <1>1, <1>2, <1>4 DEF CommitInsert, OneWriter, TypeOK
  <2>2. \A v \in Writers \ {w} : inserting[v] # None => inserting[w] < inserting[v]
    BY <1>2, <2>1 DEF OrderInv
  <2> QED BY <1>2, <2>1, <2>2 DEF OrderInv
<1>5. ASSUME NEW w \in Writers, AbortInsert(w) PROVE OrderInv'
  BY <1>1, <1>5 DEF AbortInsert, TypeOK, OrderInv
<1>6. CASE UNCHANGED <<nextId, inserting, events>>
  BY <1>6 DEF OrderInv
<1> QED BY <1>3, <1>4, <1>5, <1>6, IdsSteps

(* A wanted event is one that has appeared, after the cursor began; and a  *)
(* pass about to commit has a row for each it will move past.              *)
WantInv ==
  /\ \A p \in wanted : p[2] \in events /\ p[2] \in Wants[p[1]] /\ subs[p[1]] # "unborn"
  /\ lastEvent = None => wanted = {}
  /\ NothingSkipped
  /\ \A d \in Dispatchers : pc[d] = "commit" =>
       \A p \in wanted :
         last[d] < p[2] /\ p[2] <= upper[d] /\ subs[p[1]] = "active"
           => p \in found[d] \/ status[p] # "absent"

LEMMA WantInvInit == Init => WantInv
BY DEF Init, WantInv, NothingSkipped

(* What is queued stays queued.                                            *)
LEMMA QueuedStays ==
  ASSUME TypeInv, PassInv, [Next]_vars
  PROVE  \A p \in Pairs : status[p] # "absent" => status'[p] # "absent"
<1> USE DEF eventVars, rowVars, passVars, tickVars
<1>1. ASSUME NEW d \in Dispatchers, CommitPass(d)
      PROVE  \A p \in Pairs : status[p] # "absent" => status'[p] # "absent"
  BY <1>1 DEF CommitPass
<1>2. ASSUME NEW d \in Dispatchers, NEW q \in Pairs, Send(d, q)
      PROVE  \A p \in Pairs : status[p] # "absent" => status'[p] # "absent"
  <2>1. status' \in {status, [status EXCEPT ![q] = "delivered"], [status EXCEPT ![q] = "dead"]}
    BY <1>2 DEF Send, Post, RecordSuccess, RecordFailure
  <2> QED BY <2>1 DEF TypeInv, TypeOK
<1>3. \/ UNCHANGED status
      \/ \E d \in Dispatchers : CommitPass(d)
      \/ \E d \in Dispatchers, p \in Pairs : Send(d, p)
  BY DEF Next, Step, BeginInsert, CommitInsert, AbortInsert, Create, Deactivate, LockCursor,
         ReadSlice, QueueDeliveries, PassFails, ClaimDue, ReadDue, ClaimFails, FinishPass,
         Crash, RunAgain, BeginRun, RecordFails, Tick, vars
<1> QED BY <1>1, <1>2, <1>3

(* Steps that leave the cursor, the log and the passes alone.              *)
LEMMA WantStays ==
  ASSUME TypeInv, PassInv, WantInv, [Next]_vars,
         UNCHANGED <<events, wanted, subs, lastEvent>>,
         \A d \in Dispatchers : pc'[d] = "commit" =>
           pc[d] = "commit" /\ UNCHANGED <<last[d], upper[d], found[d]>>
  PROVE  WantInv'
<1>1. \A p \in Pairs : status[p] # "absent" => status'[p] # "absent"
  BY QueuedStays
<1>2. wanted \in SUBSET Pairs
  BY DEF TypeInv, TypeOK
<1> QED BY <1>1, <1>2 DEF WantInv, NothingSkipped

LEMMA WantInvLog ==
  ASSUME TypeInv, PassInv, OrderInv, WantInv, [Next]_vars,
         \/ \E w \in Writers : BeginInsert(w) \/ CommitInsert(w) \/ AbortInsert(w)
         \/ \E s \in Subs : Create(s) \/ Deactivate(s)
  PROVE  WantInv'
<1> USE DEF eventVars, rowVars, passVars, tickVars
<1>1. TypeOK
  BY DEF TypeInv
<1>2. UNCHANGED <<lastEvent, status, pc, last, upper, found>>
  BY DEF BeginInsert, CommitInsert, AbortInsert, Create, Deactivate
<1>3. CASE \E w \in Writers : BeginInsert(w) \/ AbortInsert(w)
  <2>1. UNCHANGED <<events, wanted, subs>>
    BY <1>3 DEF BeginInsert, AbortInsert
  <2> QED BY <1>2, <2>1, WantStays
<1>4. ASSUME NEW w \in Writers, CommitInsert(w) PROVE WantInv'
  <2> DEFINE id == inserting[w]
  <2>1. id \in Ids /\ id \in Nat /\ events' = events \cup {id} /\ subs' = subs
    BY <1>1, <1>4, DispatcherAssumption DEF CommitInsert, TypeOK, Ids
  <2>2. \A e \in events : e \in Nat /\ e < id
    BY <1>1, <1>4, DispatcherAssumption DEF CommitInsert, OrderInv, TypeOK, Ids
  <2>3. lastEvent # None => lastEvent \in Nat /\ lastEvent < id
    BY <2>1, <2>2, DispatcherAssumption DEF PassInv, Ids
  <2>4. \A d \in Dispatchers : pc[d] = "commit" => upper[d] < id /\ upper[d] \in Nat
    BY <2>2 DEF PassInv
  <2>5. \A p \in wanted' :
          \/ p \in wanted
          \/ /\ lastEvent # None
             /\ p \in Pairs /\ p[2] = id /\ id \in Wants[p[1]]
             /\ subs[p[1]] = "active"
    BY <1>4 DEF CommitInsert
  <2>6. \A p \in wanted' : p[2] \in events' /\ p[2] \in Wants[p[1]] /\ subs[p[1]] # "unborn"
    BY <2>1, <2>5 DEF WantInv
  <2>7. lastEvent = None => wanted' = {}
    BY <1>4 DEF CommitInsert, WantInv
  <2>8. NothingSkipped'
    BY <1>2, <2>1, <2>3, <2>5 DEF NothingSkipped, WantInv
  <2>9. \A d \in Dispatchers : pc[d] = "commit" =>
          \A p \in wanted' : last[d] < p[2] /\ p[2] <= upper[d] /\ subs[p[1]] = "active"
                               => p \in found[d] \/ status[p] # "absent"
    BY <2>1, <2>4, <2>5 DEF WantInv
  <2> QED BY <1>2, <2>1, <2>6, <2>7, <2>8, <2>9 DEF WantInv
<1>5. CASE \E s \in Subs : Create(s) \/ Deactivate(s)
  <2>1. UNCHANGED <<events, wanted>>
    BY <1>5 DEF Create, Deactivate
  <2>2. \A p \in wanted : p[1] \in Subs /\ subs[p[1]] # "unborn"
    BY <1>1 DEF TypeOK, Pairs, WantInv
  <2>3. \A p \in wanted : subs'[p[1]] # "unborn" /\ (subs'[p[1]] = "active" => subs[p[1]] = "active")
    BY <1>1, <1>5, <2>2 DEF Create, Deactivate, TypeOK
  <2> QED BY <1>2, <2>1, <2>3 DEF WantInv, NothingSkipped
<1> QED BY <1>3, <1>4, <1>5

LEMMA WantInvPass ==
  ASSUME TypeInv, PassInv, WantInv, [Next]_vars, NEW d \in Dispatchers,
         LockCursor(d) \/ ReadSlice(d) \/ QueueDeliveries(d) \/ CommitPass(d) \/ PassFails(d)
  PROVE  WantInv'
<1> USE DEF eventVars, rowVars, passVars, tickVars, Goto
<1>1. TypeOK
  BY DEF TypeInv
<1>2. UNCHANGED <<events, wanted, subs>>
  BY DEF LockCursor, ReadSlice, QueueDeliveries, CommitPass, PassFails
<1>3. wanted \in SUBSET Pairs /\ \A p \in wanted : p[2] \in Nat
  BY <1>1, DispatcherAssumption DEF TypeOK, Pairs, Ids
<1>4. CASE LockCursor(d) \/ PassFails(d)
  <2>1. lastEvent' = lastEvent
    BY <1>4 DEF LockCursor, PassFails
  <2>2. \A c \in Dispatchers : pc'[c] = "commit" =>
          pc[c] = "commit" /\ UNCHANGED <<last[c], upper[c], found[c]>>
    BY <1>1, <1>4 DEF LockCursor, PassFails, TypeOK
  <2> QED BY <1>2, <2>1, <2>2, WantStays
<1>5. CASE ReadSlice(d)
  <2>1. lastEvent' = lastEvent \/ (lastEvent = None /\ lastEvent' # None)
    BY <1>1, <1>5, DispatcherAssumption DEF ReadSlice, PassInv, InPass, TypeOK
  <2>2. \A c \in Dispatchers : pc'[c] = "commit" =>
          pc[c] = "commit" /\ UNCHANGED <<last[c], upper[c], found[c]>>
    BY <1>1, <1>5 DEF ReadSlice, TypeOK
  <2>3. CASE lastEvent' = lastEvent
    BY <1>2, <2>2, <2>3, WantStays
  <2>4. CASE lastEvent = None /\ lastEvent' # None
    BY <1>2, <2>4 DEF WantInv, NothingSkipped
  <2> QED BY <2>1, <2>3, <2>4
<1>6. CASE QueueDeliveries(d)
  <2>1. UNCHANGED <<lastEvent, status, last, upper>>
    BY <1>6 DEF QueueDeliveries
  <2>2. \A c \in Dispatchers \ {d} : pc'[c] = pc[c] /\ found'[c] = found[c]
    BY <1>1, <1>6 DEF QueueDeliveries, TypeOK
  <2>3. found'[d] = {p \in Matching(last[d], upper[d]) : status[p] = "absent"}
    BY <1>1, <1>6 DEF QueueDeliveries, TypeOK
  <2>4. \A p \in wanted : last[d] < p[2] /\ p[2] <= upper[d] /\ subs[p[1]] = "active"
                             => p \in found'[d] \/ status[p] # "absent"
    BY <1>3, <2>3 DEF WantInv, Matching, Between
  <2> QED BY <1>2, <2>1, <2>2, <2>4 DEF WantInv, NothingSkipped
<1>7. CASE CommitPass(d)
  <2>1. lastEvent' = upper[d] /\ InPass(d) /\ upper[d] \in Nat /\ last[d] \in Nat
    BY <1>1, <1>7, DispatcherAssumption DEF CommitPass, InPass, TypeOK
  <2>2. \A c \in Dispatchers : pc'[c] # "commit"
    BY <1>1, <1>7, <2>1, DispatcherAssumption DEF CommitPass, PassInv, InPass, TypeOK
  <2>3. \A p \in wanted : p[2] <= upper[d] /\ subs[p[1]] = "active" => status'[p] # "absent"
    <3> SUFFICES ASSUME NEW p \in wanted, p[2] <= upper[d], subs[p[1]] = "active"
                 PROVE  status'[p] # "absent"
      OBVIOUS
    <3>1. p \in found[d] \/ status[p] # "absent"
      <4>1. CASE last[d] < p[2]
        BY <1>7, <4>1 DEF CommitPass, WantInv
      <4>2. CASE p[2] <= last[d]
        <5>1. lastEvent # None
          BY DEF WantInv
        <5>2. last[d] = lastEvent
          BY <2>1, <5>1 DEF PassInv
        <5> QED BY <4>2, <5>1, <5>2 DEF WantInv, NothingSkipped
      <4> QED BY <1>3, <2>1, <4>1, <4>2
    <3> QED BY <1>3, <1>7, <3>1 DEF CommitPass
  <2>4. lastEvent' # None
    BY <2>1, DispatcherAssumption
  <2> QED BY <1>2, <2>1, <2>2, <2>3, <2>4 DEF WantInv, NothingSkipped
<1> QED BY <1>4, <1>5, <1>6, <1>7

LEMMA WantInvNext ==
  ASSUME TypeInv, PassInv, OrderInv, WantInv, [Next]_vars
  PROVE  WantInv'
<1> USE DEF eventVars, rowVars, passVars, tickVars
<1>1. ASSUME NEW d \in Dispatchers,
             \/ ClaimDue(d) \/ ReadDue(d) \/ ClaimFails(d) \/ FinishPass(d) \/ Crash(d)
             \/ RunAgain(d)
      PROVE  WantInv'
  <2>1. UNCHANGED <<events, wanted, subs, lastEvent, last, upper>>
    BY <1>1 DEF ClaimDue, ReadDue, ClaimFails, FinishPass, Crash, RunAgain, BeginRun
  <2>2. \A c \in Dispatchers : pc'[c] = "commit" => pc[c] = "commit" /\ found'[c] = found[c]
    BY <1>1, AfterTickType
       DEF ClaimDue, ReadDue, ClaimFails, FinishPass, Crash, RunAgain, BeginRun, Goto,
           TypeInv, TypeOK
  <2> QED BY <2>1, <2>2, WantStays
<1>2. ASSUME NEW d \in Dispatchers, NEW p \in Pairs, Send(d, p) \/ RecordFails(d, p)
      PROVE  WantInv'
  <2>1. UNCHANGED <<events, wanted, subs, lastEvent, pc, last, upper, found>>
    BY <1>2 DEF Send, Post, RecordSuccess, RecordFailure, RecordFails
  <2> QED BY <2>1, WantStays
<1>3. CASE Tick \/ UNCHANGED vars
  <2>1. UNCHANGED <<events, wanted, subs, lastEvent, pc, last, upper, found>>
    BY <1>3 DEF Tick, vars
  <2> QED BY <2>1, WantStays
<1> QED BY <1>1, <1>2, <1>3, WantInvLog, WantInvPass DEF Next, Step

(* No event that an active subscription wants is behind the cursor without *)
(* a delivery, whatever the dispatchers do, when inserts commit in order:  *)
(* also when one connection writes, whatever order the database keeps.     *)
THEOREM EventsNotSkipped ==
  ASSUME InOrder \/ OneWriter
  PROVE  Spec => []NothingSkipped
<1> DEFINE IInv == TypeInv /\ PassInv /\ OrderInv /\ WantInv
<1>1. Init => IInv
  BY TypeInvInit, PassInvInit, OrderInvInit, WantInvInit
<1>2. IInv /\ [Next]_vars => IInv'
  BY TypeInvNext, PassInvNext, OrderInvNext, WantInvNext
<1>3. IInv => NothingSkipped
  BY DEF WantInv
<1> QED BY <1>1, <1>2, <1>3, PTL DEF Spec

-----------------------------------------------------------------------------
(* Attempts.                                                               *)

LEMMA AttemptsGrow ==
  ASSUME TypeInv, [Next]_vars
  PROVE  \A p \in Pairs : attempts[p] <= attempts'[p]
<1>1. \A p \in Pairs : attempts[p] \in Nat
  BY DEF TypeInv, TypeOK
<1>2. ASSUME NEW d \in Dispatchers, ClaimDue(d)
      PROVE  \A p \in Pairs : attempts[p] <= attempts'[p]
  <2>1. CASE ClaimsNone(d)
    BY <1>1, <2>1 DEF ClaimsNone
  <2>2. ASSUME NEW ps \in SUBSET Due, Claims(d, ps)
        PROVE  \A p \in Pairs : attempts[p] <= attempts'[p]
    BY <1>1, <2>2 DEF Claims
  <2> QED BY <1>2, <2>1, <2>2, ClaimEffect, Zenon DEF TypeInv
<1>3. attempts' = attempts \/ \E d \in Dispatchers : ClaimDue(d)
  BY DEF Next, Step, Send, BeginInsert, CommitInsert, AbortInsert, Create, Deactivate,
         LockCursor, ReadSlice, QueueDeliveries, CommitPass, PassFails, ReadDue, ClaimFails,
         FinishPass, Crash, RunAgain, BeginRun, Post, RecordSuccess, RecordFailure,
         RecordFails, Tick, vars, rowVars
<1> QED BY <1>1, <1>2, <1>3

(* A delivery is given up only after MaxAttempts claims: the count its     *)
(* task read is no more than what the row has by then.                     *)
THEOREM DeadAfterAttempts == Spec => []DeadWasTried
<1>1. Init => DeadWasTried
  BY DEF Init, DeadWasTried
<1>2. ASSUME TypeInv, DeadWasTried, [Next]_vars PROVE DeadWasTried'
  <2>1. \A p \in Pairs : attempts[p] <= attempts'[p] /\ attempts[p] \in Nat /\ attempts'[p] \in Nat
    BY <1>2, AttemptsGrow, TypeInvNext DEF TypeInv, TypeOK
  <2>2. ASSUME NEW d \in Dispatchers, NEW p \in Pairs, Send(d, p)
        PROVE  \A q \in Pairs : status'[q] = "dead" => status[q] = "dead" \/ attempts[q] >= MaxAttempts
    <3>1. CASE Post(d, p)
      BY <3>1 DEF Post, rowVars
    <3>2. CASE RecordSuccess(d, p)
      BY <1>2, <3>2 DEF RecordSuccess, TypeInv, TypeOK
    <3>3. CASE RecordFailure(d, p)
      <4>1. task[d][p].attempts \in 1 .. attempts[p]
        BY <1>2, <3>3 DEF RecordFailure, TypeInv, TasksCounted
      <4>2. GivesUp(task[d][p].attempts) => attempts[p] >= MaxAttempts
        BY <2>1, <4>1, DispatcherAssumption DEF GivesUp
      <4> QED BY <1>2, <3>3, <4>2 DEF RecordFailure, TypeInv, TypeOK
    <3> QED BY <2>2, <3>1, <3>2, <3>3 DEF Send
  <2>3. ASSUME NEW d \in Dispatchers, CommitPass(d)
        PROVE  \A q \in Pairs : status'[q] = "dead" => status[q] = "dead"
    BY <2>3 DEF CommitPass
  <2>4. \/ UNCHANGED status
        \/ \E d \in Dispatchers : CommitPass(d)
        \/ \E d \in Dispatchers, p \in Pairs : Send(d, p)
    BY <1>2 DEF Next, Step, BeginInsert, CommitInsert, AbortInsert, Create, Deactivate,
         LockCursor, ReadSlice, QueueDeliveries, PassFails, ClaimDue, ReadDue, ClaimFails,
         FinishPass, Crash, RunAgain, BeginRun, RecordFails, Tick, vars, rowVars
  <2>5. \A q \in Pairs : status'[q] = "dead" => status[q] = "dead" \/ attempts[q] >= MaxAttempts
    BY <2>2, <2>3, <2>4
  <2> QED BY <1>2, <2>1, <2>5, DispatcherAssumption DEF DeadWasTried
<1> QED BY <1>1, <1>2, TypeInvAlways, PTL DEF Spec

-----------------------------------------------------------------------------
(* The runs of --once.                                                     *)

(* An id given out is of one insert, or of one event.                      *)
IdsInv ==
  /\ \A e \in events : e < nextId
  /\ \A w \in Writers : inserting[w] # None =>
       /\ inserting[w] < nextId
       /\ inserting[w] \notin events
       /\ \A v \in Writers \ {w} : inserting[v] # inserting[w]

(* What is wanted has appeared, what is queued is behind the cursor, and   *)
(* a pass queues what is behind the place it will move the cursor to.      *)
BehindInv ==
  /\ \A p \in wanted : p[2] \in events /\ p[2] \in Wants[p[1]] /\ subs[p[1]] # "unborn"
  /\ \A p \in Pairs : status[p] # "absent" => lastEvent # None /\ p[2] <= lastEvent
  /\ \A d \in Dispatchers : \A p \in found[d] : p[2] <= upper[d]
  /\ \A d \in Dispatchers : seen[d] \subseteq events

Drained(d) ==
  /\ lastEvent # None
  /\ \A e \in seen[d] : e <= lastEvent \/ StoppedBefore(d, e)

(* What the pass of a run has read says of the events there were when it   *)
(* began; and so does a pass that queued nothing, until the run is done.   *)
RunInv(d) ==
  /\ pc[d] \in {"queue", "commit"} =>
       \/ Cardinality(Between(last[d], upper[d])) >= Batch
       \/ \A e \in seen[d] : e <= upper[d]
  /\ pc[d] = "commit" =>
       \A p \in wanted : /\ p[2] \in seen[d] /\ last[d] < p[2] /\ p[2] <= upper[d]
                         /\ subs[p[1]] = "active"
                         => p \in found[d]
  /\ pc[d] = "claim" /\ ~erred[d] /\ ~worked[d] => Drained(d)
  /\ pc[d] = "done" => Drained(d)

DrainInv == IdsInv /\ BehindInv /\ \A d \in OnceDispatchers : RunInv(d)

(* A slice of more ids has as many or more.                                *)
Slice(E, low, high) == {e \in E : low < e /\ e <= high}

LEMMA SliceGrows ==
  ASSUME NEW E \in SUBSET Ids, NEW F \in SUBSET Ids, E \subseteq F, NEW low, NEW high
  PROVE  /\ Cardinality(Slice(E, low, high)) \in Nat
         /\ Cardinality(Slice(F, low, high)) \in Nat
         /\ Cardinality(Slice(E, low, high)) <= Cardinality(Slice(F, low, high))
<1> DEFINE S == Slice(E, low, high)
           T == Slice(F, low, high)
<1>1. IsFiniteSet(Ids)
  BY FS_Interval, DispatcherAssumption DEF Ids
<1>2. S \subseteq T /\ T \subseteq Ids
  BY DEF Slice
<1> HIDE DEF S, T
<1>3. IsFiniteSet(T)
  BY <1>1, <1>2, FS_Subset
<1>4. IsFiniteSet(S) /\ Cardinality(S) <= Cardinality(T)
  BY <1>2, <1>3, FS_Subset
<1>5. Cardinality(S) \in Nat /\ Cardinality(T) \in Nat
  BY <1>3, <1>4, FS_CardinalityType
<1> QED BY <1>4, <1>5 DEF S, T

(* What was a full slice is one after any step.                            *)
LEMMA FullStays ==
  ASSUME TypeOK, TypeOK', events \subseteq events',
         NEW d \in Dispatchers, UNCHANGED <<last[d], upper[d]>>,
         Cardinality(Between(last[d], upper[d])) >= Batch
  PROVE  (Cardinality(Between(last[d], upper[d])) >= Batch)'
<1>1. Between(last[d], upper[d]) = Slice(events, last[d], upper[d])
  BY DEF Between, Slice
<1>2. Between(last[d], upper[d])' = Slice(events', last[d], upper[d])
  BY DEF Between, Slice
<1>3. events \in SUBSET Ids /\ events' \in SUBSET Ids
  BY DEF TypeOK
<1>4. /\ Cardinality(Slice(events, last[d], upper[d])) \in Nat
      /\ Cardinality(Slice(events', last[d], upper[d])) \in Nat
      /\ Cardinality(Slice(events, last[d], upper[d]))
           <= Cardinality(Slice(events', last[d], upper[d]))
  BY <1>3, SliceGrows
<1> QED BY <1>1, <1>2, <1>4, DispatcherAssumption


(* What a step may do to the log: an event that appears was not there, and *)
(* what a subscription wants of those that were does not grow.             *)
LogStep ==
  /\ events \subseteq events' /\ wanted \subseteq wanted'
  /\ \A p \in wanted' : p \in wanted \/ (p[2] \notin events /\ p[2] \in events')
  /\ \A p \in wanted : subs'[p[1]] # "unborn"
                       /\ (subs'[p[1]] = "active" => subs[p[1]] = "active")
  /\ \A p \in wanted' : p[2] \in events' /\ p[2] \in Wants[p[1]] /\ subs'[p[1]] # "unborn"

LEMMA LogStays ==
  ASSUME BehindInv, UNCHANGED <<events, wanted, subs>>
  PROVE  LogStep
BY DEF BehindInv, LogStep

LEMMA LogSteps ==
  ASSUME TypeInv, IdsInv, BehindInv, [Next]_vars
  PROVE  LogStep
<1> USE DEF eventVars, rowVars, passVars, tickVars
<1>1. TypeOK
  BY DEF TypeInv
<1>2. ASSUME NEW w \in Writers, CommitInsert(w) PROVE LogStep
  <2>1. /\ events' = events \cup {inserting[w]} /\ subs' = subs /\ inserting[w] \notin events
        /\ wanted \subseteq wanted'
    BY <1>2 DEF CommitInsert, IdsInv
  <2>2. \A p \in wanted' : \/ p \in wanted
                           \/ /\ p[2] = inserting[w] /\ inserting[w] \in Wants[p[1]]
                              /\ subs[p[1]] = "active"
    BY <1>2 DEF CommitInsert
  <2> QED BY <2>1, <2>2 DEF LogStep, BehindInv
<1>3. ASSUME NEW s \in Subs, Create(s) \/ Deactivate(s) PROVE LogStep
  <2>1. UNCHANGED <<events, wanted>>
    BY <1>3 DEF Create, Deactivate
  <2>2. \A p \in wanted : p[1] \in Subs /\ subs[p[1]] # "unborn"
    BY <1>1 DEF BehindInv, TypeOK, Pairs
  <2>3. \A p \in wanted : subs'[p[1]] # "unborn" /\ (subs'[p[1]] = "active" => subs[p[1]] = "active")
    BY <1>1, <1>3, <2>2 DEF Create, Deactivate, TypeOK
  <2> QED BY <2>1, <2>3 DEF LogStep, BehindInv
<1>4. \/ UNCHANGED <<events, wanted, subs>>
      \/ \E w \in Writers : CommitInsert(w)
      \/ \E s \in Subs : Create(s) \/ Deactivate(s)
  <2>1. ASSUME NEW d \in Dispatchers, Step(d) \/ PassFails(d) \/ ClaimFails(d) \/ Crash(d)
        PROVE  UNCHANGED <<events, wanted, subs>>
    BY <2>1 DEF Step, LockCursor, ReadSlice, QueueDeliveries, CommitPass, PassFails, ClaimDue,
                ReadDue, ClaimFails, FinishPass, Crash, RunAgain, BeginRun
  <2>2. ASSUME NEW d \in Dispatchers, NEW p \in Pairs, Send(d, p) \/ RecordFails(d, p)
        PROVE  UNCHANGED <<events, wanted, subs>>
    BY <2>2 DEF Send, Post, RecordSuccess, RecordFailure, RecordFails
  <2>3. CASE Tick \/ UNCHANGED vars \/ \E w \in Writers : BeginInsert(w) \/ AbortInsert(w)
    BY <2>3 DEF Tick, vars, BeginInsert, AbortInsert
  <2> QED BY <2>1, <2>2, <2>3 DEF Next
<1> QED BY <1>2, <1>3, <1>4, LogStays

LEMMA IdsInvNext ==
  ASSUME TypeInv, IdsInv, [Next]_vars
  PROVE  IdsInv'
<1> USE DEF eventVars, rowVars, passVars, tickVars
<1>1. TypeOK
  BY DEF TypeInv
<1>2. /\ nextId \in Nat /\ events \in SUBSET Nat
      /\ \A w \in Writers : inserting[w] # None => inserting[w] \in Nat
  BY <1>1, DispatcherAssumption DEF TypeOK, Ids
<1>3. ASSUME NEW w \in Writers, BeginInsert(w) PROVE IdsInv'
  <2>1. /\ \A v \in Writers : inserting'[v] = IF v = w THEN nextId ELSE inserting[v]
        /\ nextId' = nextId + 1 /\ events' = events
    BY <1>1, <1>3 DEF BeginInsert, TypeOK
  <2>2. nextId \notin events /\ \A v \in Writers : inserting[v] # None => inserting[v] # nextId
    BY <1>2 DEF IdsInv
  <2> QED BY <1>2, <2>1, <2>2, DispatcherAssumption DEF IdsInv
<1>4. ASSUME NEW w \in Writers, CommitInsert(w) PROVE IdsInv'
  <2>1. /\ \A v \in Writers : inserting'[v] = IF v = w THEN None ELSE inserting[v]
        /\ nextId' = nextId /\ events' = events \cup {inserting[w]}
        /\ inserting[w] # None
    BY <1>1, <1>4 DEF CommitInsert, TypeOK
  <2> QED BY <1>2, <2>1 DEF IdsInv
<1>5. ASSUME NEW w \in Writers, AbortInsert(w) PROVE IdsInv'
  BY <1>1, <1>5 DEF AbortInsert, TypeOK, IdsInv
<1>6. CASE UNCHANGED <<nextId, inserting, events>>
  BY <1>6 DEF IdsInv
<1> QED BY <1>3, <1>4, <1>5, <1>6, IdsSteps

(* What a dispatcher knows of its run stays as it is while it does nothing.*)
Same(d) ==
  UNCHANGED <<pc[d], last[d], upper[d], found[d], seen[d], worked[d], erred[d]>>

Moves(d) ==
  \/ LockCursor(d) \/ ReadSlice(d) \/ QueueDeliveries(d) \/ CommitPass(d) \/ PassFails(d)
  \/ ClaimDue(d) \/ ReadDue(d) \/ ClaimFails(d) \/ FinishPass(d) \/ Crash(d) \/ RunAgain(d)

LEMMA OthersSame ==
  ASSUME TypeOK, NEW c \in Dispatchers, Moves(c), NEW d \in Dispatchers, d # c
  PROVE  Same(d)
<1> USE DEF passVars, tickVars, Goto
<1>1. CASE LockCursor(c) \/ ReadSlice(c) \/ QueueDeliveries(c) \/ CommitPass(c) \/ PassFails(c)
  BY <1>1 DEF LockCursor, ReadSlice, QueueDeliveries, CommitPass, PassFails, Same, TypeOK
<1>2. CASE ClaimDue(c) \/ ReadDue(c) \/ ClaimFails(c) \/ FinishPass(c)
  BY <1>2 DEF ClaimDue, ReadDue, ClaimFails, FinishPass, Same, TypeOK
<1>3. CASE Crash(c) \/ RunAgain(c)
  BY <1>3 DEF Crash, RunAgain, BeginRun, Same, TypeOK
<1> QED BY <1>1, <1>2, <1>3 DEF Moves

LEMMA MovesOrSame ==
  ASSUME TypeOK, [Next]_vars, NEW d \in Dispatchers
  PROVE  Same(d) \/ Moves(d)
<1> USE DEF eventVars, rowVars, passVars, tickVars
<1>1. ASSUME NEW c \in Dispatchers, Moves(c) PROVE Same(d) \/ Moves(d)
  BY <1>1, OthersSame
<1>2. ASSUME NEW c \in Dispatchers, NEW p \in Pairs, Send(c, p) \/ RecordFails(c, p)
      PROVE  Same(d)
  BY <1>2 DEF Send, Post, RecordSuccess, RecordFailure, RecordFails, Same
<1>3. CASE \/ \E w \in Writers : BeginInsert(w) \/ CommitInsert(w) \/ AbortInsert(w)
           \/ \E s \in Subs : Create(s) \/ Deactivate(s)
           \/ Tick
           \/ UNCHANGED vars
  BY <1>3 DEF BeginInsert, CommitInsert, AbortInsert, Create, Deactivate, Tick, vars, Same
<1>4. \/ \E c \in Dispatchers : Moves(c)
      \/ \E c \in Dispatchers, p \in Pairs : Send(c, p) \/ RecordFails(c, p)
      \/ \E w \in Writers : BeginInsert(w) \/ CommitInsert(w) \/ AbortInsert(w)
      \/ \E s \in Subs : Create(s) \/ Deactivate(s)
      \/ Tick
      \/ UNCHANGED vars
  BY Zenon DEF Next, Step, Moves
<1> QED BY <1>1, <1>2, <1>3, <1>4

(* Where a run stopped, it stays stopped.                                  *)
LEMMA StoppedStays ==
  ASSUME TypeOK, TypeOK', LogStep, NEW d \in Dispatchers, seen[d] \subseteq events,
         UNCHANGED <<last[d], upper[d], seen[d]>>,
         NEW e, StoppedBefore(d, e)
  PROVE  StoppedBefore(d, e)'
<1>1. (Cardinality(Between(last[d], upper[d])) >= Batch)'
  BY FullStays DEF LogStep, StoppedBefore
<1>2. (e > upper[d])'
  BY DEF StoppedBefore
<1>3. \A p \in wanted' : p[2] \in seen'[d] => p \in wanted
  BY DEF LogStep
<1>4. \A p \in wanted' : p[2] \in seen'[d] /\ last'[d] < p[2] /\ p[2] <= upper'[d]
                           => subs'[p[1]] # "active"
  BY <1>3 DEF LogStep, StoppedBefore
<1> QED BY <1>1, <1>2, <1>4 DEF StoppedBefore

LEMMA DrainedStays ==
  ASSUME TypeInv, TypeOK', PassInv, [Next]_vars, LogStep,
         NEW d \in Dispatchers, seen[d] \subseteq events,
         UNCHANGED <<last[d], upper[d], seen[d]>>, Drained(d)
  PROVE  Drained(d)'
<1>1. lastEvent # None /\ lastEvent' # None /\ lastEvent <= lastEvent'
  BY CursorStep DEF Drained
<1>2. lastEvent \in Nat /\ lastEvent' \in Nat /\ \A e \in seen[d] : e \in Nat
  BY <1>1, DispatcherAssumption DEF TypeInv, TypeOK, Ids
<1>3. \A e \in seen[d] : e <= lastEvent' \/ StoppedBefore(d, e)'
  BY <1>1, <1>2, StoppedStays DEF Drained, TypeInv
<1> QED BY <1>1, <1>3 DEF Drained

LEMMA RunStays ==
  ASSUME TypeInv, TypeOK', PassInv, [Next]_vars, LogStep,
         NEW d \in Dispatchers, seen[d] \subseteq events, RunInv(d), Same(d)
  PROVE  RunInv(d)'
<1>1. Drained(d) => Drained(d)'
  BY DrainedStays DEF Same
<1>2. Cardinality(Between(last[d], upper[d])) >= Batch
        => (Cardinality(Between(last[d], upper[d])) >= Batch)'
  BY FullStays DEF TypeInv, LogStep, Same
<1>3. \A p \in wanted' : p[2] \in seen[d] => p \in wanted
  BY DEF LogStep
<1>4. \A p \in wanted' : p[2] \in seen[d] /\ subs'[p[1]] = "active"
                           => p \in wanted /\ subs[p[1]] = "active"
  BY <1>3 DEF LogStep
<1> QED BY <1>1, <1>2, <1>4 DEF RunInv, Same

(* A delivery appears when a pass commits, and only then.                  *)
LEMMA OnlyQueued ==
  ASSUME TypeOK, PassInv, [Next]_vars, NEW p \in Pairs, status[p] = "absent",
         status'[p] # "absent"
  PROVE  \E d \in Dispatchers : CommitPass(d) /\ p \in found[d]
<1> USE DEF eventVars, rowVars, passVars, tickVars
<1>1. ASSUME NEW d \in Dispatchers, CommitPass(d) PROVE p \in found[d]
  BY <1>1 DEF CommitPass
<1>2. ASSUME NEW d \in Dispatchers, NEW q \in Pairs, Send(d, q) PROVE FALSE
  <2>1. task[d][q].phase # "none"
    BY <1>2 DEF Send, Post, RecordSuccess, RecordFailure, IsSuccess
  <2>2. p # q
    BY <2>1 DEF PassInv
  <2>3. status' \in {status, [status EXCEPT ![q] = "delivered"], [status EXCEPT ![q] = "dead"]}
    BY <1>2 DEF Send, Post, RecordSuccess, RecordFailure
  <2> QED BY <2>2, <2>3 DEF TypeOK
<1>3. \/ UNCHANGED status
      \/ \E d \in Dispatchers : CommitPass(d)
      \/ \E d \in Dispatchers, q \in Pairs : Send(d, q)
  BY DEF Next, Step, BeginInsert, CommitInsert, AbortInsert, Create, Deactivate, LockCursor,
         ReadSlice, QueueDeliveries, PassFails, ClaimDue, ReadDue, ClaimFails, FinishPass,
         Crash, RunAgain, BeginRun, RecordFails, Tick, vars
<1> QED BY <1>1, <1>2, <1>3

(* What a pass is about to queue, and what a run has seen.                 *)
LEMMA FoundSteps ==
  ASSUME TypeOK, PassInv, BehindInv, LogStep, [Next]_vars, NEW d \in Dispatchers
  PROVE  (\A p \in found'[d] : p[2] <= upper'[d]) /\ seen'[d] \subseteq events'
<1> USE DEF eventVars, rowVars, passVars, tickVars
<1>1. /\ \A p \in found[d] : p[2] <= upper[d]
      /\ seen[d] \subseteq events'
  BY DEF BehindInv, LogStep
<1>2. CASE Same(d)
  BY <1>1, <1>2 DEF Same
<1>3. CASE LockCursor(d) \/ CommitPass(d) \/ PassFails(d)
  BY <1>1, <1>3 DEF LockCursor, CommitPass, PassFails, TypeOK
<1>4. CASE ReadSlice(d)
  <2>1. found[d] = {}
    BY <1>4 DEF ReadSlice, PassInv
  <2> QED BY <1>1, <1>4, <2>1 DEF ReadSlice
<1>5. CASE QueueDeliveries(d)
  <2>1. \A p \in found'[d] : p \in Matching(last[d], upper[d])
    BY <1>5 DEF QueueDeliveries, TypeOK
  <2> QED BY <1>1, <1>5, <2>1 DEF QueueDeliveries, Matching, Between
<1>6. CASE ClaimDue(d) \/ ReadDue(d) \/ ClaimFails(d) \/ FinishPass(d)
  BY <1>1, <1>6 DEF ClaimDue, ReadDue, ClaimFails, FinishPass
<1>7. CASE Crash(d) \/ RunAgain(d)
  <2>1. BeginRun(d) /\ events' = events
    BY <1>7 DEF Crash, RunAgain, BeginRun
  <2>2. found'[d] = {} /\ seen'[d] = OfRun(d, events)
    BY <2>1 DEF BeginRun, TypeOK
  <2> QED BY <2>1, <2>2 DEF OfRun
<1> QED BY <1>2, <1>3, <1>4, <1>5, <1>6, <1>7, MovesOrSame DEF Moves

LEMMA BehindInvNext ==
  ASSUME TypeInv, PassInv, IdsInv, BehindInv, [Next]_vars
  PROVE  BehindInv'
<1>1. TypeOK /\ TypeOK' /\ LogStep
  BY TypeInvNext, LogSteps DEF TypeInv
<1>2. \A d \in Dispatchers : (\A p \in found'[d] : p[2] <= upper'[d]) /\ seen'[d] \subseteq events'
  BY <1>1, FoundSteps
<1>3. ASSUME NEW p \in Pairs, status'[p] # "absent"
      PROVE  lastEvent' # None /\ p[2] <= lastEvent'
  <2>1. CASE status[p] # "absent"
    <3>1. lastEvent # None /\ p[2] <= lastEvent /\ lastEvent' # None /\ lastEvent <= lastEvent'
      BY <2>1, CursorStep DEF BehindInv
    <3>2. p[2] \in Nat /\ lastEvent \in Nat /\ lastEvent' \in Nat
      BY <1>1, <3>1, DispatcherAssumption DEF TypeOK, Pairs, Ids
    <3> QED BY <3>1, <3>2
  <2>2. CASE status[p] = "absent"
    <3>1. PICK d \in Dispatchers : CommitPass(d) /\ p \in found[d]
      BY <1>1, <1>3, <2>2, OnlyQueued
    <3>2. lastEvent' = upper[d] /\ upper[d] \in Nat /\ p[2] <= upper[d]
      BY <1>1, <3>1, DispatcherAssumption DEF CommitPass, BehindInv, TypeOK
    <3> QED BY <3>2, DispatcherAssumption
  <2> QED BY <2>1, <2>2
<1> QED BY <1>1, <1>2, <1>3 DEF BehindInv, LogStep

(* The steps of a run.                                                     *)
LEMMA RunMoves ==
  ASSUME TypeInv, PassInv, IdsInv, BehindInv, [Next]_vars,
         NEW d \in OnceDispatchers, RunInv(d), Moves(d)
  PROVE  RunInv(d)'
<1>0. d \in Dispatchers /\ TypeOK /\ TypeOK' /\ LogStep /\ seen[d] \subseteq events
  <2>1. TypeInv' /\ LogStep
    BY TypeInvNext, LogSteps
  <2>2. d \in Dispatchers
    BY DispatcherAssumption
  <2>3. seen[d] \subseteq events
    BY <2>2 DEF BehindInv
  <2> QED BY <2>1, <2>2, <2>3 DEF TypeInv
<1> USE DEF eventVars, rowVars, passVars, tickVars, Goto
<1>1. \A e \in seen[d] : e \in Nat
  BY <1>0, DispatcherAssumption DEF TypeOK, Ids
<1>2. CASE LockCursor(d) \/ ReadDue(d) \/ ClaimFails(d) \/ Crash(d) \/ RunAgain(d)
  <2>1. pc'[d] \in {"slice", "send", "failed", "idle"}
    BY <1>0, <1>2 DEF LockCursor, ReadDue, ClaimFails, Crash, RunAgain, BeginRun, TypeOK
  <2> QED BY <2>1 DEF RunInv
<1>3. CASE PassFails(d)
  <2>1. pc'[d] = "claim" /\ erred'[d]
    BY <1>0, <1>3 DEF PassFails, TypeOK
  <2> QED BY <2>1 DEF RunInv
<1>4. CASE FinishPass(d)
  <2>1. pc'[d] = AfterTick(d, TRUE)
    BY <1>0, <1>4 DEF FinishPass, TypeOK
  <2>2. pc'[d] \in {"idle", "failed"}
    BY <2>1 DEF AfterTick
  <2> QED BY <2>2 DEF RunInv
<1>5. CASE ReadSlice(d)
  <2>1. CASE (\A e \in events : e <= last[d]) /\ lastEvent' = last[d] /\ pc' = [pc EXCEPT ![d] = "claim"]
    <3>1. pc'[d] = "claim" /\ lastEvent' # None /\ seen'[d] = seen[d]
      BY <1>0, <1>5, <2>1, DispatcherAssumption DEF ReadSlice, TypeOK
    <3>2. \A e \in seen'[d] : e <= lastEvent'
      BY <1>0, <2>1, <3>1
    <3> QED BY <3>1, <3>2 DEF RunInv, Drained
  <2>2. ASSUME NEW u \in events, pc' = [pc EXCEPT ![d] = "queue"],
               \/ Cardinality(Between(last[d], u)) = Batch
               \/ Cardinality(Between(last[d], u)) < Batch /\ \A e \in events : e <= u,
               upper' = [upper EXCEPT ![d] = u]
        PROVE  RunInv(d)'
    <3>1. /\ pc'[d] = "queue" /\ upper'[d] = u /\ seen'[d] = seen[d] /\ last'[d] = last[d]
          /\ events' = events
      BY <1>0, <1>5, <2>2, DispatcherAssumption DEF ReadSlice, TypeOK, Ids
    <3>2. Between(last[d], upper[d])' = Between(last[d], u)
      BY <3>1 DEF Between
    <3>3. \/ (Cardinality(Between(last[d], upper[d])) >= Batch)'
          \/ \A e \in seen'[d] : e <= upper'[d]
      BY <1>0, <2>2, <3>1, <3>2, DispatcherAssumption
    <3> QED BY <3>1, <3>3 DEF RunInv
  <2> QED BY <1>5, <2>1, <2>2 DEF ReadSlice
<1>6. CASE QueueDeliveries(d)
  <2>1. /\ pc'[d] = "commit" /\ pc[d] = "queue"
        /\ UNCHANGED <<last[d], upper[d], seen[d], events, wanted, subs, lastEvent>>
        /\ found'[d] = {p \in Matching(last[d], upper[d]) : status[p] = "absent"}
    BY <1>0, <1>6 DEF QueueDeliveries, TypeOK
  <2>2. \A p \in wanted : last[d] < p[2] => status[p] = "absent"
    <3> SUFFICES ASSUME NEW p \in wanted, last[d] < p[2], status[p] # "absent"
                 PROVE  FALSE
      OBVIOUS
    <3>1. p \in Pairs /\ p[2] \in Nat /\ last[d] \in Nat
      BY <1>0, DispatcherAssumption DEF TypeOK, Pairs, Ids
    <3>2. lastEvent # None /\ p[2] <= lastEvent /\ last[d] = lastEvent
      BY <1>0, <2>1, <3>1 DEF BehindInv, PassInv, InPass
    <3> QED BY <3>1, <3>2
  <2>3. \A p \in wanted : /\ last[d] < p[2] /\ p[2] <= upper[d] /\ subs[p[1]] = "active"
                          => p \in found'[d]
    BY <1>0, <2>1, <2>2 DEF Matching, Between, BehindInv, TypeOK
  <2>4. Between(last[d], upper[d])' = Between(last[d], upper[d])
    BY <2>1 DEF Between
  <2>5. \/ (Cardinality(Between(last[d], upper[d])) >= Batch)'
        \/ \A e \in seen'[d] : e <= upper'[d]
    BY <2>1, <2>4 DEF RunInv
  <2> QED BY <2>1, <2>3, <2>5 DEF RunInv
<1>7. CASE CommitPass(d)
  <2>1. /\ pc'[d] = "claim" /\ pc[d] = "commit" /\ lastEvent' = upper[d]
        /\ UNCHANGED <<last[d], upper[d], seen[d], events, wanted, subs>>
        /\ worked'[d] = (found[d] # {})
    BY <1>0, <1>7 DEF CommitPass, TypeOK
  <2>2. lastEvent' # None /\ upper[d] \in Nat
    BY <1>0, <2>1, DispatcherAssumption DEF TypeOK
  <2>3. ASSUME ~worked'[d] PROVE Drained(d)'
    <3>1. found[d] = {}
      BY <2>1, <2>3
    <3>2. CASE \A e \in seen[d] : e <= upper[d]
      BY <2>1, <2>2, <3>2 DEF Drained
    <3>3. CASE Cardinality(Between(last[d], upper[d])) >= Batch
      <4>1. Between(last[d], upper[d])' = Between(last[d], upper[d])
        BY <2>1 DEF Between
      <4>2. \A p \in wanted : p[2] \in seen[d] /\ last[d] < p[2] /\ p[2] <= upper[d]
                                => subs[p[1]] # "active"
        BY <2>1, <3>1 DEF RunInv
      <4>3. ASSUME NEW e \in seen'[d], ~ (e <= lastEvent') PROVE StoppedBefore(d, e)'
        <5>1. e \in Nat /\ e > upper[d]
          BY <1>1, <2>1, <2>2, <4>3
        <5> QED BY <2>1, <3>3, <4>1, <4>2, <5>1 DEF StoppedBefore
      <4> QED BY <2>2, <4>3 DEF Drained
    <3> QED BY <2>1, <3>2, <3>3 DEF RunInv
  <2> QED BY <2>1, <2>3 DEF RunInv
<1>8. CASE ClaimDue(d)
  <2>1. UNCHANGED <<last[d], upper[d], seen[d]>> /\ pc[d] = "claim"
    BY <1>8 DEF ClaimDue
  <2>2. pc'[d] = "read" \/ pc'[d] = AfterTick(d, FALSE)
    BY <1>0, <1>8 DEF ClaimDue, TypeOK
  <2>3. CASE pc'[d] = "done"
    <3>1. ~erred[d] /\ ~worked[d]
      BY <1>0, <2>2, <2>3 DEF AfterTick, TypeOK
    <3>2. Drained(d)'
      BY <1>0, <2>1, <3>1, DrainedStays DEF RunInv
    <3> QED BY <2>3, <3>2 DEF RunInv
  <2>4. CASE pc'[d] \in {"read", "idle", "failed"}
    BY <2>4 DEF RunInv
  <2> QED BY <1>0, <2>2, <2>3, <2>4, AfterTickType
<1> QED BY <1>2, <1>3, <1>4, <1>5, <1>6, <1>7, <1>8 DEF Moves

LEMMA DrainInvNext ==
  ASSUME TypeInv, PassInv, DrainInv, [Next]_vars
  PROVE  DrainInv'
<1>1. IdsInv' /\ BehindInv' /\ LogStep /\ TypeOK' /\ TypeOK
  BY IdsInvNext, BehindInvNext, LogSteps, TypeInvNext DEF DrainInv, TypeInv
<1>2. ASSUME NEW d \in OnceDispatchers PROVE RunInv(d)'
  <2>1. d \in Dispatchers /\ RunInv(d) /\ seen[d] \subseteq events
    BY DispatcherAssumption DEF DrainInv, BehindInv
  <2>2. CASE Same(d)
    BY <1>1, <2>1, <2>2, RunStays
  <2>3. CASE Moves(d)
    BY <2>1, <2>3, RunMoves DEF DrainInv
  <2> QED BY <1>1, <2>1, <2>2, <2>3, MovesOrSame
<1> QED BY <1>1, <1>2 DEF DrainInv

LEMMA DrainInvInit == Init => DrainInv
BY DispatcherAssumption DEF Init, DrainInv, IdsInv, BehindInv, RunInv

LEMMA DrainInvAlways == Spec => [](TypeInv /\ PassInv /\ DrainInv)
BY TypeInvInit, TypeInvNext, PassInvInit, PassInvNext, DrainInvInit, DrainInvNext, PTL DEF Spec

(* A run of --once that is done has moved the cursor past every event it   *)
(* found, except those after a full slice that no subscription wanted;     *)
(* whatever order inserts commit in, and whatever other dispatchers do.    *)
THEOREM RunsDrain == Spec => []OnceDrains
<1>1. DrainInv => OnceDrains
  BY DEF DrainInv, RunInv, Drained, OnceDrains
<1> QED BY <1>1, DrainInvAlways, PTL

(* A delivery no claim has counted is due, if it is there at all.          *)
UnclaimedDue ==
  \A p \in Pairs : attempts[p] = 0 => status[p] \in {"absent", "pending"} /\ wait[p] = 0

LEMMA UnclaimedNext ==
  ASSUME TypeInv, UnclaimedDue, [Next]_vars
  PROVE  UnclaimedDue'
<1> USE DEF eventVars, rowVars, passVars, tickVars
<1>1. TypeOK /\ TasksCounted
  BY DEF TypeInv
<1>2. TypeOK'
  BY TypeInvNext DEF TypeInv
<1> SUFFICES ASSUME NEW p \in Pairs, attempts'[p] = 0
             PROVE  status'[p] \in {"absent", "pending"} /\ wait'[p] = 0
  BY DEF UnclaimedDue
<1>3. attempts[p] = 0 /\ status[p] \in {"absent", "pending"} /\ wait[p] = 0
  <2>1. attempts[p] \in Nat /\ attempts[p] <= attempts'[p]
    BY <1>1, AttemptsGrow DEF TypeOK
  <2> QED BY <2>1 DEF UnclaimedDue
<1>4. CASE UNCHANGED <<status, wait>>
  BY <1>3, <1>4
<1>5. ASSUME NEW d \in Dispatchers, CommitPass(d)
      PROVE  status'[p] \in {"absent", "pending"} /\ wait'[p] = 0
  BY <1>3, <1>5 DEF CommitPass
<1>6. ASSUME NEW d \in Dispatchers, ClaimDue(d)
      PROVE  status'[p] \in {"absent", "pending"} /\ wait'[p] = 0
  <2>1. status' = status
    BY <1>6 DEF ClaimDue
  <2>2. CASE ClaimsNone(d)
    BY <1>3, <2>1, <2>2 DEF ClaimsNone
  <2>3. ASSUME NEW ps \in SUBSET Due, Claims(d, ps) PROVE wait'[p] = 0
    <3>1. p \notin ps
      BY <1>3, <2>3 DEF Claims
    <3> QED BY <1>1, <1>3, <2>3, <3>1, HeldType DEF Claims
  <2> QED BY <1>1, <1>3, <1>6, <2>1, <2>2, <2>3, ClaimEffect
<1>7. ASSUME NEW d \in Dispatchers, NEW q \in Pairs, Send(d, q)
      PROVE  status'[p] \in {"absent", "pending"} /\ wait'[p] = 0
  <2>1. CASE Post(d, q)
    BY <1>3, <2>1 DEF Post
  <2>2. CASE RecordSuccess(d, q) \/ RecordFailure(d, q)
    <3>1. task[d][q].phase \in {"accepted", "refused"}
      BY <2>2 DEF RecordSuccess, RecordFailure, IsSuccess
    <3>2. task[d][q].attempts \in 1 .. attempts[q]
      BY <1>1, <3>1 DEF TasksCounted
    <3>3. p # q
      BY <1>3, <3>2
    <3>4. status'[p] = status[p] /\ wait'[p] = wait[p]
      BY <1>1, <2>2, <3>3 DEF RecordSuccess, RecordFailure, TypeOK
    <3> QED BY <1>3, <3>4
  <2> QED BY <1>7, <2>1, <2>2 DEF Send
<1>8. CASE Tick
  BY <1>3, <1>8 DEF Tick
<1>9. \/ UNCHANGED <<status, wait>>
      \/ \E d \in Dispatchers : CommitPass(d) \/ ClaimDue(d)
      \/ \E d \in Dispatchers, q \in Pairs : Send(d, q)
      \/ Tick
  BY DEF Next, Step, BeginInsert, CommitInsert, AbortInsert, Create, Deactivate, LockCursor,
         ReadSlice, QueueDeliveries, PassFails, ReadDue, ClaimFails, FinishPass, Crash,
         RunAgain, BeginRun, RecordFails, vars
<1> QED BY <1>4, <1>5, <1>6, <1>7, <1>8, <1>9

(* A run becomes done by finding nothing due.                              *)
LEMMA DoneSteps ==
  ASSUME TypeOK, [Next]_vars, NEW d \in Dispatchers, pc'[d] = "done"
  PROVE  \/ pc[d] = "done" /\ Same(d)
         \/ /\ pc[d] = "claim" /\ ~erred[d] /\ ~worked[d]
            /\ Due = {} /\ UNCHANGED <<last[d], upper[d], seen[d]>>
<1> USE DEF eventVars, rowVars, passVars, tickVars, Goto
<1>1. CASE Same(d)
  BY <1>1 DEF Same
<1>2. CASE \/ LockCursor(d) \/ ReadSlice(d) \/ QueueDeliveries(d) \/ CommitPass(d) \/ PassFails(d)
           \/ ReadDue(d) \/ ClaimFails(d) \/ Crash(d) \/ RunAgain(d)
  <2>1. pc'[d] # "done"
    BY <1>2 DEF LockCursor, ReadSlice, QueueDeliveries, CommitPass, PassFails, ReadDue,
                ClaimFails, Crash, RunAgain, BeginRun, TypeOK
  <2> QED BY <2>1
<1>3. CASE FinishPass(d)
  <2>1. pc'[d] = AfterTick(d, TRUE)
    BY <1>3 DEF FinishPass, TypeOK
  <2> QED BY <2>1 DEF AfterTick
<1>4. CASE ClaimDue(d)
  <2>1. UNCHANGED <<last[d], upper[d], seen[d]>> /\ pc[d] = "claim"
    BY <1>4 DEF ClaimDue
  <2>2. pc'[d] = AfterTick(d, FALSE) /\ Due = {}
    BY <1>4 DEF ClaimDue, TypeOK
  <2>3. ~erred[d] /\ ~worked[d]
    BY <2>2 DEF AfterTick, TypeOK
  <2> QED BY <2>1, <2>2, <2>3
<1> QED BY <1>1, <1>2, <1>3, <1>4, MovesOrSame DEF Moves

LEMMA SentNext ==
  ASSUME TypeInv, PassInv, WantInv, DrainInv, UnclaimedDue, OnceSends, [Next]_vars
  PROVE  OnceSends'
<1>1. TypeOK /\ TypeOK' /\ LogStep
  BY LogSteps, TypeInvNext DEF TypeInv, DrainInv
<1> SUFFICES ASSUME NEW d \in OnceDispatchers, pc'[d] = "done",
                    NEW p \in wanted', p[2] \in seen'[d], subs'[p[1]] = "active"
             PROVE  attempts'[p] >= 1 \/ StoppedBefore(d, p[2])'
  BY DEF OnceSends
<1>2. d \in Dispatchers /\ seen[d] \subseteq events /\ UNCHANGED <<last[d], upper[d], seen[d]>>
  BY <1>1, DoneSteps, DispatcherAssumption DEF DrainInv, BehindInv, Same
<1>3. p \in wanted /\ p \in Pairs /\ subs[p[1]] = "active"
  BY <1>1, <1>2 DEF LogStep, TypeOK
<1>4. attempts[p] \in Nat /\ attempts'[p] \in Nat /\ attempts[p] <= attempts'[p]
  BY <1>1, <1>3, AttemptsGrow DEF TypeOK
<1>5. attempts[p] >= 1 \/ StoppedBefore(d, p[2])
  <2>1. CASE pc[d] = "done"
    BY <1>2, <1>3, <2>1 DEF OnceSends
  <2>2. CASE pc[d] = "claim" /\ ~erred[d] /\ ~worked[d] /\ Due = {}
    <3>1. Drained(d)
      BY <2>2 DEF DrainInv, RunInv
    <3>2. CASE p[2] <= lastEvent
      <4>1. status[p] # "absent"
        BY <1>3, <3>1, <3>2 DEF Drained, WantInv, NothingSkipped
      <4>2. ~ (status[p] = "pending" /\ wait[p] = 0)
        BY <1>3, <2>2 DEF Due
      <4>3. attempts[p] # 0
        BY <1>3, <4>1, <4>2 DEF UnclaimedDue
      <4> QED BY <1>4, <4>3
    <3> QED BY <1>2, <3>1, <3>2 DEF Drained
  <2> QED BY <1>1, <1>2, <2>1, <2>2, DoneSteps
<1> QED BY <1>1, <1>2, <1>4, <1>5, StoppedStays

(* And each of those events that an active subscription wants has been     *)
(* claimed for sending at least once, as long as inserts commit in the     *)
(* order of their ids.                                                     *)
THEOREM RunsSend ==
  ASSUME InOrder \/ OneWriter
  PROVE  Spec => []OnceSends
<1> DEFINE IInv == TypeInv /\ PassInv /\ OrderInv /\ WantInv /\ DrainInv /\ UnclaimedDue /\ OnceSends
<1>1. Init => IInv
  <2>1. Init => UnclaimedDue /\ OnceSends
    BY DispatcherAssumption DEF Init, UnclaimedDue, OnceSends
  <2> QED BY <2>1, TypeInvInit, PassInvInit, OrderInvInit, WantInvInit, DrainInvInit
<1>2. IInv /\ [Next]_vars => IInv'
  BY TypeInvNext, PassInvNext, OrderInvNext, WantInvNext, DrainInvNext, UnclaimedNext, SentNext
<1> QED BY <1>1, <1>2, PTL DEF Spec

-----------------------------------------------------------------------------
(* The lease of prompt dispatchers.                                        *)

(* Where a dispatcher is says what its tasks are at.                       *)
PlaceInv ==
  \A d \in Dispatchers, p \in Pairs :
    /\ pc[d] \notin {"read", "send"} => task[d][p].phase = "none"
    /\ pc[d] = "read" => task[d][p].phase \in {"none", "claimed"}
    /\ pc[d] = "send" => task[d][p].phase # "claimed"

(* A task's delivery is pending, is nobody else's, carries the count of    *)
(* the row, and is not due before the lease that began with the task.      *)
Leased(d, p) ==
  /\ status[p] = "pending"
  /\ wait[p] = Lease - task[d][p].age
  /\ \A c \in Dispatchers \ {d} : task[c][p].phase = "none"
  /\ task[d][p].phase = "claimed" => task[d][p].age = 0
  /\ task[d][p].phase # "claimed" => task[d][p].attempts = attempts[p]
  /\ task[d][p].phase = "accepted" => p \in received

LeaseInv == \A d \in Dispatchers, p \in Pairs : task[d][p].phase # "none" => Leased(d, p)

(* Only a failure can keep an attempt from settling the delivery or        *)
(* leaving one more for the next.                                          *)
BoundInv ==
  \A p \in Pairs :
    /\ attempts[p] <= MaxAttempts + failures
    /\ status[p] \in {"absent", "pending"} /\ (\A d \in Dispatchers : task[d][p].phase = "none")
         => attempts[p] < MaxAttempts + failures

LeaseInvs == PlaceInv /\ LeaseInv /\ BoundInv

LEMMA LeaseInvsInit == Init => LeaseInvs
<1> SUFFICES ASSUME Init PROVE LeaseInvs
  OBVIOUS
<1>1. \A d \in Dispatchers, p \in Pairs : task[d][p].phase = "none"
  BY DEF Init, Idle, NoTask
<1>2. \A p \in Pairs : attempts[p] < MaxAttempts + failures
  BY DispatcherAssumption DEF Init
<1>3. BoundInv
  <2>1. \A p \in Pairs : attempts[p] <= MaxAttempts + failures
    BY DispatcherAssumption DEF Init
  <2> QED BY <1>2, <2>1 DEF BoundInv
<1> QED BY <1>1, <1>3 DEF LeaseInvs, PlaceInv, LeaseInv

(* Steps that are of no task.                                              *)
LEMMA LeaseStays ==
  ASSUME LeaseInvs,
         UNCHANGED <<wait, attempts, task, received>>,
         \A d \in Dispatchers : pc'[d] # pc[d] =>
           /\ pc'[d] \notin {"read", "send"}
           /\ \A p \in Pairs : task[d][p].phase = "none",
         \A p \in Pairs : \/ status'[p] = status[p]
                          \/ status[p] = "absent" /\ status'[p] = "pending",
         failures' \in {failures, failures + 1}, TypeOK
  PROVE  LeaseInvs'
<1>1. PlaceInv'
  BY DEF LeaseInvs, PlaceInv
<1>2. LeaseInv'
  BY DEF LeaseInvs, LeaseInv, Leased
<1>3. BoundInv'
  <2>1. /\ failures \in Nat /\ failures' \in Nat /\ failures <= failures'
        /\ \A p \in Pairs : attempts[p] \in Nat
    BY DEF TypeOK
  <2>2. \A p \in Pairs : status'[p] \in {"absent", "pending"} => status[p] \in {"absent", "pending"}
    OBVIOUS
  <2> QED BY <2>1, <2>2, DispatcherAssumption DEF LeaseInvs, BoundInv
<1> QED BY <1>1, <1>2, <1>3 DEF LeaseInvs

(* A delivery with a task is not due.                                      *)
LEMMA LeasedNotDue ==
  ASSUME TypeInv, LeaseInv, NEW d \in Dispatchers, NEW p \in Pairs, p \in Due
  PROVE  task[d][p].phase = "none"
<1>1. task[d][p].age \in 0 .. Timeout
  BY DEF TypeInv, TypeOK, Tasks
<1> QED BY <1>1, DispatcherAssumption DEF LeaseInv, Leased, Due

LEMMA LeaseInvsOutside ==
  ASSUME TypeInv, PassInv, LeaseInvs, [Next]_vars,
         \/ \E w \in Writers : BeginInsert(w) \/ CommitInsert(w) \/ AbortInsert(w)
         \/ \E s \in Subs : Create(s) \/ Deactivate(s)
         \/ \E d \in Dispatchers : LockCursor(d) \/ ReadSlice(d) \/ QueueDeliveries(d)
                                   \/ CommitPass(d) \/ PassFails(d) \/ FinishPass(d)
         \/ UNCHANGED vars
  PROVE  LeaseInvs'
<1> USE DEF eventVars, rowVars, passVars, tickVars, Goto
<1>1. TypeOK
  BY DEF TypeInv
<1>2. CASE \/ \E w \in Writers : BeginInsert(w) \/ CommitInsert(w) \/ AbortInsert(w)
           \/ \E s \in Subs : Create(s) \/ Deactivate(s)
           \/ UNCHANGED vars
  <2>1. UNCHANGED <<wait, attempts, task, received, pc, status, failures>>
    BY <1>2 DEF BeginInsert, CommitInsert, AbortInsert, Create, Deactivate, vars
  <2> QED BY <1>1, <2>1, LeaseStays
<1>3. ASSUME NEW d \in Dispatchers,
             \/ LockCursor(d) \/ ReadSlice(d) \/ QueueDeliveries(d) \/ CommitPass(d)
             \/ PassFails(d)
      PROVE  LeaseInvs'
  <2>1. UNCHANGED <<wait, attempts, task, received>> /\ failures' \in {failures, failures + 1}
    BY <1>3 DEF LockCursor, ReadSlice, QueueDeliveries, CommitPass, PassFails
  <2>2. pc[d] \in {"idle", "slice", "queue", "commit"}
    BY <1>3 DEF LockCursor, ReadSlice, QueueDeliveries, CommitPass, PassFails
  <2>3. \A c \in Dispatchers : pc'[c] # pc[c] => c = d /\ pc'[c] \notin {"read", "send"}
    BY <1>1, <1>3 DEF LockCursor, ReadSlice, QueueDeliveries, CommitPass, PassFails, TypeOK
  <2>4. \A p \in Pairs : task[d][p].phase = "none"
    BY <2>2 DEF LeaseInvs, PlaceInv
  <2>5. \A p \in Pairs : \/ status'[p] = status[p]
                         \/ status[p] = "absent" /\ status'[p] = "pending"
    <3>1. CASE CommitPass(d)
      BY <3>1 DEF CommitPass, PassInv
    <3>2. CASE LockCursor(d) \/ ReadSlice(d) \/ QueueDeliveries(d) \/ PassFails(d)
      BY <3>2 DEF LockCursor, ReadSlice, QueueDeliveries, PassFails
    <3> QED BY <1>3, <3>1, <3>2
  <2> QED BY <1>1, <2>1, <2>3, <2>4, <2>5, LeaseStays
<1>4. ASSUME NEW d \in Dispatchers, FinishPass(d) PROVE LeaseInvs'
  <2>1. UNCHANGED <<wait, attempts, task, received, status, failures>>
    BY <1>4 DEF FinishPass
  <2>2. \A c \in Dispatchers : pc'[c] # pc[c] => c = d /\ pc'[c] \notin {"read", "send"}
    BY <1>1, <1>4, AfterTickType DEF FinishPass, TypeOK
  <2>3. \A p \in Pairs : task[d][p].phase = "none"
    BY <1>4 DEF FinishPass, Idle, NoTask
  <2> QED BY <1>1, <2>1, <2>2, <2>3, LeaseStays
<1> QED BY <1>2, <1>3, <1>4

(* Tasks are lost to a failure.                                            *)
LEMMA LeaseLost ==
  ASSUME TypeInv, TypeOK', LeaseInvs,
         UNCHANGED <<wait, attempts, status, received>>,
         \A d \in Dispatchers, p \in Pairs :
           task'[d][p] = task[d][p] \/ task'[d][p].phase = "none",
         failures' = failures + 1
  PROVE  LeaseInv' /\ BoundInv'
<1>1. LeaseInv'
  BY DEF LeaseInvs, LeaseInv, Leased
<1>2. /\ failures \in Nat
      /\ \A p \in Pairs : attempts[p] \in Nat
  BY DEF TypeInv, TypeOK
<1>3. BoundInv'
  BY <1>2, DispatcherAssumption DEF LeaseInvs, BoundInv
<1> QED BY <1>1, <1>3

LEMMA LeaseInvsLost ==
  ASSUME TypeInv, LeaseInvs, [Next]_vars, NEW d \in Dispatchers,
         ClaimFails(d) \/ Crash(d) \/ RunAgain(d)
  PROVE  LeaseInvs'
<1> USE DEF eventVars, rowVars, passVars, tickVars, Goto
<1>1. TypeOK /\ TypeOK'
  BY TypeInvNext DEF TypeInv
<1>2. task' = [task EXCEPT ![d] = Idle]
  BY DEF ClaimFails, Crash, RunAgain, BeginRun
<1>3. \A c \in Dispatchers, q \in Pairs :
        task'[c][q] = IF c = d THEN NoTask ELSE task[c][q]
  BY <1>1, <1>2, IdleEffect
<1>4. \A c \in Dispatchers : pc'[c] # pc[c] => c = d
  BY <1>1 DEF ClaimFails, Crash, RunAgain, BeginRun, TypeOK
<1>5. UNCHANGED <<wait, attempts, status, received>>
  BY DEF ClaimFails, Crash, RunAgain, BeginRun
<1>6. pc'[d] \in {"idle", "failed"}
  BY <1>1 DEF ClaimFails, Crash, RunAgain, BeginRun, TypeOK
<1>7. PlaceInv'
  BY <1>3, <1>4, <1>6 DEF LeaseInvs, PlaceInv, NoTask
<1>8. CASE ClaimFails(d) \/ Crash(d)
  <2>1. failures' = failures + 1
    BY <1>8 DEF ClaimFails, Crash
  <2>2. \A c \in Dispatchers, p \in Pairs :
           task'[c][p] = task[c][p] \/ task'[c][p].phase = "none"
    BY <1>3 DEF NoTask
  <2> QED BY <1>1, <1>5, <1>7, <2>1, <2>2, LeaseLost DEF LeaseInvs
<1>9. CASE RunAgain(d)
  <2>1. \A p \in Pairs : task[d][p].phase = "none"
    BY <1>9 DEF RunAgain, LeaseInvs, PlaceInv
  <2>2. \A c \in Dispatchers, p \in Pairs :
          /\ task'[c][p].phase = task[c][p].phase
          /\ task[c][p].phase # "none" => task'[c][p] = task[c][p]
    BY <1>3, <2>1 DEF NoTask
  <2>3. LeaseInv'
    BY <1>5, <2>2 DEF LeaseInvs, LeaseInv, Leased
  <2>4. BoundInv'
    BY <1>5, <1>9, <2>2 DEF RunAgain, LeaseInvs, BoundInv
  <2> QED BY <1>7, <2>3, <2>4 DEF LeaseInvs
<1> QED BY <1>8, <1>9

(* What is claimed had no task, and has one of the claimer alone.          *)
LEMMA LeaseInvsClaim ==
  ASSUME TypeInv, LeaseInvs, [Next]_vars, NEW d \in Dispatchers, ClaimDue(d)
  PROVE  LeaseInvs'
<1>1. TypeOK /\ TypeOK'
  BY TypeInvNext DEF TypeInv
<1>2. UNCHANGED <<status, received, failures>> /\ pc[d] = "claim"
  BY DEF ClaimDue
<1>3. \A p \in Pairs : task[d][p].phase = "none"
  BY <1>2 DEF LeaseInvs, PlaceInv
<1>4. CASE ClaimsNone(d)
  <2>1. \A c \in Dispatchers : pc'[c] # pc[c] => c = d /\ pc'[c] \notin {"read", "send"}
    BY <1>1, <1>4, AfterTickType DEF ClaimsNone, TypeOK
  <2> QED BY <1>1, <1>2, <1>3, <1>4, <2>1, LeaseStays DEF ClaimsNone
<1>5. ASSUME NEW ps \in SUBSET Due, Claims(d, ps)
      PROVE  LeaseInvs'
  <2>1. \A p \in ps : /\ p \in Pairs /\ status[p] = "pending"
                      /\ \A c \in Dispatchers : task[c][p].phase = "none"
    BY LeasedNotDue DEF Due, LeaseInvs
  <2>2. \A q \in Pairs : task'[d][q] = IF q \in ps THEN FreshTask ELSE NoTask
    BY <1>5 DEF Claims
  <2>3. \A c \in Dispatchers \ {d}, q \in Pairs : task'[c][q] = task[c][q]
    BY <1>5 DEF Claims
  <2>4. pc'[d] = "read" /\ \A c \in Dispatchers \ {d} : pc'[c] = pc[c]
    BY <1>1, <1>5 DEF Claims, TypeOK
  <2>5. \A p \in Pairs : /\ attempts'[p] = IF p \in ps THEN attempts[p] + 1 ELSE attempts[p]
                         /\ wait'[p] = IF p \in ps THEN Lease ELSE wait[p]
    BY <1>1, <1>5, HeldType DEF Claims
  <2>6. PlaceInv'
    BY <2>2, <2>3, <2>4 DEF LeaseInvs, PlaceInv, FreshTask, NoTask
  <2>7. LeaseInv'
    <3> SUFFICES ASSUME NEW c \in Dispatchers, NEW p \in Pairs, task'[c][p].phase # "none"
                 PROVE  Leased(c, p)'
      BY DEF LeaseInv
    <3>1. CASE c = d
      <4>1. p \in ps /\ task'[d][p] = FreshTask
        BY <3>1, <2>2 DEF NoTask
      <4>2. wait'[p] = Lease /\ Lease - 0 = Lease
        BY <4>1, <2>5, DispatcherAssumption
      <4> QED BY <1>2, <2>1, <2>3, <3>1, <4>1, <4>2 DEF Leased, FreshTask
    <3>2. CASE c # d
      <4>1. task'[c][p] = task[c][p] /\ p \notin ps
        BY <2>1, <2>3, <3>2
      <4>2. Leased(c, p)
        BY <4>1 DEF LeaseInvs, LeaseInv
      <4>3. \A e \in Dispatchers : task'[e][p].phase = task[e][p].phase
        BY <1>3, <2>2, <2>3, <4>1 DEF NoTask
      <4> QED BY <1>2, <2>5, <4>1, <4>2, <4>3 DEF Leased
    <3> QED BY <3>1, <3>2
  <2>8. BoundInv'
    <3> SUFFICES ASSUME NEW p \in Pairs
                 PROVE  /\ attempts'[p] <= MaxAttempts + failures'
                        /\ status'[p] \in {"absent", "pending"}
                             /\ (\A c \in Dispatchers : task'[c][p].phase = "none")
                             => attempts'[p] < MaxAttempts + failures'
      BY DEF BoundInv
    <3>1. attempts[p] \in Nat /\ failures \in Nat
      BY <1>1 DEF TypeOK
    <3>2. CASE p \in ps
      <4>1. attempts[p] < MaxAttempts + failures
        BY <2>1, <3>2 DEF LeaseInvs, BoundInv
      <4>2. task'[d][p].phase # "none"
        BY <2>2, <3>2 DEF FreshTask
      <4> QED BY <1>2, <2>5, <3>1, <3>2, <4>1, <4>2, DispatcherAssumption
    <3>3. CASE p \notin ps
      <4>1. \A c \in Dispatchers : task'[c][p].phase = task[c][p].phase
        BY <1>3, <2>2, <2>3, <3>3 DEF NoTask
      <4> QED BY <1>2, <2>5, <3>3, <4>1 DEF LeaseInvs, BoundInv
    <3> QED BY <3>2, <3>3
  <2> QED BY <2>6, <2>7, <2>8 DEF LeaseInvs
<1> QED BY <1>1, <1>4, <1>5, ClaimEffect, Zenon

LEMMA LeaseInvsRead ==
  ASSUME TypeInv, LeaseInvs, NEW d \in Dispatchers, ReadDue(d)
  PROVE  LeaseInvs'
<1>1. TypeOK
  BY DEF TypeInv
<1>2. UNCHANGED <<status, attempts, wait, received, failures>> /\ pc[d] = "read"
  BY DEF ReadDue, rowVars
<1>3. pc'[d] = "send" /\ \A c \in Dispatchers \ {d} : pc'[c] = pc[c]
  BY <1>1 DEF ReadDue, Goto, TypeOK
<1>4. \A c \in Dispatchers, q \in Pairs : c # d => task'[c][q] = task[c][q]
  BY <1>1, ReadEffect
<1>5. \A q \in Pairs : task'[d][q] = IF task[d][q].phase = "claimed"
                              THEN [phase |-> "sending", attempts |-> attempts[q], age |-> 0]
                              ELSE NoTask
  BY <1>1, ReadEffect
<1>6. \A q \in Pairs : task[d][q].phase \in {"none", "claimed"}
  BY <1>2 DEF LeaseInvs, PlaceInv
<1>7. \A q \in Pairs :
         /\ task[d][q].phase = "claimed" => /\ task'[d][q].phase = "sending"
                                            /\ task'[d][q].attempts = attempts[q]
                                            /\ task'[d][q].age = 0
         /\ task[d][q].phase # "claimed" => task'[d][q].phase = "none"
  <2> TAKE q \in Pairs
  <2>1. CASE task[d][q].phase = "claimed"
    <3>1. task'[d][q] = [phase |-> "sending", attempts |-> attempts[q], age |-> 0]
      BY <1>5, <2>1, Zenon
    <3> QED BY <2>1, <3>1
  <2>2. CASE task[d][q].phase # "claimed"
    <3>1. task'[d][q] = NoTask
      BY <1>5, <2>2, Zenon
    <3> QED BY <2>2, <3>1 DEF NoTask
  <2> QED BY <2>1, <2>2
<1>8. \A c \in Dispatchers, q \in Pairs : task'[c][q].phase = "none" <=> task[c][q].phase = "none"
  <2> SUFFICES ASSUME NEW c \in Dispatchers, NEW q \in Pairs
               PROVE  task'[c][q].phase = "none" <=> task[c][q].phase = "none"
    OBVIOUS
  <2>1. CASE c = d
    BY <1>6, <1>7, <2>1
  <2>2. CASE c # d
    BY <1>4, <2>2
  <2> QED BY <2>1, <2>2
<1>9. PlaceInv'
  BY <1>3, <1>4, <1>7 DEF LeaseInvs, PlaceInv
<1>10. LeaseInv'
  <2> SUFFICES ASSUME NEW c \in Dispatchers, NEW p \in Pairs, task'[c][p].phase # "none"
               PROVE  Leased(c, p)'
    BY DEF LeaseInv
  <2>1. Leased(c, p)
    BY <1>8 DEF LeaseInvs, LeaseInv
  <2>2. CASE c = d
    <3>1. task[d][p].phase = "claimed"
      BY <1>7, <2>2
    <3> QED BY <1>2, <1>7, <1>8, <2>1, <2>2, <3>1 DEF Leased
  <2>3. CASE c # d
    BY <1>2, <1>4, <1>8, <2>1, <2>3 DEF Leased
  <2> QED BY <2>2, <2>3
<1>11. BoundInv'
  BY <1>2, <1>8 DEF LeaseInvs, BoundInv
<1> QED BY <1>9, <1>10, <1>11 DEF LeaseInvs

LEMMA LeaseInvsPost ==
  ASSUME TypeInv, LeaseInvs, NEW d \in Dispatchers, NEW p \in Pairs, Post(d, p)
  PROVE  LeaseInvs'
<1>1. UNCHANGED <<status, attempts, wait, failures, pc>>
  BY DEF Post, rowVars
<1>2. /\ \A c \in Dispatchers, q \in Pairs :
           c # d \/ q # p => task'[c][q] = task[c][q]
      /\ task'[d][p].phase \in {"accepted", "refused"}
      /\ task'[d][p].phase = "accepted" => p \in received'
      /\ task'[d][p].attempts = task[d][p].attempts
      /\ task'[d][p].age = task[d][p].age
      /\ task[d][p].phase = "sending"
      /\ \A q \in received : q \in received'
  BY PostEffect DEF TypeInv
<1>3. pc[d] = "send"
  BY <1>2 DEF LeaseInvs, PlaceInv
<1>4. \A c \in Dispatchers, q \in Pairs : task'[c][q].phase = "none" <=> task[c][q].phase = "none"
  <2> SUFFICES ASSUME NEW c \in Dispatchers, NEW q \in Pairs
               PROVE  task'[c][q].phase = "none" <=> task[c][q].phase = "none"
    OBVIOUS
  <2>1. CASE c = d /\ q = p
    BY <1>2, <2>1
  <2>2. CASE c # d \/ q # p
    BY <1>2, <2>2
  <2> QED BY <2>1, <2>2
<1>5. PlaceInv'
  BY <1>1, <1>2, <1>3 DEF LeaseInvs, PlaceInv
<1>6. LeaseInv'
  <2> SUFFICES ASSUME NEW c \in Dispatchers, NEW q \in Pairs, task'[c][q].phase # "none"
               PROVE  Leased(c, q)'
    BY DEF LeaseInv
  <2>1. Leased(c, q)
    BY <1>4 DEF LeaseInvs, LeaseInv
  <2>2. CASE c = d /\ q = p
    BY <1>1, <1>2, <1>4, <2>1, <2>2 DEF Leased
  <2>3. CASE c # d \/ q # p
    BY <1>1, <1>2, <1>4, <2>1, <2>3 DEF Leased
  <2> QED BY <2>2, <2>3
<1>7. BoundInv'
  BY <1>1, <1>4 DEF LeaseInvs, BoundInv
<1> QED BY <1>5, <1>6, <1>7 DEF LeaseInvs

(* A task ends; what it writes is of its own delivery.                     *)
LEMMA LeaseEnds ==
  ASSUME TypeInv, LeaseInvs, NEW d \in Dispatchers, NEW p \in Pairs, TaskEnds(d, p),
         task[d][p].phase # "none", TypeOK',
         UNCHANGED <<attempts, received, pc>>,
         \A q \in Pairs \ {p} : status'[q] = status[q] /\ wait'[q] = wait[q],
         failures' \in {failures, failures + 1},
         status'[p] # "pending" \/ failures' = failures + 1 \/ attempts[p] < MaxAttempts,
         status'[p] # "absent"
  PROVE  LeaseInvs'
<1>1. \A c \in Dispatchers, q \in Pairs :
        task'[c][q] = IF c = d /\ q = p THEN NoTask ELSE task[c][q]
  BY TaskEndsEffect DEF TypeInv
<1>2. \A c \in Dispatchers : task'[c][p].phase = "none"
  <2>1. Leased(d, p)
    BY DEF LeaseInvs, LeaseInv
  <2>2. \A c \in Dispatchers \ {d} : task[c][p].phase = "none"
    BY <2>1 DEF Leased
  <2> QED BY <1>1, <2>2 DEF NoTask
<1>3. \A c \in Dispatchers, q \in Pairs : q # p => task'[c][q] = task[c][q]
  BY <1>1
<1>4. PlaceInv'
  BY <1>2, <1>3 DEF LeaseInvs, PlaceInv
<1>5. LeaseInv'
  <2> SUFFICES ASSUME NEW c \in Dispatchers, NEW q \in Pairs, task'[c][q].phase # "none"
               PROVE  Leased(c, q)'
    BY DEF LeaseInv
  <2>1. q # p /\ task'[c][q] = task[c][q]
    BY <1>2, <1>3
  <2>2. Leased(c, q)
    BY <2>1 DEF LeaseInvs, LeaseInv
  <2> QED BY <1>3, <2>1, <2>2 DEF Leased
<1>6. BoundInv'
  <2> SUFFICES ASSUME NEW q \in Pairs
               PROVE  /\ attempts'[q] <= MaxAttempts + failures'
                      /\ status'[q] \in {"absent", "pending"}
                           /\ (\A c \in Dispatchers : task'[c][q].phase = "none")
                           => attempts'[q] < MaxAttempts + failures'
    BY DEF BoundInv
  <2>1. attempts[q] \in Nat /\ failures \in Nat /\ attempts[q] <= MaxAttempts + failures
    BY DEF TypeInv, TypeOK, LeaseInvs, BoundInv
  <2>2. CASE q = p
    BY <2>1, <2>2, DispatcherAssumption
  <2>3. CASE q # p
    <3>1. \A c \in Dispatchers : task'[c][q] = task[c][q]
      BY <1>3, <2>3
    <3>2. status'[q] \in {"absent", "pending"}
             /\ (\A c \in Dispatchers : task'[c][q].phase = "none")
             => attempts[q] < MaxAttempts + failures
      BY <2>3, <3>1 DEF LeaseInvs, BoundInv
    <3> QED BY <2>1, <3>2, DispatcherAssumption
  <2> QED BY <2>2, <2>3
<1> QED BY <1>4, <1>5, <1>6 DEF LeaseInvs

LEMMA LeaseInvsRecord ==
  ASSUME TypeInv, LeaseInvs, [Next]_vars, NEW d \in Dispatchers, NEW p \in Pairs,
         RecordSuccess(d, p) \/ RecordFailure(d, p) \/ RecordFails(d, p)
  PROVE  LeaseInvs'
<1>1. TypeOK /\ TypeOK'
  BY TypeInvNext DEF TypeInv
<1>2. /\ TaskEnds(d, p)
      /\ task[d][p].phase \in {"accepted", "refused"}
      /\ UNCHANGED <<attempts, received, pc>>
  BY DEF RecordSuccess, RecordFailure, RecordFails, IsSuccess, rowVars
<1>3. Leased(d, p) /\ status[p] = "pending"
  BY <1>2 DEF LeaseInvs, LeaseInv, Leased
<1>4. CASE RecordSuccess(d, p)
  <2>1. /\ \A q \in Pairs \ {p} : status'[q] = status[q] /\ wait'[q] = wait[q]
        /\ status'[p] = "delivered" /\ failures' = failures
    BY <1>1, <1>4 DEF RecordSuccess, TypeOK
  <2> QED BY <1>1, <1>2, <2>1, LeaseEnds
<1>5. CASE RecordFailure(d, p)
  <2>1. /\ \A q \in Pairs \ {p} : status'[q] = status[q] /\ wait'[q] = wait[q]
        /\ failures' = failures
    BY <1>1, <1>5 DEF RecordFailure, TypeOK
  <2>2. task[d][p].attempts = attempts[p]
    BY <1>2, <1>3 DEF Leased
  <2>3. status'[p] = IF GivesUp(attempts[p]) THEN "dead" ELSE "pending"
    BY <1>1, <1>3, <1>5, <2>2 DEF RecordFailure, TypeOK
  <2>4. ~GivesUp(attempts[p]) => attempts[p] < MaxAttempts
    BY <1>1, DispatcherAssumption DEF GivesUp, TypeOK
  <2> QED BY <1>1, <1>2, <2>1, <2>3, <2>4, LeaseEnds
<1>6. CASE RecordFails(d, p)
  <2>1. UNCHANGED <<status, wait>> /\ failures' = failures + 1
    BY <1>6 DEF RecordFails, rowVars
  <2> QED BY <1>1, <1>2, <1>3, <2>1, LeaseEnds
<1> QED BY <1>4, <1>5, <1>6

(* Time passes only while every task is waiting for its answer.            *)
LEMMA LeaseInvsTick ==
  ASSUME Prompt, TypeInv, LeaseInvs, Tick
  PROVE  LeaseInvs'
<1>1. TypeOK
  BY DEF TypeInv
<1>2. \A c \in Dispatchers, q \in Pairs :
        /\ task'[c][q].phase = task[c][q].phase
        /\ task'[c][q].attempts = task[c][q].attempts
        /\ task'[c][q].age = IF task[c][q].phase = "sending" /\ task[c][q].age < Timeout
                               THEN task[c][q].age + 1 ELSE task[c][q].age
  BY <1>1, TickEffect
<1>3. UNCHANGED <<status, attempts, received, pc, failures>>
  BY DEF Tick
<1>4. \A p \in Pairs : wait'[p] = IF wait[p] > 0 THEN wait[p] - 1 ELSE 0
  BY DEF Tick
<1>5. PlaceInv' /\ BoundInv'
  BY <1>2, <1>3 DEF LeaseInvs, PlaceInv, BoundInv
<1>6. LeaseInv'
  <2> SUFFICES ASSUME NEW c \in Dispatchers, NEW p \in Pairs, task'[c][p].phase # "none"
               PROVE  Leased(c, p)'
    BY DEF LeaseInv
  <2>1. task[c][p].phase # "none" /\ Leased(c, p)
    BY <1>2 DEF LeaseInvs, LeaseInv
  <2>2. task[c][p] \in Tasks
    BY <1>1 DEF TypeOK
  <2>3. ~Settling(c, p)
    BY DEF Tick
  <2>4. task[c][p].phase = "sending" /\ task[c][p].age < Timeout /\ task[c][p].age \in Nat
    BY <2>1, <2>2, <2>3, DispatcherAssumption DEF Settling, Tasks
  <2>5. wait[p] = Lease - task[c][p].age /\ task'[c][p].age = task[c][p].age + 1
    BY <1>2, <2>1, <2>4 DEF Leased
  <2>6. wait'[p] = Lease - task'[c][p].age
    BY <1>4, <2>4, <2>5, DispatcherAssumption
  <2> QED BY <1>2, <1>3, <2>1, <2>4, <2>6 DEF Leased
<1> QED BY <1>5, <1>6 DEF LeaseInvs

LEMMA LeaseInvsNext ==
  ASSUME Prompt, TypeInv, PassInv, LeaseInvs, [Next]_vars
  PROVE  LeaseInvs'
BY LeaseInvsOutside, LeaseInvsClaim, LeaseInvsRead, LeaseInvsLost, LeaseInvsPost,
   LeaseInvsRecord, LeaseInvsTick
   DEF Next, Step, Send

LEMMA LeaseInvsAlways ==
  ASSUME Prompt
  PROVE  Spec => [](TypeInv /\ LeaseInvs)
<1> DEFINE IInv == TypeInv /\ PassInv /\ LeaseInvs
<1>1. Init => IInv
  BY TypeInvInit, PassInvInit, LeaseInvsInit
<1>2. IInv /\ [Next]_vars => IInv'
  BY TypeInvNext, PassInvNext, LeaseInvsNext
<1>3. IInv => TypeInv /\ LeaseInvs
  OBVIOUS
<1> QED BY <1>1, <1>2, <1>3, PTL DEF Spec

(* With prompt dispatchers no two tasks ever send the same delivery, and a *)
(* delivery being sent is still pending: the lease of the claim outlasts   *)
(* the request and what follows it.                                        *)
THEOREM OneTask ==
  ASSUME Prompt
  PROVE  Spec => []OneTaskPerDelivery
<1>1. LeaseInvs => OneTaskPerDelivery
  BY DEF LeaseInvs, LeaseInv, Leased, OneTaskPerDelivery
<1> QED BY <1>1, LeaseInvsAlways, PTL

(* With prompt dispatchers a delivery is attempted MaxAttempts times, and  *)
(* once more for each failure that lost an outcome.                        *)
THEOREM Bounded ==
  ASSUME Prompt
  PROVE  Spec => []AttemptsBounded
<1>1. LeaseInvs => AttemptsBounded
  BY DEF LeaseInvs, BoundInv, AttemptsBounded
<1> QED BY <1>1, LeaseInvsAlways, PTL

-----------------------------------------------------------------------------
(* The deliveries table of prompt dispatchers is an outbox.                *)

Boxes == [p \in Pairs |-> Parcel(p)]

LEMMA ParcelType ==
  ASSUME TypeOK, NEW p \in Pairs
  PROVE  /\ Parcel(p) = "absent" <=> status[p] = "absent"
         /\ Parcel(p) = "waiting" <=> status[p] = "pending"
BY DEF TypeOK, Parcel

(* Steps that touch neither the status of a delivery nor a receiver.       *)
LEMMA OutboxStutters ==
  ASSUME UNCHANGED <<status, received>>
  PROVE  UNCHANGED Out!vars
BY DEF Out!vars, Parcel

LEMMA OutboxPutIn ==
  ASSUME TypeOK, PassInv, NEW d \in Dispatchers, CommitPass(d)
  PROVE  Out!Next
<1>1. found[d] \in SUBSET Pairs /\ \A p \in found[d] : status[p] = "absent"
  BY DEF TypeOK, PassInv
<1>2. \A p \in Pairs : status'[p] = IF p \in found[d] THEN "pending" ELSE status[p]
  BY DEF CommitPass
<1>3. Boxes' = [p \in Pairs |-> IF p \in found[d] THEN "waiting" ELSE Boxes[p]]
  <2>1. \A p \in found[d] : Parcel(p)' = "waiting"
    BY <1>1, <1>2 DEF Parcel
  <2>2. \A p \in Pairs \ found[d] : Parcel(p)' = Parcel(p)
    BY <1>2 DEF Parcel
  <2> QED BY <2>1, <2>2 DEF Boxes
<1>4. received' = received
  BY DEF CommitPass
<1>5. \A p \in found[d] : Boxes[p] = "absent"
  BY <1>1, ParcelType DEF Boxes
<1>6. Out!PutIn(found[d])
  BY <1>3, <1>4, <1>5 DEF Out!PutIn, Boxes
<1> QED BY <1>1, <1>6 DEF Out!Next

(* One delivery leaves the box.                                            *)
LEMMA BoxSet ==
  ASSUME TypeOK, NEW p \in Pairs, NEW to \in {"delivered", "dead"},
         status' = [status EXCEPT ![p] = to]
  PROVE  Boxes' = [Boxes EXCEPT ![p] = IF to = "dead" THEN "abandoned" ELSE "accepted"]
<1>1. \A q \in Pairs : status'[q] = IF q = p THEN to ELSE status[q]
  BY DEF TypeOK
<1>2. \A q \in Pairs \ {p} : Parcel(q)' = Parcel(q)
  BY <1>1 DEF Parcel
<1>3. Parcel(p)' = IF to = "dead" THEN "abandoned" ELSE "accepted"
  BY <1>1 DEF Parcel
<1> QED BY <1>2, <1>3 DEF Boxes

LEMMA OutboxSend ==
  ASSUME TypeOK, LeaseInvs, NEW d \in Dispatchers, NEW p \in Pairs, Send(d, p)
  PROVE  Out!Next \/ UNCHANGED Out!vars
<1>1. task[d][p].phase # "none"
  BY DEF Send, Post, RecordSuccess, RecordFailure, IsSuccess
<1>2. Leased(d, p) /\ Boxes[p] = "waiting"
  BY <1>1, ParcelType DEF LeaseInvs, LeaseInv, Leased, Boxes
<1>3. CASE Post(d, p)
  <2>1. status' = status /\ Boxes' = Boxes
    BY <1>3 DEF Post, rowVars, Boxes, Parcel
  <2>2. CASE received' = received
    BY <2>1, <2>2, OutboxStutters
  <2>3. CASE received' = received \cup {p}
    <3>1. Out!Reach(p)
      BY <1>2, <2>1, <2>3 DEF Out!Reach, Boxes
    <3> QED BY <3>1 DEF Out!Next
  <2> QED BY <1>3, <2>2, <2>3 DEF Post
<1>4. CASE RecordSuccess(d, p)
  <2>1. p \in received /\ received' = received
    BY <1>2, <1>4 DEF RecordSuccess, IsSuccess, Leased
  <2>2. Boxes' = [Boxes EXCEPT ![p] = "accepted"]
    BY <1>4, BoxSet DEF RecordSuccess
  <2>3. Out!Accept(p)
    BY <1>2, <2>1, <2>2 DEF Out!Accept, Boxes
  <2> QED BY <2>3 DEF Out!Next
<1>5. CASE RecordFailure(d, p)
  <2>1. received' = received
    BY <1>5 DEF RecordFailure
  <2>2. CASE status' = status
    BY <2>1, <2>2, OutboxStutters
  <2>3. CASE status' = [status EXCEPT ![p] = "dead"]
    <3>1. Boxes' = [Boxes EXCEPT ![p] = "abandoned"]
      BY <2>3, BoxSet
    <3>2. Out!Abandon(p)
      BY <1>2, <2>1, <3>1 DEF Out!Abandon, Boxes
    <3> QED BY <3>2 DEF Out!Next
  <2> QED BY <1>5, <2>2, <2>3 DEF RecordFailure
<1> QED BY <1>3, <1>4, <1>5 DEF Send

LEMMA OutboxNext ==
  ASSUME TypeOK, PassInv, LeaseInvs, [Next]_vars
  PROVE  [Out!Next]_(Out!vars)
<1>1. \/ UNCHANGED <<status, received>>
      \/ \E d \in Dispatchers : CommitPass(d)
      \/ \E d \in Dispatchers, p \in Pairs : Send(d, p)
  BY DEF Next, Step, BeginInsert, CommitInsert, AbortInsert, Create, Deactivate,
         LockCursor, ReadSlice, QueueDeliveries, PassFails, ClaimDue, ReadDue, ClaimFails,
         FinishPass, Crash, RunAgain, BeginRun, RecordFails, Tick, vars, rowVars
<1> QED BY <1>1, OutboxStutters, OutboxPutIn, OutboxSend

(* With prompt dispatchers the deliveries table is an outbox, whatever the *)
(* number of dispatchers, their crashes and their failed statements: a row *)
(* is put in once, settled once, marked delivered only after a receiver    *)
(* had it, and never attempted again once settled.                         *)
THEOREM TableIsOutbox ==
  ASSUME Prompt
  PROVE  Spec => ImplementsOutbox
<1> DEFINE IInv == TypeInv /\ PassInv /\ LeaseInvs
<1>1. Init => IInv
  BY TypeInvInit, PassInvInit, LeaseInvsInit
<1>2. IInv /\ [Next]_vars => IInv'
  BY TypeInvNext, PassInvNext, LeaseInvsNext
<1>3. Init => Out!Init
  BY DEF Init, Out!Init, Parcel
<1>4. IInv /\ [Next]_vars => [Out!Next]_(Out!vars)
  BY OutboxNext DEF TypeInv
<1> QED BY <1>1, <1>2, <1>3, <1>4, PTL DEF Spec, ImplementsOutbox, Out!Spec

-----------------------------------------------------------------------------
(* What an outbox promises, and therefore the table.                       *)

LEMMA OutboxKeepsPromise == Out!Spec => []Out!AcceptedReached /\ Out!LeavesForGood
<1>1. Out!Init => Out!AcceptedReached
  BY DEF Out!Init, Out!AcceptedReached
<1>2. Out!AcceptedReached /\ [Out!Next]_(Out!vars) => Out!AcceptedReached'
  BY DEF Out!AcceptedReached, Out!Next, Out!PutIn, Out!Reach, Out!Accept, Out!Abandon, Out!vars
<1>3. [Out!Next]_(Out!vars) => [Out!StaysGone]_(Out!vars)
  BY DEF Out!StaysGone, Out!Gone, Out!Next, Out!PutIn, Out!Reach, Out!Accept, Out!Abandon
<1> QED BY <1>1, <1>2, <1>3, PTL DEF Out!Spec, Out!LeavesForGood

(* With prompt dispatchers a delivery counted delivered did reach its      *)
(* receiver, and one that is delivered or dead is never posted again nor   *)
(* given another outcome, whatever crashes and lost outcomes there are.    *)
THEOREM SettledForGood ==
  ASSUME Prompt
  PROVE  Spec => []Out!AcceptedReached /\ Out!LeavesForGood
BY TableIsOutbox, OutboxKeepsPromise, PTL DEF ImplementsOutbox
=============================================================================
