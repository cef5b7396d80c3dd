------------------------------- MODULE Outbox -------------------------------
(***************************************************************************)
(* What the delivery queue promises, without cursors, claims or leases: an *)
(* outbox of parcels.  A parcel is put in once, it may reach its receiver  *)
(* any number of times while it waits, and it leaves for good: accepted,   *)
(* and then it did reach the receiver, or abandoned.  Dispatcher.tla is    *)
(* shown to implement it.                                                  *)
(***************************************************************************)
CONSTANT Parcels

VARIABLES box,      \* where each parcel is
          reached   \* the parcels that reached their receiver at least once

vars == <<box, reached>>

TypeOK == /\ box \in [Parcels -> {"absent", "waiting", "accepted", "abandoned"}]
          /\ reached \in SUBSET Parcels

Init == /\ box = [p \in Parcels |-> "absent"]
        /\ reached = {}

PutIn(ps) == /\ \A p \in ps : box[p] = "absent"
             /\ box' = [p \in Parcels |-> IF p \in ps THEN "waiting" ELSE box[p]]
             /\ UNCHANGED reached

Reach(p) == /\ box[p] = "waiting"
            /\ reached' = reached \cup {p}
            /\ UNCHANGED box

Accept(p) == /\ box[p] = "waiting"
             /\ p \in reached
             /\ box' = [box EXCEPT ![p] = "accepted"]
             /\ UNCHANGED reached

Abandon(p) == /\ box[p] = "waiting"
              /\ box' = [box EXCEPT ![p] = "abandoned"]
              /\ UNCHANGED reached

Next == \/ \E ps \in SUBSET Parcels : PutIn(ps)
        \/ \E p \in Parcels : Reach(p) \/ Accept(p) \/ Abandon(p)

Spec == Init /\ [][Next]_vars

(* What the outbox is for: a parcel counted accepted reached its receiver. *)
AcceptedReached == \A p \in Parcels : box[p] = "accepted" => p \in reached

(* And it leaves once: neither is an accepted parcel tried or abandoned    *)
(* later, nor an abandoned one put in again.                               *)
Gone(p) == box[p] \in {"accepted", "abandoned"}

StaysGone ==
  \A p \in Parcels : Gone(p) => box'[p] = box[p] /\ (p \in reached' <=> p \in reached)

LeavesForGood == [][StaysGone]_vars
=============================================================================
