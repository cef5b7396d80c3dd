----------------------------- MODULE EventFeed -----------------------------
(***************************************************************************)
(* What an ingestion stream promises, without pages, ledgers or cursors:   *)
(* an at-least-once feed.  Readers hand over the events of the stream in   *)
(* order; an acknowledgement never covers an event its reader has not      *)
(* gone past; a reader goes past an event without handing it over only     *)
(* when the event is expendable; a reader that stops resumes from what was *)
(* acknowledged.  Ingestor.tla is shown to implement it.                   *)
(***************************************************************************)
EXTENDS Naturals

CONSTANTS NumEvents,   \* the stream's events are 1..NumEvents, in chain order
          Readers      \* processes that follow the stream

VARIABLES acked,       \* the events the durable acknowledgement covers
          open,        \* the readers that are running
          read,        \* per reader, the events it went past
          delivered,   \* the events handed over, completely, at least once
          expendable   \* the events that may be missed

vars == <<acked, open, read, delivered, expendable>>

Events == 1 .. NumEvents

TypeOK == /\ acked \in SUBSET Events
          /\ open \in SUBSET Readers
          /\ read \in [Readers -> SUBSET Events]
          /\ delivered \in SUBSET Events
          /\ expendable \in SUBSET Events

Init == /\ acked = {}
        /\ open = {}
        /\ read = [r \in Readers |-> {}]
        /\ delivered = {}
        /\ expendable \in SUBSET Events

Open(r) == /\ r \notin open
           /\ open' = open \cup {r}
           /\ read' = [read EXCEPT ![r] = acked]
           /\ UNCHANGED <<acked, delivered, expendable>>

Deliver(r, e) == /\ r \in open
                 /\ \A f \in Events : f \in read[r] <=> f < e
                 /\ read' = [read EXCEPT ![r] = @ \cup {e}]
                 /\ delivered' = delivered \cup {e}
                 /\ UNCHANGED <<acked, open, expendable>>

Skip(r) == /\ r \in open
           /\ \E missed \in SUBSET expendable :
                read' = [read EXCEPT ![r] = @ \cup missed]
           /\ UNCHANGED <<acked, open, delivered, expendable>>

Ack(r) == /\ r \in open
          /\ acked' \in SUBSET read[r]
          /\ UNCHANGED <<open, read, delivered, expendable>>

Close(r) == /\ r \in open
            /\ open' = open \ {r}
            /\ read' = [read EXCEPT ![r] = {}]
            /\ UNCHANGED <<acked, delivered, expendable>>

Expire == /\ expendable' \in SUBSET Events
          /\ expendable \subseteq expendable'
          /\ UNCHANGED <<acked, open, read, delivered>>

Next == \/ Expire
        \/ \E r \in Readers : \/ Open(r)
                              \/ Skip(r)
                              \/ Ack(r)
                              \/ Close(r)
                              \/ \E e \in Events : Deliver(r, e)

Spec == Init /\ [][Next]_vars

(* What the feed is for: an acknowledged event was handed over or is       *)
(* expendable.                                                             *)
AckedIsDelivered == acked \subseteq delivered \cup expendable
=============================================================================
