--------------------------- MODULE BillingProofs ---------------------------
(***************************************************************************)
(* Proofs about Billing.tla, for every value of its constants that meets   *)
(* the assumptions.                                                        *)
(***************************************************************************)
EXTENDS Billing, AmountProofs, SequenceTheorems, FiniteSetTheorems, TLAPS

-----------------------------------------------------------------------------
(* What the network encodes, decode_transfer reads back.                   *)

(* The two halves of an amount make the amount. *)
LEMMA AmountRoundTrip ==
  ASSUME NEW n \in Nat
  PROVE  AsI128(I128(n)) = n
<1>1. (n \div Half) * Half + (n % Half) = n
  BY TransfersAssumption, Z3
<1> QED BY <1>1 DEF AsI128, I128

LEMMA TopicsEmitted ==
  ASSUME NEW i
  PROVE  LET topics == EventOf(i).topics IN
         /\ topics[1] = [symbol |-> "transfer"]
         /\ topics[2] = [address |-> i.from]
         /\ topics[3] = [address |-> i.to]
         /\ i.asset = None => Len(topics) = 3
         /\ i.asset # None => Len(topics) = 4 /\ topics[4] = [string |-> i.asset]
<1>1. CASE i.asset = None
  BY <1>1 DEF EventOf, Emitted, TransferTopics
<1>2. CASE i.asset # None
  BY <1>2 DEF EventOf, Emitted, TransferTopics
<1> QED BY <1>1, <1>2

(* An account's filter lets through what is paid to it, and no more. *)
LEMMA FilterEmitted ==
  ASSUME NEW i, NEW a
  PROVE  TransfersTo(a, EventOf(i)) <=> i.to = a
<1> DEFINE topics == EventOf(i).topics
<1>1. topics[1] = [symbol |-> "transfer"] /\ topics[3] = [address |-> i.to]
  BY TopicsEmitted
<1>2. Len(topics) >= 3
  <2>1. Len(topics) = 3 \/ Len(topics) = 4
    BY TopicsEmitted
  <2> HIDE DEF topics
  <2> QED BY <2>1
<1>3. Is("symbol", topics[1]) /\ topics[1].symbol = "transfer"
  BY <1>1 DEF Is
<1>4. Is("address", topics[3]) /\ topics[3].address = i.to
  BY <1>1 DEF Is
<1> QED BY <1>2, <1>3, <1>4 DEF TransfersTo

(* A muxed id or memo is understood as what it was. *)
LEMMA AlongDecoded ==
  ASSUME NEW along, IsAlong(along), along # None
  PROVE  /\ \E type \in {"u64", "string", "bytes"} : Is(type, along)
         /\ AsMuxedId(along) = MeantReference(along)
<1>1. CASE DOMAIN along = {"u64"}
  BY <1>1, along # None DEF Is, AsMuxedId, MeantReference
<1>2. CASE DOMAIN along = {"string"}
  BY <1>2, along # None DEF Is, AsMuxedId, MeantReference
<1>3. CASE DOMAIN along = {"bytes"}
  BY <1>3, along # None DEF Is, AsMuxedId, MeantReference
<1> QED BY <1>1, <1>2, <1>3 DEF IsAlong

(* A transfer somebody means is decoded as what it was meant to be. *)
LEMMA DecodeEmitted ==
  ASSUME NEW i, i.amount \in Nat, IsAlong(i.along)
  PROVE  /\ Decodes(EventOf(i))
         /\ PaymentOf(EventOf(i)) = Meant(i)
         /\ DecodeTransfer(EventOf(i)).to = i.to
         /\ DecodeTransfer(EventOf(i)).from = i.from
<1> DEFINE event == EventOf(i)
           data == event.data
           transfer == DecodeTransfer(event)
<1>1. /\ event.topics[1] = [symbol |-> "transfer"]
      /\ event.topics[2] = [address |-> i.from]
      /\ event.topics[3] = [address |-> i.to]
      /\ i.asset = None => Len(event.topics) = 3
      /\ i.asset # None => Len(event.topics) = 4 /\ event.topics[4] = [string |-> i.asset]
  BY TopicsEmitted
<1>2. event.contract = i.contract
  BY DEF EventOf, Emitted
<1>3. CASE i.along = None
  <2>1. data = I128(i.amount)
    BY <1>3 DEF EventOf, Emitted
  <2>2. Is("i128", data) /\ ~Is("map", data)
    BY <2>1 DEF I128, Is
  <2>3. AsI128(data) = i.amount
    BY <2>1, AmountRoundTrip
  <2>4. Decodes(event)
    BY <1>1, <2>2 DEF Decodes, Is
  <2>5. transfer = [from |-> i.from, to |-> i.to, asset |-> i.asset, amount |-> i.amount,
                    to_muxed_id |-> None]
    BY <1>1, <2>2, <2>3 DEF DecodeTransfer
  <2>6. MeantReference(i.along) = None
    BY <1>3 DEF MeantReference
  <2> QED BY <1>2, <2>4, <2>5, <2>6 DEF PaymentOf, Meant
<1>4. CASE i.along # None
  <2>1. data = [map |-> [amount |-> I128(i.amount), to_muxed_id |-> i.along]]
    BY <1>4 DEF EventOf, Emitted
  <2>2. Is("map", data) /\ ~Is("i128", data)
    BY <2>1 DEF Is
  <2>3. "amount" \in DOMAIN data.map /\ "to_muxed_id" \in DOMAIN data.map
    BY <2>1
  <2>4. data.map.amount = I128(i.amount) /\ data.map.to_muxed_id = i.along
    BY <2>1
  <2>5. Is("i128", data.map.amount) /\ AsI128(data.map.amount) = i.amount
    BY <2>4, AmountRoundTrip DEF I128, Is
  <2>6. MuxedIdOk(data.map)
    BY <1>4, <2>4, AlongDecoded DEF MuxedIdOk
  <2>7. Decodes(event)
    BY <1>1, <2>2, <2>3, <2>5, <2>6 DEF Decodes, Is
  <2>8. AsMuxedId(data.map.to_muxed_id) = MeantReference(i.along)
    BY <1>4, <2>4, AlongDecoded
  <2>9. transfer = [from |-> i.from, to |-> i.to, asset |-> i.asset, amount |-> i.amount,
                    to_muxed_id |-> MeantReference(i.along)]
    BY <1>1, <2>2, <2>3, <2>5, <2>8 DEF DecodeTransfer
  <2> QED BY <1>2, <2>7, <2>9 DEF PaymentOf, Meant
<1> QED BY <1>3, <1>4

-----------------------------------------------------------------------------
(* The chain only grows, by what Chains allows.                            *)

Transactions == UNION {{c[n] : n \in DOMAIN c} : c \in Chains}

Lawful(t) ==
  /\ \/ t = Stray(t.event)
     \/ /\ t = Intended(t.intent) /\ t.intent # None
        /\ t.intent.amount \in Nat /\ IsAlong(t.intent.along)
        /\ t.intent.contract \notin ClassicAssets
  /\ Decodes(t.event) => PaymentOf(t.event) # None
  /\ t.intent # None /\ t.intent.along # None => AsMuxedId(t.intent.along) # None

LEMMA TransactionsLawful ==
  ASSUME NEW t \in Transactions
  PROVE  Lawful(t)
<1>1. PICK c \in Chains : t \in {c[n] : n \in DOMAIN c}
  BY DEF Transactions
<1>2. PICK n \in DOMAIN c : t = c[n]
  BY <1>1
<1> QED BY <1>2, ChainsAssumption, NoneAssumption DEF Lawful

ChainType == chain \in Seq(Transactions) /\ Len(chain) <= MaxEvents

LEMMA ChainGrows ==
  ASSUME ChainType, Transact
  PROVE  /\ ChainType'
         /\ Len(chain') = Len(chain) + 1
         /\ \A e \in 1 .. Len(chain) : chain'[e] = chain[e]
<1>1. PICK c \in Chains : /\ IsStrictPrefix(chain, c)
                          /\ chain' = SubSeq(c, 1, Len(chain) + 1)
  BY DEF Transact
<1>2. c \in Seq({c[n] : n \in DOMAIN c}) /\ Len(c) <= MaxEvents
  BY ChainsAssumption
<1>3. c \in Seq(Transactions)
  <2>1. \A n \in 1 .. Len(c) : c[n] \in Transactions
    BY <1>2 DEF Transactions
  <2> QED BY <1>2, <2>1
<1>4. Len(chain) <= Len(c) /\ chain = SubSeq(c, 1, Len(chain)) /\ chain # c
  BY <1>1, <1>3, SubSeqFull DEF IsStrictPrefix, IsPrefix, ChainType
<1>5. Len(chain) < Len(c)
  BY <1>3, <1>4, SubSeqFull DEF ChainType
<1>6. \A i \in 1 .. Len(chain) + 1 : c[i] \in Transactions
  BY <1>3, <1>5 DEF ChainType
<1>7. /\ chain' \in Seq(Transactions)
      /\ Len(chain') = Len(chain) + 1
      /\ \A i \in 1 .. Len(chain) + 1 : chain'[i] = c[i]
  BY <1>1, <1>6, SubSeqProperties DEF ChainType
<1>8. \A i \in 1 .. Len(chain) : chain[i] = c[i]
  BY <1>3, <1>4, <1>5, SubSeqProperties DEF ChainType
<1>9. Len(chain') <= MaxEvents
  BY <1>2, <1>5, <1>7, BillingAssumption DEF ChainType
<1> QED BY <1>7, <1>8, <1>9 DEF ChainType

-----------------------------------------------------------------------------
(* The types, with what the tables hold of each event.                     *)

Flags == {"absent", "active", "inactive"}

(* A reference is one invoice's. *)
InvoicesType ==
  /\ \A i \in invoices : /\ i # None
                         /\ i.reference \in FirstReference .. nextReference - 1
                         /\ i.number # None
                         /\ i.account \in Accounts
                         /\ i.asset \in ClassicAssets
  /\ \A i, j \in invoices : i.reference = j.reference => i = j

(* On its way to the insert, a command is one that was typed and accepted. *)
ClerkType ==
  /\ clerk = [k \in Clerks |-> clerk[k]]
  /\ \A k \in Clerks :
       /\ clerk[k].at \in {"idle", "watched", "insert", "shown", "refused"}
       /\ clerk[k].at \in {"watched", "insert"} =>
            /\ clerk[k] = [at |-> clerk[k].at, command |-> clerk[k].command]
            /\ clerk[k].command \in Commands
            /\ clerk[k].command.asset \in ClassicAssets

RowsType ==
  /\ rows = [e \in Events |-> rows[e]]
  /\ \A e \in Events : rows[e] # {} =>
       e \in 1 .. Len(chain) /\ rows[e] = {EventRow(chain[e].event)}

PaymentsType ==
  /\ payments = [e \in Events |-> payments[e]]
  /\ \A e \in Events : payments[e] # None =>
       /\ e \in 1 .. Len(chain)
       /\ Decodes(chain[e].event) /\ payments[e] = PaymentOf(chain[e].event)

TypeInv ==
  /\ accounts \in [Accounts -> Flags]
  /\ contracts \in [Contracts -> Flags]
  /\ registered \in SUBSET Contracts
  /\ nextReference \in FirstReference .. MaxReference + 1
  /\ InvoicesType /\ ClerkType /\ ChainType
  /\ cursor \in [Accounts -> 0 .. MaxEvents]
  /\ past \in [Accounts -> 0 .. MaxEvents]
  /\ half \in SUBSET Accounts
  /\ RowsType /\ PaymentsType
  /\ outcome = [e \in Events |-> outcome[e]]

LEMMA TypeInvInit == Init => TypeInv
<1> SUFFICES ASSUME Init PROVE TypeInv
  OBVIOUS
<1>1. ClerkType /\ InvoicesType
  BY DEF Init, ClerkType, InvoicesType
<1>2. ChainType
  BY BillingAssumption DEF Init, ChainType
<1>3. RowsType /\ PaymentsType
  BY DEF Init, RowsType, PaymentsType
<1>4. FirstReference \in FirstReference .. MaxReference + 1 /\ 0 \in 0 .. MaxEvents
  BY BillingAssumption
<1> QED BY <1>1, <1>2, <1>3, <1>4 DEF Init, TypeInv, Flags

(* Nothing is said of these but their types. *)
LEMMA TypeInvRegistries ==
  ASSUME TypeInv, [Next]_vars
  PROVE  /\ accounts' \in [Accounts -> Flags]
         /\ contracts' \in [Contracts -> Flags]
         /\ registered' \in SUBSET Contracts
<1>1. \A c \in Contracts : Seen(c) \in Flags
  BY DEF TypeInv, Seen, Flags
<1>2. ASSUME NEW a \in Accounts, AddAccount(a) \/ RemoveAccount(a)
      PROVE  /\ accounts' \in [Accounts -> Flags]
             /\ UNCHANGED <<contracts, registered>>
  BY <1>2 DEF TypeInv, AddAccount, RemoveAccount, Flags
<1>3. ASSUME NEW a \in Accounts, StoreRow(a)
      PROVE  /\ contracts' \in [Contracts -> Flags]
             /\ UNCHANGED <<accounts, registered>>
  BY <1>1, <1>3 DEF TypeInv, StoreRow
<1>4. ASSUME NEW c \in Contracts, Register(c) \/ Unregister(c)
      PROVE  /\ contracts' \in [Contracts -> Flags]
             /\ registered' \in SUBSET Contracts
             /\ UNCHANGED accounts
  BY <1>4 DEF TypeInv, Register, Unregister, Flags
<1> QED
  BY <1>2, <1>3, <1>4
  DEF TypeInv, Next, vars, registryVars, RecordPayment, FailPayment, SaveCursor, TypeCommand,
      CheckWatched, InsertInvoice, Leave, Transact, Match

(* An invoice's reference was handed out, its number is given, its account *)
(* and asset were accepted.                                                *)
LEMMA TypeInvClerks ==
  ASSUME TypeInv, [Next]_vars
  PROVE  /\ nextReference' \in FirstReference .. MaxReference + 1
         /\ InvoicesType' /\ ClerkType'
<1> USE DEF TypeInv
<1>1. ASSUME NEW k \in Clerks, TypeCommand(k)
      PROVE  ClerkType' /\ UNCHANGED <<nextReference, invoices>>
  <2>1. PICK command \in Commands :
          clerk' = [clerk EXCEPT ![k] =
            [at |-> IF Parses(command.amount) /\ command.asset \in ClassicAssets
                      THEN "watched" ELSE "refused",
             command |-> command]]
    BY <1>1 DEF TypeCommand
  <2>2. UNCHANGED <<nextReference, invoices>>
    BY <1>1 DEF TypeCommand
  <2>3. CASE Parses(command.amount) /\ command.asset \in ClassicAssets
    <3>1. clerk' = [clerk EXCEPT ![k] = [at |-> "watched", command |-> command]]
      BY <2>1, <2>3
    <3> QED BY <2>2, <2>3, <3>1 DEF ClerkType
  <2>4. CASE ~(Parses(command.amount) /\ command.asset \in ClassicAssets)
    <3>1. clerk' = [clerk EXCEPT ![k] = [at |-> "refused", command |-> command]]
      BY <2>1, <2>4
    <3> QED BY <2>2, <3>1 DEF ClerkType
  <2> QED BY <2>2, <2>3, <2>4
<1>2. ASSUME NEW k \in Clerks, CheckWatched(k)
      PROVE  ClerkType' /\ UNCHANGED <<nextReference, invoices>>
  <2>1. clerk[k] = [at |-> "watched", command |-> clerk[k].command]
    BY <1>2 DEF CheckWatched, ClerkType
  <2>2. CASE accounts[clerk[k].command.account] = "active"
    <3>1. PICK m : m = clerk[k].command
      OBVIOUS
    <3>2. clerk[k] = [at |-> "watched", command |-> m]
      BY <2>1, <3>1
    <3>3. [clerk[k] EXCEPT !.at = "insert"] = [at |-> "insert", command |-> m]
      BY <3>2
    <3>4. clerk' = [clerk EXCEPT ![k] = [at |-> "insert", command |-> m]]
      BY <1>2, <2>2, <3>3 DEF CheckWatched
    <3>5. m \in Commands /\ m.asset \in ClassicAssets
      BY <1>2, <3>1 DEF ClerkType, CheckWatched
    <3> QED BY <1>2, <3>4, <3>5 DEF ClerkType, CheckWatched
  <2>3. CASE accounts[clerk[k].command.account] # "active"
    <3>1. clerk' = [clerk EXCEPT ![k] = [at |-> "idle"]]
      BY <1>2, <2>3 DEF CheckWatched
    <3> QED BY <1>2, <3>1 DEF ClerkType, CheckWatched
  <2> QED BY <2>2, <2>3
<1>3. ASSUME NEW k \in Clerks, InsertInvoice(k)
      PROVE  /\ nextReference' \in FirstReference .. MaxReference + 1
             /\ InvoicesType' /\ ClerkType'
  <2> DEFINE command == clerk[k].command
             invoice == InvoiceOf(command, nextReference)
  <2>1. command \in Commands /\ command.asset \in ClassicAssets
    BY <1>3 DEF InsertInvoice, ClerkType
  <2>2. nextReference <= MaxReference /\ nextReference' = nextReference + 1
    BY <1>3 DEF InsertInvoice
  <2>3. nextReference' \in FirstReference .. MaxReference + 1
    BY <2>2, BillingAssumption
  <2>4. nextReference \in FirstReference .. MaxReference
    BY <2>2, BillingAssumption
  <2>5. \/ /\ clerk' = [clerk EXCEPT ![k] = [at |-> "idle"]]
           /\ invoices' = invoices
        \/ /\ invoices' = invoices \cup {invoice}
           /\ clerk' = [clerk EXCEPT ![k] =
                [at |-> "shown", command |-> command,
                 amount |-> FormatAmount(Units(command.amount))]]
    BY <1>3 DEF InsertInvoice
  <2>6. ClerkType'
    BY <2>5 DEF ClerkType
  <2>7. /\ invoice.reference = nextReference
        /\ invoice.account = command.account /\ invoice.asset = command.asset
        /\ invoice.number = NumberGiven(command, nextReference)
    BY DEF InvoiceOf
  <2>8. invoice # None /\ invoice.number # None
    BY <2>1, <2>4, <2>7, NoneAssumption DEF NumberGiven
  <2>9. InvoicesType'
    <3>1. ASSUME NEW i \in invoices
          PROVE  /\ i # None
                 /\ i.reference \in FirstReference .. nextReference' - 1
                 /\ i.reference # nextReference
                 /\ i.number # None /\ i.account \in Accounts /\ i.asset \in ClassicAssets
      BY <2>2, BillingAssumption DEF InvoicesType
    <3>2. nextReference \in FirstReference .. nextReference' - 1
      BY <2>2, BillingAssumption
    <3>3. command.account \in Accounts
      BY <2>1, BillingAssumption
    <3>4. \A i, j \in invoices : i.reference = j.reference => i = j
      BY DEF InvoicesType
    <3> HIDE DEF invoice, command
    <3> QED BY <2>1, <2>5, <2>7, <2>8, <3>1, <3>2, <3>3, <3>4 DEF InvoicesType
  <2> QED BY <2>3, <2>6, <2>9
<1>4. ASSUME NEW k \in Clerks, Leave(k)
      PROVE  ClerkType' /\ UNCHANGED <<nextReference, invoices>>
  BY <1>4 DEF Leave, ClerkType
<1>5. ASSUME UNCHANGED invoiceVars
      PROVE  /\ nextReference' \in FirstReference .. MaxReference + 1
             /\ InvoicesType' /\ ClerkType'
  BY <1>5 DEF invoiceVars, InvoicesType, ClerkType
<1>6. ASSUME UNCHANGED <<nextReference, invoices>>
      PROVE  /\ nextReference' \in FirstReference .. MaxReference + 1
             /\ InvoicesType'
  BY <1>6 DEF InvoicesType
<1> QED
  BY <1>1, <1>2, <1>3, <1>4, <1>5, <1>6
  DEF Next, vars, AddAccount, RemoveAccount, StoreRow, RecordPayment, FailPayment, SaveCursor,
      Register, Unregister, Transact, Match

(* What a stream is served next is on the chain, and is paid to its        *)
(* account or looks like it.                                               *)
LEMMA UpcomingOnChain ==
  ASSUME TypeInv, NEW a \in Accounts, NEW e \in Upcoming(a)
  PROVE  /\ e \in Events /\ e \in 1 .. Len(chain) /\ e > past[a]
         /\ TransfersTo(a, chain[e].event)
         /\ \A f \in past[a] + 1 .. e - 1 : ~TransfersTo(a, chain[f].event)
  BY BillingAssumption DEF TypeInv, ChainType, Upcoming, Events

(* The positions of a stream are on the chain. *)
LEMMA TypeInvStreams ==
  ASSUME TypeInv, [Next]_vars
  PROVE  /\ ChainType'
         /\ cursor' \in [Accounts -> 0 .. MaxEvents]
         /\ past' \in [Accounts -> 0 .. MaxEvents]
         /\ half' \in SUBSET Accounts
<1>1. ASSUME NEW a \in Accounts, AddAccount(a)
      PROVE  /\ cursor' \in [Accounts -> 0 .. MaxEvents]
             /\ past' \in [Accounts -> 0 .. MaxEvents]
             /\ UNCHANGED <<chain, half>>
  <2>1. \A start \in 0 .. Len(chain) : start \in 0 .. MaxEvents
    BY BillingAssumption DEF TypeInv, ChainType
  <2>2. UNCHANGED <<chain, half>>
    BY <1>1 DEF AddAccount
  <2>3. CASE accounts[a] = "absent"
    BY <1>1, <2>1, <2>2, <2>3 DEF AddAccount, TypeInv
  <2>4. CASE accounts[a] # "absent"
    BY <1>1, <2>2, <2>4 DEF AddAccount, TypeInv
  <2> QED BY <2>3, <2>4
<1>2. ASSUME NEW a \in Accounts, RemoveAccount(a) \/ FailPayment(a)
      PROVE  /\ past' \in [Accounts -> 0 .. MaxEvents]
             /\ half' \in SUBSET Accounts
             /\ UNCHANGED <<chain, cursor>>
  BY <1>2 DEF RemoveAccount, FailPayment, StopShort, TypeInv
<1>3. ASSUME NEW a \in Accounts, StoreRow(a)
      PROVE  half' \in SUBSET Accounts /\ UNCHANGED <<chain, cursor, past>>
  BY <1>3 DEF StoreRow, TypeInv
<1>4. ASSUME NEW a \in Accounts, RecordPayment(a)
      PROVE  /\ past' \in [Accounts -> 0 .. MaxEvents]
             /\ half' \in SUBSET Accounts
             /\ UNCHANGED <<chain, cursor>>
  <2>1. \A e \in Upcoming(a) : e \in 0 .. MaxEvents
    BY UpcomingOnChain DEF Events
  <2> QED BY <1>4, <2>1 DEF RecordPayment, TypeInv
<1>5. ASSUME NEW a \in Accounts, SaveCursor(a)
      PROVE  /\ cursor' \in [Accounts -> 0 .. MaxEvents]
             /\ UNCHANGED <<chain, past, half>>
  BY <1>5 DEF SaveCursor, TypeInv
<1>6. ASSUME Transact
      PROVE  ChainType' /\ UNCHANGED <<cursor, past, half>>
  BY <1>6, ChainGrows DEF Transact, streamVars, TypeInv
<1>7. ASSUME UNCHANGED <<chain, streamVars>>
      PROVE  UNCHANGED <<chain, cursor, past, half>>
  BY <1>7 DEF streamVars
<1>8. UNCHANGED chain => ChainType'
  BY DEF TypeInv, ChainType
<1> QED
  BY <1>1, <1>2, <1>3, <1>4, <1>5, <1>6, <1>7, <1>8
  DEF TypeInv, Next, vars, Register, Unregister, TypeCommand, CheckWatched, InsertInvoice,
      Leave, Match

(* The tables hold what was decoded. *)
LEMMA TypeInvTables ==
  ASSUME TypeInv, [Next]_vars
  PROVE  RowsType' /\ PaymentsType' /\ outcome' = [e \in Events |-> outcome'[e]]
<1>1. ASSUME UNCHANGED <<chain, rows>> PROVE RowsType'
  BY <1>1 DEF TypeInv, RowsType
<1>2. ASSUME UNCHANGED <<chain, payments>> PROVE PaymentsType'
  BY <1>2 DEF TypeInv, PaymentsType
<1>3. ASSUME NEW a \in Accounts, StoreRow(a)
      PROVE  RowsType' /\ UNCHANGED <<chain, payments, outcome>>
  <2>1. PICK e \in Upcoming(a) : rows' = [rows EXCEPT ![e] = @ \cup {EventRow(chain[e].event)}]
    BY <1>3 DEF StoreRow
  <2>2. UNCHANGED <<chain, payments, outcome>>
    BY <1>3 DEF StoreRow
  <2>3. e \in Events /\ e \in 1 .. Len(chain)
    BY UpcomingOnChain
  <2>4. rows[e] \subseteq {EventRow(chain[e].event)}
    BY <2>3 DEF TypeInv, RowsType
  <2>5. rows' = [rows EXCEPT ![e] = {EventRow(chain[e].event)}]
    BY <2>1, <2>3, <2>4 DEF TypeInv, RowsType
  <2> QED BY <2>2, <2>3, <2>5 DEF TypeInv, RowsType
<1>4. ASSUME NEW a \in Accounts, RecordPayment(a)
      PROVE  PaymentsType' /\ UNCHANGED <<chain, rows, outcome>>
  <2>1. PICK e \in Upcoming(a) :
          payments' = IF Pays(a, chain[e].event) /\ payments[e] = None
                        THEN [payments EXCEPT ![e] = PaymentOf(chain[e].event)] ELSE payments
    BY <1>4 DEF RecordPayment
  <2>2. UNCHANGED <<chain, rows, outcome>>
    BY <1>4 DEF RecordPayment
  <2>3. e \in Events /\ e \in 1 .. Len(chain)
    BY UpcomingOnChain
  <2>4. CASE Pays(a, chain[e].event) /\ payments[e] = None
    BY <2>1, <2>2, <2>3, <2>4 DEF TypeInv, PaymentsType, Pays
  <2>5. CASE ~(Pays(a, chain[e].event) /\ payments[e] = None)
    BY <1>2, <2>1, <2>2, <2>5
  <2> QED BY <2>2, <2>4, <2>5
<1>5. ASSUME Transact
      PROVE  RowsType' /\ PaymentsType' /\ UNCHANGED outcome
  <2>1. UNCHANGED <<rows, payments, outcome>>
    BY <1>5 DEF Transact, streamVars
  <2>2. /\ Len(chain') = Len(chain) + 1
        /\ \A e \in 1 .. Len(chain) : e \in 1 .. Len(chain') /\ chain'[e] = chain[e]
    BY <1>5, ChainGrows DEF TypeInv, ChainType
  <2>3. RowsType'
    BY <2>1, <2>2 DEF TypeInv, RowsType
  <2>4. PaymentsType'
    BY <2>1, <2>2 DEF TypeInv, PaymentsType
  <2> QED BY <2>1, <2>3, <2>4
<1>6. ASSUME NEW f \in Events, Match(f)
      PROVE  /\ UNCHANGED <<chain, rows, payments>>
             /\ outcome' = [e \in Events |-> outcome'[e]]
  BY <1>6 DEF Match, streamVars, TypeInv
<1>7. UNCHANGED outcome => outcome' = [e \in Events |-> outcome'[e]]
  BY DEF TypeInv
<1> QED
  BY <1>1, <1>2, <1>3, <1>4, <1>5, <1>6, <1>7
  DEF Next, vars, streamVars, AddAccount, RemoveAccount, FailPayment, SaveCursor, Register,
      Unregister, TypeCommand, CheckWatched, InsertInvoice, Leave

LEMMA TypeInvNext ==
  ASSUME TypeInv, [Next]_vars
  PROVE  TypeInv'
  BY TypeInvRegistries, TypeInvClerks, TypeInvStreams, TypeInvTables DEF TypeInv

LEMMA TypeInvAlways == Spec => []TypeInv
  BY TypeInvInit, TypeInvNext, PTL DEF Spec

(* Every variable is of its type, and the rows of an event all say the     *)
(* same, however many times its stream was replayed and whoever stored it. *)
THEOREM TypeCorrect == Spec => []TypeOK
<1>1. TypeInv => TypeOK
  <2> SUFFICES ASSUME TypeInv PROVE TypeOK
    OBVIOUS
  <2>1. \A e \in Events : Cardinality(rows[e]) <= 1
    <3>1. ASSUME NEW e \in Events PROVE Cardinality(rows[e]) <= 1
      <4>1. CASE rows[e] = {}
        <5>1. Cardinality(rows[e]) = 0
          BY <4>1, FS_EmptySet, Zenon
        <5> QED BY <5>1
      <4>2. CASE rows[e] # {}
        <5>1. rows[e] = {EventRow(chain[e].event)}
          BY <4>2 DEF TypeInv, RowsType
        <5>2. Cardinality(rows[e]) = 1
          BY <5>1, FS_Singleton, Zenon
        <5> QED BY <5>2
      <4> QED BY <4>1, <4>2
    <3> QED BY <3>1
  <2>2. registered \subseteq Contracts /\ half \subseteq Accounts
    BY DEF TypeInv
  <2>3. \A k \in Clerks : clerk[k].at \in {"idle", "watched", "insert", "shown", "refused"}
    BY DEF TypeInv, ClerkType
  <2> QED BY <2>1, <2>2, <2>3 DEF TypeOK, TypeInv, Flags, InvoicesType, ChainType
<1> QED BY <1>1, TypeInvAlways, PTL

-----------------------------------------------------------------------------
(* Registered contracts.                                                   *)

LEMMA RegisteredNext ==
  ASSUME TypeInv, OnlyRegisteredIndexed, [Next]_vars
  PROVE  OnlyRegisteredIndexed'
<1> USE DEF TypeInv, OnlyRegisteredIndexed
<1>1. ASSUME NEW c \in Contracts, Register(c) \/ Unregister(c)
      PROVE  OnlyRegisteredIndexed'
  BY <1>1 DEF Register, Unregister
<1>2. ASSUME NEW a \in Accounts, StoreRow(a)
      PROVE  OnlyRegisteredIndexed'
  BY <1>2 DEF StoreRow, Seen
<1>3. UNCHANGED <<contracts, registered>> => OnlyRegisteredIndexed'
  OBVIOUS
<1> QED
  BY <1>1, <1>2, <1>3
  DEF Next, vars, registryVars, AddAccount, RemoveAccount, RecordPayment, FailPayment,
      SaveCursor, TypeCommand, CheckWatched, InsertInvoice, Leave, Transact, Match

(* Whoever pays in whatever token, and whichever comes first, a contract   *)
(* is indexed when and only when a user registered it.                     *)
THEOREM RegisteredOnly == Spec => []OnlyRegisteredIndexed
<1>1. Init => OnlyRegisteredIndexed
  BY DEF Init, OnlyRegisteredIndexed
<1> QED BY <1>1, RegisteredNext, TypeInvAlways, PTL DEF Spec

-----------------------------------------------------------------------------
(* Amounts as they were typed.                                             *)

(* A command on its way to the insert has an amount that parses, and what  *)
(* is shown or refused was one to be shown or refused.                     *)
ShownInv ==
  /\ AmountAsTyped
  /\ \A k \in Clerks :
       clerk[k].at \in {"watched", "insert"} => Parses(clerk[k].command.amount)

LEMMA ShownNext ==
  ASSUME TypeInv, ShownInv, [Next]_vars
  PROVE  ShownInv'
<1> DEFINE Same(k) == /\ clerk[k].at \in {"watched", "insert"} => Parses(clerk[k].command.amount)
                      /\ clerk[k].at = "shown" =>
                           /\ Representable(clerk[k].command.amount)
                           /\ SameAmount(clerk[k].amount, clerk[k].command.amount)
                      /\ clerk[k].at = "refused" /\ clerk[k].command.asset \in ClassicAssets =>
                           ~Representable(clerk[k].command.amount)
<1>0. clerk = [k \in Clerks |-> clerk[k]] /\ \A k \in Clerks : Same(k)
  BY DEF TypeInv, ClerkType, ShownInv, AmountAsTyped
<1>1. ASSUME NEW command \in Commands
      PROVE  /\ Parses(command.amount) <=> Representable(command.amount)
             /\ Parses(command.amount) =>
                  SameAmount(FormatAmount(Units(command.amount)), command.amount)
  BY BillingAssumption, ParsesRepresentable, FormatsWhatWasTyped
<1>2. ASSUME NEW k \in Clerks, NEW to, clerk' = [clerk EXCEPT ![k] = to],
             /\ to.at \in {"watched", "insert"} => Parses(to.command.amount)
             /\ to.at = "shown" => /\ Representable(to.command.amount)
                                   /\ SameAmount(to.amount, to.command.amount)
             /\ to.at = "refused" /\ to.command.asset \in ClassicAssets =>
                  ~Representable(to.command.amount)
      PROVE  ShownInv'
  <2>1. clerk'[k] = to /\ \A m \in Clerks \ {k} : clerk'[m] = clerk[m]
    BY <1>0, <1>2
  <2>2. \A m \in Clerks : Same(m)'
    BY <1>0, <1>2, <2>1
  <2> QED BY <2>2 DEF ShownInv, AmountAsTyped
<1>3. ASSUME NEW k \in Clerks, TypeCommand(k) PROVE ShownInv'
  <2>1. PICK command \in Commands :
          clerk' = [clerk EXCEPT ![k] =
            [at |-> IF Parses(command.amount) /\ command.asset \in ClassicAssets
                      THEN "watched" ELSE "refused",
             command |-> command]]
    BY <1>3 DEF TypeCommand
  <2> DEFINE to == [at |-> IF Parses(command.amount) /\ command.asset \in ClassicAssets
                             THEN "watched" ELSE "refused",
                    command |-> command]
  <2>2. /\ to.command = command
        /\ to.at = IF Parses(command.amount) /\ command.asset \in ClassicAssets
                     THEN "watched" ELSE "refused"
    OBVIOUS
  <2>3. clerk' = [clerk EXCEPT ![k] = to]
    BY <2>1
  <2> HIDE DEF to
  <2> QED BY <1>1, <1>2, <2>2, <2>3
<1>4. ASSUME NEW k \in Clerks, CheckWatched(k) PROVE ShownInv'
  <2> DEFINE m == clerk[k].command
  <2>1. clerk[k] = [at |-> "watched", command |-> m] /\ Parses(m.amount)
    BY <1>4 DEF CheckWatched, TypeInv, ClerkType, ShownInv
  <2>2. \/ clerk' = [clerk EXCEPT ![k] = [clerk[k] EXCEPT !.at = "insert"]]
        \/ clerk' = [clerk EXCEPT ![k] = [at |-> "idle"]]
    BY <1>4 DEF CheckWatched
  <2> HIDE DEF m
  <2>3. [clerk[k] EXCEPT !.at = "insert"] = [at |-> "insert", command |-> m]
    BY <2>1
  <2> QED BY <1>2, <2>1, <2>2, <2>3
<1>5. ASSUME NEW k \in Clerks, InsertInvoice(k) PROVE ShownInv'
  <2> DEFINE m == clerk[k].command
  <2>1. m \in Commands /\ Parses(m.amount)
    BY <1>5 DEF InsertInvoice, TypeInv, ClerkType, ShownInv
  <2>2. \/ clerk' = [clerk EXCEPT ![k] = [at |-> "idle"]]
        \/ clerk' = [clerk EXCEPT ![k] =
             [at |-> "shown", command |-> m, amount |-> FormatAmount(Units(m.amount))]]
    BY <1>5 DEF InsertInvoice
  <2> HIDE DEF m
  <2> DEFINE shown == [at |-> "shown", command |-> m, amount |-> FormatAmount(Units(m.amount))]
  <2>3. shown.at = "shown" /\ shown.command = m /\ shown.amount = FormatAmount(Units(m.amount))
    OBVIOUS
  <2>4. clerk' = [clerk EXCEPT ![k] = [at |-> "idle"]] \/ clerk' = [clerk EXCEPT ![k] = shown]
    BY <2>2
  <2> HIDE DEF shown
  <2> QED BY <1>1, <1>2, <2>1, <2>3, <2>4
<1>6. ASSUME NEW k \in Clerks, Leave(k) PROVE ShownInv'
  <2>1. clerk' = [clerk EXCEPT ![k] = [at |-> "idle"]]
    BY <1>6 DEF Leave
  <2> QED BY <1>2, <2>1
<1>7. ASSUME UNCHANGED clerk PROVE ShownInv'
  BY <1>7 DEF ShownInv, AmountAsTyped
<1> QED
  BY <1>3, <1>4, <1>5, <1>6, <1>7
  DEF Next, vars, invoiceVars, AddAccount, RemoveAccount, StoreRow, RecordPayment, FailPayment,
      SaveCursor, Register, Unregister, Transact, Match

(* Whatever is typed, with any number of digits: it is refused exactly     *)
(* when it is no amount the asset has, and otherwise shown as the same     *)
(* amount.                                                                 *)
THEOREM AmountsAsTyped == Spec => []AmountAsTyped
<1>1. Init => ShownInv
  BY DEF Init, ShownInv, AmountAsTyped
<1>2. ShownInv => AmountAsTyped
  BY DEF ShownInv
<1> QED BY <1>1, <1>2, ShownNext, TypeInvAlways, PTL DEF Spec

-----------------------------------------------------------------------------
(* Payments that were meant.                                               *)

(* The row of a transfer that was meant is of an account that was added,   *)
(* and whose stream is past it only when it wrote the payment.             *)
WrittenInv ==
  /\ \A a \in Accounts : cursor[a] <= past[a]
  /\ \A e \in Events : rows[e] # {} /\ IsIntent(e) =>
       LET i == chain[e].intent IN
       /\ i.to \in Accounts /\ accounts[i.to] # "absent"
       /\ i.from # i.to /\ past[i.to] >= e => payments[e] # None

(* What is on the chain by intent is decoded as it was meant.              *)
LEMMA IntentMeant ==
  ASSUME TypeInv, NEW e, IsIntent(e)
  PROVE  LET i == chain[e].intent IN
         /\ chain[e].event = EventOf(i)
         /\ Decodes(chain[e].event)
         /\ PaymentOf(chain[e].event) = Meant(i)
         /\ DecodeTransfer(chain[e].event).to = i.to
         /\ DecodeTransfer(chain[e].event).from = i.from
         /\ i.contract \notin ClassicAssets
         /\ IsAlong(i.along)
         /\ PaymentOf(chain[e].event) # None
         /\ i.along # None => MeantReference(i.along) # None
         /\ \A a : TransfersTo(a, chain[e].event) <=> i.to = a
<1> DEFINE i == chain[e].intent
<1>1. chain[e] \in Transactions
  <2> HIDE DEF Transactions
  <2> QED BY ElementOfSeq DEF TypeInv, ChainType, IsIntent
<1>2. Lawful(chain[e])
  BY <1>1, TransactionsLawful
<1>3. chain[e] # Stray(chain[e].event)
  BY DEF Stray, IsIntent
<1>4. /\ chain[e] = Intended(i) /\ i.amount \in Nat /\ IsAlong(i.along)
      /\ i.contract \notin ClassicAssets
  BY <1>2, <1>3 DEF Lawful
<1>5. chain[e].event = EventOf(i)
  BY <1>4 DEF Intended
<1>6. /\ Decodes(EventOf(i)) /\ PaymentOf(EventOf(i)) = Meant(i)
      /\ DecodeTransfer(EventOf(i)).to = i.to
      /\ DecodeTransfer(EventOf(i)).from = i.from
  BY <1>4, DecodeEmitted
<1>7. \A a : TransfersTo(a, EventOf(i)) <=> i.to = a
  BY FilterEmitted
<1>8. Decodes(chain[e].event) => PaymentOf(chain[e].event) # None
  BY <1>2 DEF Lawful
<1>9. i.along # None => MeantReference(i.along) # None
  BY <1>2, <1>4, AlongDecoded, IsIntent(e) DEF Lawful, IsIntent
<1> HIDE DEF i
<1>10. /\ i.contract \notin ClassicAssets /\ IsAlong(i.along)
  BY <1>4
<1>11. /\ Decodes(chain[e].event) /\ PaymentOf(chain[e].event) = Meant(i)
       /\ DecodeTransfer(chain[e].event).to = i.to
       /\ DecodeTransfer(chain[e].event).from = i.from
       /\ \A a : TransfersTo(a, chain[e].event) <=> i.to = a
  BY <1>5, <1>6, <1>7
<1> QED BY <1>5, <1>8, <1>9, <1>10, <1>11 DEF i

LEMMA WrittenNext ==
  ASSUME TypeInv, TypeInv', WrittenInv, [Next]_vars
  PROVE  WrittenInv'
<1>1. ASSUME NEW a \in Accounts, AddAccount(a)
      PROVE  WrittenInv'
  <2>1. UNCHANGED <<chain, rows, payments>>
    BY <1>1 DEF AddAccount
  <2>2. accounts' = [accounts EXCEPT ![a] = "active"]
    BY <1>1 DEF AddAccount
  <2>3. \A b \in Accounts : accounts[b] # "absent" =>
          accounts'[b] # "absent" /\ past'[b] = past[b]
    BY <1>1, <2>2 DEF AddAccount, TypeInv
  <2>4. CASE accounts[a] = "absent"
    <3>1. PICK start \in 0 .. Len(chain) : /\ cursor' = [cursor EXCEPT ![a] = start]
                                          /\ past' = [past EXCEPT ![a] = start]
      BY <1>1, <2>4 DEF AddAccount
    <3>2. \A b \in Accounts : cursor'[b] <= past'[b]
      BY <3>1 DEF TypeInv, WrittenInv
    <3> QED BY <2>1, <2>3, <3>2 DEF WrittenInv, IsIntent
  <2>5. CASE accounts[a] # "absent"
    <3>1. UNCHANGED <<cursor, past>>
      BY <1>1, <2>5 DEF AddAccount
    <3> QED BY <2>1, <2>3, <3>1 DEF WrittenInv, IsIntent
  <2> QED BY <2>4, <2>5
<1>2. ASSUME NEW a \in Accounts, RemoveAccount(a) \/ FailPayment(a)
      PROVE  WrittenInv'
  <2>1. past' = [past EXCEPT ![a] = cursor[a]] /\ cursor[a] <= past[a]
    BY <1>2 DEF RemoveAccount, FailPayment, StopShort, WrittenInv
  <2>2. \A b \in Accounts : past'[b] <= past[b] /\ cursor[b] <= past'[b]
    BY <2>1 DEF TypeInv, WrittenInv
  <2>3. UNCHANGED <<chain, cursor, rows, payments>>
    BY <1>2 DEF RemoveAccount, FailPayment
  <2>4. \A b \in Accounts : accounts[b] # "absent" => accounts'[b] # "absent"
    BY <1>2 DEF RemoveAccount, FailPayment, TypeInv, registryVars
  <2>5. \A b \in Accounts : past[b] \in Int /\ past'[b] \in Int /\ \A e \in Events : e \in Int
    BY DEF TypeInv, Events
  <2> QED BY <2>2, <2>3, <2>4, <2>5 DEF WrittenInv, IsIntent
<1>3. ASSUME NEW a \in Accounts, StoreRow(a)
      PROVE  WrittenInv'
  <2>1. PICK e \in Upcoming(a) : rows' = [rows EXCEPT ![e] = @ \cup {EventRow(chain[e].event)}]
    BY <1>3 DEF StoreRow
  <2>2. UNCHANGED <<chain, payments, accounts, cursor, past>> /\ accounts[a] = "active"
    BY <1>3 DEF StoreRow
  <2>3. e > past[a] /\ TransfersTo(a, chain[e].event)
    BY UpcomingOnChain
  <2>4. IsIntent(e) => chain[e].intent.to = a
    BY <2>3, IntentMeant
  <2>5. past[a] \in Int /\ e \in Int
    BY UpcomingOnChain DEF TypeInv, Events
  <2>6. \A f \in Events : f # e => rows'[f] = rows[f]
    BY <2>1 DEF TypeInv, RowsType
  <2>7. ASSUME NEW f \in Events, rows'[f] # {}, IsIntent(f)
        PROVE  LET i == chain[f].intent IN
               /\ i.to \in Accounts /\ accounts[i.to] # "absent"
               /\ i.from # i.to /\ past[i.to] >= f => payments[f] # None
    <3>1. CASE f = e
      BY <2>2, <2>3, <2>4, <2>5, <2>7, <3>1
    <3>2. CASE f # e
      BY <2>6, <2>7, <3>2 DEF WrittenInv
    <3> QED BY <3>1, <3>2
  <2> QED BY <2>2, <2>7 DEF WrittenInv, IsIntent
<1>4. ASSUME NEW a \in Accounts, RecordPayment(a)
      PROVE  WrittenInv'
  <2>1. PICK e \in Upcoming(a) :
          /\ payments' = IF Pays(a, chain[e].event) /\ payments[e] = None
                           THEN [payments EXCEPT ![e] = PaymentOf(chain[e].event)] ELSE payments
          /\ past' = [past EXCEPT ![a] = e]
    BY <1>4 DEF RecordPayment
  <2>2. UNCHANGED <<chain, accounts, cursor, rows>>
    BY <1>4 DEF RecordPayment, registryVars
  <2>3. /\ e \in Events /\ e > past[a]
        /\ \A f \in past[a] + 1 .. e - 1 : ~TransfersTo(a, chain[f].event)
    BY UpcomingOnChain
  <2>4. /\ past[a] \in Int /\ cursor[a] \in Int /\ cursor[a] <= past[a]
        /\ \A f \in Events : f \in Int
    BY DEF TypeInv, WrittenInv, Events
  <2>5. past'[a] = e /\ \A b \in Accounts : b # a => past'[b] = past[b]
    BY <2>1 DEF TypeInv
  <2>6. \A f \in Events : payments[f] # None => payments'[f] # None
    BY <2>1 DEF TypeInv, PaymentsType
  <2>7. ASSUME NEW f \in Events, rows[f] # {}, IsIntent(f)
        PROVE  LET i == chain[f].intent IN
               /\ i.to \in Accounts /\ accounts[i.to] # "absent"
               /\ i.from # i.to /\ past'[i.to] >= f => payments'[f] # None
    <3> DEFINE i == chain[f].intent
    <3>1. /\ i.to \in Accounts /\ accounts[i.to] # "absent"
          /\ i.from # i.to /\ past[i.to] >= f => payments[f] # None
      BY <2>7 DEF WrittenInv
    <3>2. CASE i.to # a
      BY <2>5, <2>6, <3>1, <3>2
    <3>3. CASE i.to = a /\ f < e
      <4>1. TransfersTo(a, chain[f].event)
        BY <2>7, <3>3, IntentMeant
      <4>2. ~(f \in past[a] + 1 .. e - 1)
        BY <2>3, <4>1
      <4>3. past[a] >= f
        BY <2>3, <2>4, <3>3, <4>2
      <4> QED BY <2>6, <3>1, <3>3, <4>3
    <3>4. CASE i.to = a /\ f = e
      <4>1. i.from # a => Pays(a, chain[f].event) /\ PaymentOf(chain[f].event) # None
        BY <2>7, <3>4, IntentMeant DEF Pays
      <4>2. i.from # a => payments'[f] # None
        BY <2>1, <2>3, <3>4, <4>1 DEF TypeInv, PaymentsType
      <4> QED BY <3>1, <3>4, <4>2
    <3>5. CASE i.to = a /\ f > e
      BY <2>3, <2>4, <2>5, <3>1, <3>5
    <3>6. f < e \/ f = e \/ f > e
      BY <2>3, <2>4
    <3> QED BY <3>2, <3>3, <3>4, <3>5, <3>6
  <2>8. \A b \in Accounts : cursor[b] <= past'[b]
    BY <2>3, <2>4, <2>5 DEF WrittenInv
  <2> QED BY <2>2, <2>7, <2>8 DEF WrittenInv, IsIntent
<1>5. ASSUME NEW a \in Accounts, SaveCursor(a)
      PROVE  WrittenInv'
  BY <1>5 DEF SaveCursor, WrittenInv, TypeInv, IsIntent, registryVars
<1>6. ASSUME Transact
      PROVE  WrittenInv'
  <2>1. UNCHANGED <<rows, payments, accounts, cursor, past>>
    BY <1>6 DEF Transact, streamVars, registryVars
  <2>2. \A e \in 1 .. Len(chain) : chain'[e] = chain[e]
    BY <1>6, ChainGrows DEF TypeInv
  <2>3. \A e \in Events : rows[e] # {} => e \in 1 .. Len(chain) /\ e \in DOMAIN chain
    BY DEF TypeInv, RowsType, ChainType
  <2>4. \A e \in Events : rows[e] # {} /\ IsIntent(e)' =>
          IsIntent(e) /\ chain'[e] = chain[e]
    BY <2>2, <2>3 DEF IsIntent
  <2> QED BY <2>1, <2>4 DEF WrittenInv
<1>7. UNCHANGED <<chain, accounts, streamVars>> => WrittenInv'
  BY DEF streamVars, WrittenInv, IsIntent
<1> QED
  BY <1>1, <1>2, <1>3, <1>4, <1>5, <1>6, <1>7
  DEF Next, vars, registryVars, Register, Unregister, TypeCommand, CheckWatched,
      InsertInvoice, Leave, Match

(* Whatever the amount, its halves on the wire and what came along, and    *)
(* however often the stream is stopped, a transfer is recorded as the      *)
(* payment its payer meant, and never left out once its event has a row.   *)
THEOREM PaymentsAsSent == Spec => []RecordedAsSent
<1>1. Init => WrittenInv
  BY DEF Init, WrittenInv, IsIntent
<1>2. TypeInv /\ WrittenInv => RecordedAsSent
  <2> SUFFICES ASSUME TypeInv, WrittenInv, NEW e \in Events, IsIntent(e)
               PROVE  /\ payments[e] # None => payments[e] = Meant(chain[e].intent)
                      /\ rows[e] # {} =>
                           LET i == chain[e].intent IN
                           i.from # i.to /\ past[i.to] >= e => payments[e] # None
    BY DEF RecordedAsSent
  <2>1. payments[e] # None => payments[e] = Meant(chain[e].intent)
    BY IntentMeant DEF TypeInv, PaymentsType
  <2> QED BY <2>1 DEF WrittenInv
<1> QED BY <1>1, <1>2, WrittenNext, TypeInvAlways, PTL DEF Spec

-----------------------------------------------------------------------------
(* Payments matched to the invoice that was named.                         *)

(* Trimming leaves what a text is parsed for. *)
LEMMA TrimText ==
  ASSUME NEW t, IsText(t)
  PROVE  Trim(t).word = t.word /\ Trim(t).number = t.number
  BY DEF IsText, Trim

LEMMA ParsedNumber ==
  ASSUME NEW t, ParseI64(t) # None
  PROVE  t.word = "" /\ t.number = ParseI64(t)
  BY DEF ParseI64, ParsesAsI64

(* The key of a memo or muxed id finds no invoice that it does not name.   *)
LEMMA KeyNames ==
  ASSUME NEW payment, NEW along, IsAlong(along),
         payment.reference = MeantReference(along),
         NEW invoice,
         LET key == LookupKey(payment) IN
         NamesReference(key, invoice) \/ NamesNumber(key, invoice)
  PROVE  Names(along, invoice)
<1> DEFINE key == LookupKey(payment)
<1>1. CASE along = None
  <2>1. payment.reference = None
    BY <1>1 DEF MeantReference
  <2>2. key.reference = None /\ key.number = None
    BY <2>1 DEF LookupKey, NoKey
  <2> QED BY <2>2 DEF NamesReference, NamesNumber
<1>2. CASE along # None /\ DOMAIN along = {"u64"}
  <2> DEFINE text == DisplayInt(along.u64)
  <2>1. payment.reference = [type |-> "id", value |-> text]
    BY <1>2 DEF MeantReference, Is
  <2>2. payment.reference # None
    BY <2>1, <1>2 DEF NamesReference, NamesNumber, LookupKey, NoKey
  <2>3. payment.reference.type = "id" /\ payment.reference.value = text
    BY <2>1
  <2>4. IsText(text) /\ text.number = along.u64
    BY DEF IsText, DisplayInt, Text
  <2>5. key = [NoKey EXCEPT !.reference = ParseI64(Trim(text))]
    BY <2>2, <2>3 DEF LookupKey
  <2>6. key.reference = ParseI64(Trim(text)) /\ key.number = None
    BY <2>5 DEF NoKey
  <2>7. ParseI64(Trim(text)) # None /\ invoice.reference = ParseI64(Trim(text))
    BY <2>6 DEF NamesReference, NamesNumber
  <2>8. invoice.reference = Trim(text).number
    BY <2>7, ParsedNumber
  <2>9. invoice.reference = along.u64
    BY <2>4, <2>8, TrimText
  <2> QED BY <1>2, <2>9 DEF Names, Is
<1>3. CASE along # None /\ DOMAIN along = {"string"} /\ IsText(along.string)
  <2> DEFINE value == Trim(along.string)
  <2>1. payment.reference = [type |-> "text", value |-> along.string]
    BY <1>3 DEF MeantReference, Is
  <2>2. payment.reference # None
    BY <2>1 DEF NamesReference, NamesNumber, LookupKey, NoKey
  <2>3. payment.reference.type = "text" /\ payment.reference.value = along.string
    BY <2>1
  <2>4. key = TextKey(value) \/ key = NoKey
    BY <2>2, <2>3 DEF LookupKey
  <2>5. key = TextKey(value)
    BY <2>4 DEF NamesReference, NamesNumber, NoKey
  <2>6. key.reference = ParseI64(value) /\ key.number = value
    BY <2>5 DEF TextKey
  <2>7. CASE NamesReference(key, invoice)
    <3>1. ParseI64(value) # None /\ invoice.reference = ParseI64(value)
      BY <2>6, <2>7 DEF NamesReference
    <3>2. value.word = "" /\ invoice.reference = value.number
      BY <3>1, ParsedNumber
    <3>3. along.string.word = "" /\ along.string.number = invoice.reference
      BY <1>3, <3>2, TrimText
    <3> QED BY <1>3, <3>3 DEF Names, Is
  <2>8. CASE NamesNumber(key, invoice)
    <3>1. Lower(value) = Lower(invoice.number)
      BY <2>6, <2>8 DEF NamesNumber
    <3> QED BY <1>3, <3>1 DEF Names, Is
  <2> QED BY <2>7, <2>8
<1>4. CASE along # None /\ DOMAIN along = {"bytes"}
  <2>1. payment.reference = [type |-> "hash", value |-> along.bytes]
    BY <1>4 DEF MeantReference, Is
  <2>2. payment.reference.type = "hash"
    BY <2>1
  <2>3. key = NoKey
    BY <2>2 DEF LookupKey
  <2> QED BY <2>3 DEF NamesReference, NamesNumber, NoKey
<1> QED BY <1>1, <1>2, <1>3, <1>4 DEF IsAlong

(* What find_invoice finds is on the account and named by the key.         *)
LEMMA FoundIsNamed ==
  ASSUME NEW payment, NEW i \in FindInvoice(invoices, payment)
  PROVE  /\ i \in invoices /\ i.account = payment.account
         /\ LET key == LookupKey(payment) IN NamesReference(key, i) \/ NamesNumber(key, i)
  BY DEF FindInvoice, Preferred

(* A match is with an invoice there is, in the asset of the payment.       *)
LEMMA DecidedMatch ==
  ASSUME NEW payment, NEW i, "invoice" \in DOMAIN Decide(payment, i)
  PROVE  i # None /\ Decide(payment, i).invoice = i.reference /\ i.asset = payment.asset
<1>1. CASE LookupKey(payment) = NoKey
  BY <1>1 DEF Decide
<1>2. CASE LookupKey(payment) # NoKey /\ i = None
  BY <1>2 DEF Decide
<1>3. CASE LookupKey(payment) # NoKey /\ i # None /\ i.asset # payment.asset
  BY <1>3 DEF Decide
<1>4. CASE LookupKey(payment) # NoKey /\ i # None /\ i.asset = payment.asset
  BY <1>4 DEF Decide
<1> QED BY <1>1, <1>2, <1>3, <1>4

Matched(e) == outcome[e] # None /\ "invoice" \in DOMAIN outcome[e]

(* Invoices stay, so what holds when a payment is matched goes on.         *)
MatchInv ==
  \A e \in Events : Matched(e) =>
    /\ payments[e] # None
    /\ IsIntent(e) =>
         \E i \in invoices : /\ i.reference = outcome[e].invoice
                             /\ Names(chain[e].intent.along, i)
                             /\ i.account = chain[e].intent.to
                             /\ i.asset = chain[e].intent.asset

LEMMA MatchNext ==
  ASSUME TypeInv, MatchInv, [Next]_vars
  PROVE  MatchInv'
<1>1. ASSUME NEW e \in Events, Match(e)
      PROVE  MatchInv'
  <2> DEFINE found == FindInvoice(invoices, payments[e])
             t == chain[e].intent
  <2>1. payments[e] # None
    BY <1>1 DEF Match
  <2>2. PICK i \in IF found = {} THEN {None} ELSE found :
          outcome' = [outcome EXCEPT ![e] = Decide(payments[e], i)]
    BY <1>1 DEF Match
  <2>3. UNCHANGED <<invoices, chain, payments>>
    BY <1>1 DEF Match, invoiceVars, streamVars
  <2>4. outcome'[e] = Decide(payments[e], i) /\ \A f \in Events : f # e => outcome'[f] = outcome[f]
    BY <2>2 DEF TypeInv
  <2>5. ASSUME Matched(e)', IsIntent(e)
        PROVE  \E j \in invoices : /\ j.reference = outcome'[e].invoice
                                   /\ Names(t.along, j)
                                   /\ j.account = t.to
                                   /\ j.asset = t.asset
    <3>1. /\ i # None /\ outcome'[e].invoice = i.reference
          /\ i.asset = payments[e].asset
      BY <2>4, <2>5, DecidedMatch DEF Matched
    <3>2. i \in found
      BY <2>2, <3>1
    <3>3. /\ i \in invoices /\ i.account = payments[e].account
          /\ LET key == LookupKey(payments[e]) IN NamesReference(key, i) \/ NamesNumber(key, i)
      BY <3>2, FoundIsNamed
    <3>4. payments[e] = Meant(t) /\ IsAlong(t.along) /\ t.contract \notin ClassicAssets
      BY <2>1, <2>5, IntentMeant DEF TypeInv, PaymentsType
    <3>5. /\ payments[e].account = t.to
          /\ payments[e].reference = MeantReference(t.along)
          /\ payments[e].asset = IF t.asset = None THEN t.contract ELSE t.asset
      BY <3>4 DEF Meant
    <3>6. i.asset \in ClassicAssets
      BY <3>3 DEF TypeInv, InvoicesType
    <3>7. i.asset = t.asset
      BY <3>1, <3>4, <3>5, <3>6
    <3>8. Names(t.along, i)
      BY <3>3, <3>4, <3>5, KeyNames
    <3> QED BY <3>1, <3>3, <3>5, <3>7, <3>8
  <2> QED BY <2>1, <2>3, <2>4, <2>5 DEF MatchInv, Matched, IsIntent
<1>2. ASSUME NEW a \in Accounts, RecordPayment(a)
      PROVE  MatchInv'
  <2>1. \A f \in Events : payments[f] # None => payments'[f] # None
    BY <1>2 DEF RecordPayment, TypeInv, PaymentsType
  <2>2. UNCHANGED <<invoices, chain, outcome>>
    BY <1>2 DEF RecordPayment, invoiceVars
  <2> QED BY <2>1, <2>2 DEF MatchInv, Matched, IsIntent
<1>3. ASSUME NEW k \in Clerks, InsertInvoice(k)
      PROVE  MatchInv'
  <2>1. invoices \subseteq invoices'
    BY <1>3 DEF InsertInvoice
  <2>2. UNCHANGED <<chain, payments, outcome>>
    BY <1>3 DEF InsertInvoice, streamVars
  <2> QED BY <2>1, <2>2 DEF MatchInv, Matched, IsIntent
<1>4. ASSUME Transact
      PROVE  MatchInv'
  <2>1. UNCHANGED <<invoices, payments, outcome>>
    BY <1>4 DEF Transact, streamVars, invoiceVars
  <2>2. \A e \in 1 .. Len(chain) : chain'[e] = chain[e]
    BY <1>4, ChainGrows DEF TypeInv
  <2>3. \A e \in Events : payments[e] # None => e \in 1 .. Len(chain) /\ e \in DOMAIN chain
    BY DEF TypeInv, PaymentsType, ChainType
  <2>4. \A e \in Events : payments[e] # None /\ IsIntent(e)' =>
          IsIntent(e) /\ chain'[e] = chain[e]
    BY <2>2, <2>3 DEF IsIntent
  <2> QED BY <2>1, <2>4 DEF MatchInv, Matched
<1>5. UNCHANGED <<invoices, chain, payments, outcome>> => MatchInv'
  BY DEF MatchInv, Matched, IsIntent
<1> QED
  BY <1>1, <1>2, <1>3, <1>4, <1>5
  DEF Next, vars, invoiceVars, streamVars, AddAccount, RemoveAccount, StoreRow, FailPayment,
      SaveCursor, Register, Unregister, TypeCommand, CheckWatched, Leave

(* No payment that was meant is matched to an invoice that its payer did   *)
(* not name, on another account or in another asset, whatever references   *)
(* and numbers invoices have.                                              *)
THEOREM MatchesNamed == Spec => []MatchedToNamed
<1>1. Init => MatchInv
  BY DEF Init, MatchInv, Matched
<1>2. MatchInv => MatchedToNamed
  BY DEF MatchInv, Matched, MatchedToNamed
<1> QED BY <1>1, <1>2, MatchNext, TypeInvAlways, PTL DEF Spec


-----------------------------------------------------------------------------
(* References come first.                                                  *)

(* The reference of an invoice, given by a payer, is in the payment's key. *)
LEMMA KeyOfReference ==
  ASSUME TypeInv, NEW e \in Events, IsIntent(e), payments[e] # None,
         NEW i \in invoices, i.reference = NamedReference(e)
  PROVE  LookupKey(payments[e]).reference = i.reference /\ i.reference # None
<1> DEFINE along == chain[e].intent.along
           payment == payments[e]
           r == i.reference
<1>1. payment.reference = MeantReference(along) /\ IsAlong(along)
  <2>1. payment = Meant(chain[e].intent) /\ IsAlong(along)
    BY IntentMeant DEF TypeInv, PaymentsType
  <2> QED BY <2>1 DEF Meant
<1>2. r # None /\ r \in Int /\ r <= I64Max
  <2>1. r \in FirstReference .. MaxReference
    BY BillingAssumption DEF TypeInv, InvoicesType
  <2> HIDE DEF r
  <2> QED BY <2>1, NoneAssumption, BillingAssumption, MatchRulesAssumption
<1>3. along # None
  BY <1>2 DEF NamedReference
<1>4. payment.reference # None
  BY <1>1, <1>3, IntentMeant
<1>5. CASE DOMAIN along = {"u64"}
  <2> DEFINE text == DisplayInt(along.u64)
  <2>1. along.u64 = r
    BY <1>3, <1>5 DEF NamedReference, Is
  <2>2. payment.reference = [type |-> "id", value |-> text]
    BY <1>1, <1>3, <1>5 DEF MeantReference, Is
  <2>3. payment.reference.type = "id" /\ payment.reference.value = text
    BY <2>2
  <2>4. IsText(text) /\ text.word = "" /\ text.number = r
    BY <2>1 DEF IsText, DisplayInt, Text
  <2>5. Trim(text).word = "" /\ Trim(text).number = r
    BY <2>4, TrimText
  <2>6. ParseI64(Trim(text)) = r
    BY <1>2, <2>5 DEF ParseI64, ParsesAsI64
  <2>7. LookupKey(payment) = [NoKey EXCEPT !.reference = ParseI64(Trim(text))]
    BY <1>4, <2>3 DEF LookupKey
  <2> QED BY <1>2, <2>6, <2>7 DEF NoKey
<1>6. CASE DOMAIN along = {"string"} /\ IsText(along.string)
  <2> DEFINE value == Trim(along.string)
  <2>1. along.string.word = "" /\ along.string.number = r
    BY <1>2, <1>3, <1>6 DEF NamedReference, Is
  <2>2. payment.reference = [type |-> "text", value |-> along.string]
    BY <1>1, <1>3, <1>6 DEF MeantReference, Is
  <2>3. payment.reference.type = "text" /\ payment.reference.value = along.string
    BY <2>2
  <2>4. value.word = "" /\ value.number = r
    BY <1>6, <2>1, TrimText
  <2>5. value # Text("", None)
    <3>1. Text("", None).number = None
      BY DEF Text
    <3> QED BY <1>2, <2>4, <3>1
  <2>6. ParseI64(value) = r
    BY <1>2, <2>4 DEF ParseI64, ParsesAsI64
  <2>7. LookupKey(payment) = TextKey(value)
    BY <1>4, <2>3, <2>5 DEF LookupKey
  <2> QED BY <1>2, <2>6, <2>7 DEF TextKey
<1>7. CASE DOMAIN along = {"bytes"}
  BY <1>2, <1>3, <1>7 DEF NamedReference, Is
<1> QED BY <1>1, <1>3, <1>5, <1>6, <1>7 DEF IsAlong

(* The invoice of a payer's reference gets the payment, also when the text *)
(* of the reference is the number of another.                              *)
THEOREM ReferencesFirst == Spec => ReferenceFirst
<1>1. ASSUME TypeInv, Next, NEW e \in Events, outcome'[e] # outcome[e], NEW i \in invoices,
             i.reference = NamedReference(e), i.account = payments[e].account,
             i.asset = payments[e].asset
      PROVE  outcome'[e] = [invoice |-> i.reference]
  <2> DEFINE payment == payments[e]
             key == LookupKey(payment)
             found == FindInvoice(invoices, payment)
  <2>1. Match(e)
    <3>1. ASSUME NEW f \in Events, Match(f), f # e PROVE FALSE
      BY <1>1, <3>1 DEF Match, TypeInv
    <3> QED
      BY <1>1, <3>1
      DEF Next, AddAccount, RemoveAccount, StoreRow, RecordPayment, FailPayment, SaveCursor,
          Register, Unregister, TypeCommand, CheckWatched, InsertInvoice, Leave, Transact
  <2>2. payments[e] # None
    BY <2>1 DEF Match
  <2>3. i.reference # None /\ i # None
    <3>1. i.reference \in FirstReference .. MaxReference
      BY <1>1, BillingAssumption DEF TypeInv, InvoicesType
    <3> QED BY <1>1, <3>1, NoneAssumption DEF TypeInv, InvoicesType
  <2>4. IsIntent(e)
    BY <1>1, <2>3 DEF NamedReference
  <2>5. key.reference = i.reference
    BY <1>1, <2>2, <2>4, KeyOfReference
  <2>6. i \in found
    BY <1>1, <2>3, <2>5 DEF FindInvoice, Preferred, NamesReference
  <2>7. \A j \in found : j \in invoices /\ j.reference = i.reference
    BY <1>1, <2>3, <2>5 DEF FindInvoice, Preferred, NamesReference
  <2>8. \A j \in found : j = i
    BY <1>1, <2>7 DEF TypeInv, InvoicesType
  <2>9. outcome'[e] = Decide(payment, i)
    BY <1>1, <2>1, <2>6, <2>8 DEF Match, TypeInv
  <2>10. key # NoKey
    BY <2>3, <2>5 DEF NoKey
  <2> QED BY <1>1, <2>3, <2>9, <2>10 DEF Decide
<1>2. TypeInv /\ [Next]_vars =>
        [\A e \in Events : outcome'[e] # outcome[e] =>
           \A i \in invoices : /\ i.reference = NamedReference(e)
                               /\ i.account = payments[e].account
                               /\ i.asset = payments[e].asset
                               => outcome'[e] = [invoice |-> i.reference]]_vars
  BY <1>1
<1> QED BY <1>2, TypeInvAlways, PTL DEF Spec, ReferenceFirst
=============================================================================
