------------------------------ MODULE Billing ------------------------------
(***************************************************************************)
(* From `stardex invoices add` to the matched invoice: the commands that   *)
(* create invoices and change the two registries (cli/src/main.rs and      *)
(* invoices.rs), the account streams' sinks as PgFactory builds them, and  *)
(* the engine's decision, over the operators of Transfers, MatchRules and  *)
(* Amounts.                                                                *)
(*                                                                         *)
(* Other modules have what is a single step here: a stream's pages, cursor *)
(* and restarts (Ingestor), which streams run (Supervisor), and the        *)
(* transactions of the engine, its batches and its 30 days (Reconciler).   *)
(*                                                                         *)
(* A definition marked "mutant" is no part of the model.                   *)
(***************************************************************************)
EXTENDS MatchRules, Amounts, SequencesExt

CONSTANTS
  Accounts,        \* G... addresses that may be watched
  Contracts,       \* contracts that users may register
  Clerks,          \* processes running `stardex invoices add`
  Commands,        \* what clerks type: [account, asset, amount, number]
  ClassicAssets,   \* assets validate_asset accepts
  Chains,          \* what may happen on the chain: sequences of Intended and Stray events
  FirstReference,  \* where invoice_reference_seq starts
  MaxReference,    \* bound: references handed out
  MaxEvents        \* bound: the length of `Chains`

Events == 1 .. MaxEvents

EventOf(i) == Emitted(i.from, i.to, i.contract, i.asset, i.amount, i.along)

(* A transfer somebody means, and the event of a contract that emits what  *)
(* it likes: as `chain` has them.                                          *)
Intended(i) == [event |-> EventOf(i), intent |-> i]
Stray(event) == [event |-> event, intent |-> None]

(* invoice numbers default to INV-<reference> *)
DefaultNumber(reference) == [Text("inv-", reference) EXCEPT !.capitals = TRUE]

(* mutant: the default is left out *)
NumberAsTyped(command, reference) == command.number

(* coalesce($1, 'INV-' || reference) *)
NumberGiven(command, reference) ==
  IF command.number = None THEN DefaultNumber(reference) ELSE command.number

(* The row of an invoice. *)
InvoiceOf(command, reference) ==
  [reference |-> reference, number |-> NumberGiven(command, reference),
   account |-> command.account, asset |-> command.asset]

IsText(t) == t = [word |-> t.word, number |-> t.number, capitals |-> t.capitals,
                  padded |-> t.padded]

(* What may come along with a transfer. *)
IsAlong(along) ==
  along # None => \/ DOMAIN along = {"u64"}
                  \/ DOMAIN along = {"bytes"}
                  \/ DOMAIN along = {"string"} /\ IsText(along.string)

ASSUME BillingAssumption ==
  /\ MaxReference \in Nat /\ FirstReference \in 1 .. MaxReference
  /\ MaxReference <= I64Max
  /\ MaxEvents \in Nat
  /\ \A command \in Commands : command.account \in Accounts /\ command.amount \in AmountText

(* Amounts that people send are positive, and no contract's address is a   *)
(* classic asset.                                                          *)
ASSUME ChainsAssumption ==
  \A c \in Chains :
    /\ c \in Seq({c[n] : n \in DOMAIN c}) /\ Len(c) <= MaxEvents
    /\ \A n \in DOMAIN c :
         \/ c[n] = Stray(c[n].event)
         \/ /\ c[n] = Intended(c[n].intent) /\ c[n].intent # None
            /\ c[n].intent.amount \in Nat /\ IsAlong(c[n].intent.along)
            /\ c[n].intent.contract \notin ClassicAssets

(* None is nothing else: no payment, memo, reference, number or invoice.   *)
ASSUME NoneAssumption ==
  /\ \A c \in Chains : \A n \in DOMAIN c :
       /\ Decodes(c[n].event) => PaymentOf(c[n].event) # None
       /\ c[n].intent # None /\ c[n].intent.along # None => AsMuxedId(c[n].intent.along) # None
  /\ \A r \in FirstReference .. MaxReference :
       /\ r # None /\ DefaultNumber(r) # None
       /\ \A command \in Commands : InvoiceOf(command, r) # None

VARIABLES
  accounts, contracts,   \* the registries: each row's active flag, "absent" when no row
  nextReference,         \* invoice_reference_seq
  invoices,              \* [reference, number, account, asset]
  clerk,                 \* per clerk: how far its command got
  chain,                 \* the events so far, each with what its payer meant
  cursor,                \* per account stream: the position it saved
  past,                  \* per account stream: the position it reached
  half,                  \* account streams between the two sinks of their TeeSink
  rows,                  \* per event: its rows in `events`, equal ones as one
  payments,              \* per event: its row in `payments`
  outcome,               \* per event: match_status and unmatched_reason
  registered             \* history: contracts the user last registered

registryVars == <<accounts, contracts, registered>>
invoiceVars == <<nextReference, invoices, clerk>>
streamVars == <<cursor, past, half, rows, payments>>
vars == <<registryVars, invoiceVars, chain, streamVars, outcome>>

Init ==
  /\ accounts = [a \in Accounts |-> "absent"]
  /\ contracts = [c \in Contracts |-> "absent"]
  /\ registered = {}
  /\ nextReference = FirstReference
  /\ invoices = {}
  /\ clerk = [k \in Clerks |-> [at |-> "idle"]]
  /\ chain = <<>>
  /\ cursor = [a \in Accounts |-> 0]
  /\ past = [a \in Accounts |-> 0]
  /\ half = {}
  /\ rows = [e \in Events |-> {}]
  /\ payments = [e \in Events |-> None]
  /\ outcome = [e \in Events |-> None]

-----------------------------------------------------------------------------
(* The registries.                                                         *)

(* stardex accounts add: the first one remembers the tip, whose ledger may  *)
(* hold some of the last events; a later one takes up the saved cursor.     *)
AddAccount(a) ==
  /\ accounts[a] # "active"
  /\ accounts' = [accounts EXCEPT ![a] = "active"]
  /\ IF accounts[a] = "absent"
       THEN \E start \in 0 .. Len(chain) :
              /\ cursor' = [cursor EXCEPT ![a] = start]
              /\ past' = [past EXCEPT ![a] = start]
       ELSE UNCHANGED <<cursor, past>>
  /\ UNCHANGED <<contracts, registered, invoiceVars, chain, half, rows, payments,
                 outcome>>

(* The stream stops wherever it is; when it starts again, at its cursor.   *)
StopShort(a) ==
  /\ past' = [past EXCEPT ![a] = cursor[a]]
  /\ half' = half \ {a}

(* stardex accounts remove, and the supervisor that aborts the stream. *)
RemoveAccount(a) ==
  /\ accounts[a] = "active"
  /\ accounts' = [accounts EXCEPT ![a] = "inactive"]
  /\ StopShort(a)
  /\ UNCHANGED <<contracts, registered, invoiceVars, chain, cursor, rows, payments,
                 outcome>>

(* stardex add, stardex remove. *)
Register(c) ==
  /\ contracts' = [contracts EXCEPT ![c] = "active"]
  /\ registered' = registered \cup {c}
  /\ UNCHANGED <<accounts, invoiceVars, chain, streamVars, outcome>>

Unregister(c) ==
  /\ contracts[c] # "absent"
  /\ contracts' = [contracts EXCEPT ![c] = "inactive"]
  /\ registered' = registered \ {c}
  /\ UNCHANGED <<accounts, invoiceVars, chain, streamVars, outcome>>

-----------------------------------------------------------------------------
(* stardex invoices add: the account is read before the invoice is         *)
(* inserted, and may be removed in between.                                *)

(* parse_amount, then validate_asset. *)
TypeCommand(k) ==
  /\ clerk[k].at = "idle"
  /\ \E command \in Commands :
       clerk' = [clerk EXCEPT ![k] =
         [at |-> IF Parses(command.amount) /\ command.asset \in ClassicAssets
                   THEN "watched" ELSE "refused",
          command |-> command]]
  /\ UNCHANGED <<registryVars, nextReference, invoices, chain, streamVars, outcome>>

(* select active from accounts *)
CheckWatched(k) ==
  /\ clerk[k].at = "watched"
  /\ clerk' = [clerk EXCEPT ![k] =
       IF accounts[clerk[k].command.account] = "active"
         THEN [clerk[k] EXCEPT !.at = "insert"] ELSE [at |-> "idle"]]
  /\ UNCHANGED <<registryVars, nextReference, invoices, chain, streamVars, outcome>>

(* The insert: the sequence moves on even when the number is taken.  The   *)
(* clerk's screen then shows how to pay.                                   *)
InsertInvoice(k) ==
  LET command == clerk[k].command
      invoice == InvoiceOf(command, nextReference)
      units == Units(command.amount) IN
  /\ clerk[k].at = "insert"
  /\ nextReference <= MaxReference
  /\ nextReference' = nextReference + 1
  /\ IF \E i \in invoices : i.number = invoice.number
       THEN /\ clerk' = [clerk EXCEPT ![k] = [at |-> "idle"]]
            /\ UNCHANGED invoices
       ELSE /\ invoices' = invoices \cup {invoice}
            /\ clerk' = [clerk EXCEPT ![k] =
                 [at |-> "shown", command |-> command, amount |-> FormatAmount(units)]]
  /\ UNCHANGED <<registryVars, chain, streamVars, outcome>>

(* The command ends: done, refused, or killed on the way. *)
Leave(k) ==
  /\ clerk[k].at # "idle"
  /\ clerk' = [clerk EXCEPT ![k] = [at |-> "idle"]]
  /\ UNCHANGED <<registryVars, nextReference, invoices, chain, streamVars, outcome>>

-----------------------------------------------------------------------------
(* The chain.                                                              *)

Transact ==
  /\ \E c \in Chains : /\ IsStrictPrefix(chain, c)
                      /\ chain' = SubSeq(c, 1, Len(chain) + 1)
  /\ UNCHANGED <<registryVars, invoiceVars, streamVars, outcome>>

-----------------------------------------------------------------------------
(* The account streams: a TeeSink of DecodingSink and PaymentSink.         *)

(* What the stream is served next: the first event of its filter that it   *)
(* has not handled, and none when it is at the tip.                        *)
Upcoming(a) ==
  {e \in past[a] + 1 .. Len(chain) :
     /\ TransfersTo(a, chain[e].event)
     /\ \A f \in past[a] + 1 .. e - 1 : ~TransfersTo(a, chain[f].event)}

(* mutant: the row takes the column's default *)
SeenActive(c) == IF contracts[c] = "absent" THEN "active" ELSE contracts[c]

(* insert into contracts ... false ... on conflict do nothing *)
Seen(c) == IF contracts[c] = "absent" THEN "inactive" ELSE contracts[c]

(* DecodingSink::handle, with PostgresEventStore::store. *)
StoreRow(a) ==
  /\ accounts[a] = "active" /\ a \notin half
  /\ \E e \in Upcoming(a) :
       /\ contracts' = [c \in Contracts |->
                          IF c = chain[e].event.contract THEN Seen(c) ELSE contracts[c]]
       /\ rows' = [rows EXCEPT ![e] = @ \cup {EventRow(chain[e].event)}]
  /\ half' = half \cup {a}
  /\ UNCHANGED <<accounts, registered, invoiceVars, chain, cursor, past, payments, outcome>>

(* check (amount >= 0) *)
Refused(a, event) == Pays(a, event) /\ PaymentOf(event).amount < 0

(* PaymentSink::handle: on conflict (event_id) do nothing. *)
RecordPayment(a) ==
  /\ accounts[a] = "active" /\ a \in half
  /\ \E e \in Upcoming(a) :
       /\ ~Refused(a, chain[e].event)
       /\ payments' = IF Pays(a, chain[e].event) /\ payments[e] = None
                        THEN [payments EXCEPT ![e] = PaymentOf(chain[e].event)] ELSE payments
       /\ past' = [past EXCEPT ![a] = e]
  /\ half' = half \ {a}
  /\ UNCHANGED <<registryVars, invoiceVars, chain, cursor, rows, outcome>>

(* The sink fails and the stream tries again, for as long as it takes. *)
FailPayment(a) ==
  /\ accounts[a] = "active" /\ a \in half
  /\ \E e \in Upcoming(a) : Refused(a, chain[e].event)
  /\ StopShort(a)
  /\ UNCHANGED <<registryVars, invoiceVars, chain, cursor, rows, payments, outcome>>

SaveCursor(a) ==
  /\ accounts[a] = "active" /\ a \notin half
  /\ cursor' = [cursor EXCEPT ![a] = past[a]]
  /\ UNCHANGED <<registryVars, invoiceVars, chain, past, half, rows, payments,
                 outcome>>

-----------------------------------------------------------------------------
(* The engine, by the passes over new payments and over those that named   *)
(* no invoice yet.                                                         *)

Match(e) ==
  /\ payments[e] # None
  /\ outcome[e] \in {None, [reason |-> "no_invoice"]}
  /\ LET found == FindInvoice(invoices, payments[e]) IN
     \E i \in IF found = {} THEN {None} ELSE found :
       outcome' = [outcome EXCEPT ![e] = Decide(payments[e], i)]
  /\ UNCHANGED <<registryVars, invoiceVars, chain, streamVars>>

Next ==
  \/ \E a \in Accounts : \/ AddAccount(a) \/ RemoveAccount(a)
                         \/ StoreRow(a) \/ RecordPayment(a) \/ FailPayment(a)
                         \/ SaveCursor(a)
  \/ \E c \in Contracts : Register(c) \/ Unregister(c)
  \/ \E k \in Clerks : \/ TypeCommand(k) \/ CheckWatched(k) \/ InsertInvoice(k) \/ Leave(k)
  \/ Transact
  \/ \E e \in Events : Match(e)

Spec == Init /\ [][Next]_vars

(* A stream that is watched goes on, whatever stopped it, and so does the  *)
(* engine.                                                                 *)
LiveSpec ==
  /\ Spec
  /\ \A a \in Accounts : WF_vars(StoreRow(a) \/ RecordPayment(a))
  /\ WF_vars(\E e \in Events : Match(e))

-----------------------------------------------------------------------------
(* Properties.                                                             *)

(* Every variable is of its type. *)
TypeOK ==
  /\ accounts \in [Accounts -> {"absent", "active", "inactive"}]
  /\ contracts \in [Contracts -> {"absent", "active", "inactive"}]
  /\ registered \subseteq Contracts
  /\ nextReference \in FirstReference .. MaxReference + 1
  /\ \A i \in invoices : /\ i.reference \in FirstReference .. nextReference - 1
                          /\ i.number # None
                          /\ i.account \in Accounts
                          /\ i.asset \in ClassicAssets
  /\ \A k \in Clerks : clerk[k].at \in {"idle", "watched", "insert", "shown", "refused"}
  /\ Len(chain) <= MaxEvents
  /\ cursor \in [Accounts -> 0 .. MaxEvents]
  /\ past \in [Accounts -> 0 .. MaxEvents]
  /\ half \subseteq Accounts
  /\ \A e \in Events : Cardinality(rows[e]) <= 1

(* What the payer meant, as a payment.  A muxed id or MEMO_ID is an id, a  *)
(* MEMO_TEXT a text, a MEMO_HASH a hash.                                   *)
MeantReference(along) ==
  CASE along = None -> None
    [] along # None /\ Is("u64", along) -> [type |-> "id", value |-> DisplayInt(along.u64)]
    [] along # None /\ Is("string", along) -> [type |-> "text", value |-> along.string]
    [] along # None /\ Is("bytes", along) -> [type |-> "hash", value |-> along.bytes]

Meant(i) == [account |-> i.to, from |-> i.from,
             asset |-> IF i.asset = None THEN i.contract ELSE i.asset,
             amount |-> i.amount, reference |-> MeantReference(i.along)]

IsIntent(e) == e \in DOMAIN chain /\ chain[e].intent # None

(* A payment row says what its payer meant, whatever the amount's halves   *)
(* on the wire and whatever came along; only a stray event can make a row  *)
(* nobody meant.  And a transfer whose row in `events` is written, on a    *)
(* stream that is past it, has its payment, through removals and restarts  *)
(* between the two sinks (payment_sink.rs, decode_transfer, TeeSink).      *)
RecordedAsSent ==
  \A e \in Events :
    /\ payments[e] # None /\ IsIntent(e) => payments[e] = Meant(chain[e].intent)
    /\ rows[e] # {} /\ IsIntent(e) =>
         LET i == chain[e].intent IN
         i.from # i.to /\ past[i.to] >= e => payments[e] # None

(* Does the memo or muxed id name the invoice, by its reference or, in any *)
(* case and with any spaces around it, by its number?                      *)
Names(along, i) ==
  /\ along # None
  /\ \/ Is("u64", along) /\ along.u64 = i.reference
     \/ Is("string", along) /\ along.string.word = "" /\ along.string.number = i.reference
     \/ Is("string", along) /\ Lower(Trim(along.string)) = Lower(i.number)

(* A payment is matched to an invoice its payer named, on the account and  *)
(* in the asset that were paid: never to another's whose number or         *)
(* reference looks like it (rules.rs, find_invoice).                       *)
MatchedToNamed ==
  \A e \in Events : outcome[e] # None /\ "invoice" \in DOMAIN outcome[e] /\ IsIntent(e) =>
    \E i \in invoices : /\ i.reference = outcome[e].invoice
                        /\ Names(chain[e].intent.along, i)
                        /\ i.account = chain[e].intent.to
                        /\ i.asset = chain[e].intent.asset

(* The reference that a payer gave as a muxed id, a MEMO_ID or a text of   *)
(* digits.                                                                 *)
NamedReference(e) ==
  IF ~IsIntent(e) \/ chain[e].intent.along = None THEN None
  ELSE LET along == chain[e].intent.along IN
       IF Is("u64", along) THEN along.u64
       ELSE IF Is("string", along) /\ along.string.word = "" THEN along.string.number ELSE None

(* The invoice of that reference gets the payment, even when the text is   *)
(* another's number (engine.rs:219).                                       *)
ReferenceFirst ==
  [][\A e \in Events : outcome'[e] # outcome[e] =>
       \A i \in invoices : /\ i.reference = NamedReference(e)
                           /\ i.account = payments[e].account
                           /\ i.asset = payments[e].asset
                           => outcome'[e] = [invoice |-> i.reference]]_vars

(* An amount is taken when it is a positive number of whole units that an  *)
(* i128 holds, and shown as the number that was typed (stellar.rs).        *)
AmountAsTyped ==
  \A k \in Clerks :
    /\ clerk[k].at = "shown" => /\ Representable(clerk[k].command.amount)
                                /\ SameAmount(clerk[k].amount, clerk[k].command.amount)
    /\ clerk[k].at = "refused" /\ clerk[k].command.asset \in ClassicAssets =>
         ~Representable(clerk[k].command.amount)

(* A contract is indexed when a user registered it, and only then: being   *)
(* paid in a token neither starts nor stops it, whichever comes first      *)
(* (postgres_event_store.rs:29-32).                                        *)
OnlyRegisteredIndexed == \A c \in Contracts : contracts[c] = "active" <=> c \in registered

(* Event e, still to be read, pays an invoice by its reference, and no     *)
(* invoice has that text for a number.                                     *)
Owed(e) ==
  /\ NamedReference(e) # None
  /\ \A i \in invoices : i.number # DisplayInt(NamedReference(e))
  /\ LET t == chain[e].intent IN
     \E i \in invoices : /\ i.reference = NamedReference(e)
                         /\ i.account = t.to /\ t.from # t.to /\ i.asset = t.asset
                         /\ past[i.account] < e

(* The account of event e is removed, or some event is one the tables      *)
(* refuse.                                                                 *)
Hindered(e) ==
  \E a \in Accounts : \/ /\ e \in DOMAIN chain /\ TransfersTo(a, chain[e].event)
                         /\ accounts[a] # "active"
                      \/ \E f \in DOMAIN chain : Refused(a, chain[f].event)

(* A transfer that pays an invoice and that the account's stream has still *)
(* to read is matched to it, unless the account is removed, or some event  *)
(* on the stream is refused: that one is tried for ever (lib.rs:254).      *)
EventuallyMatched ==
  \A e \in Events :
    Owed(e) ~> (outcome[e] = [invoice |-> NamedReference(e)] \/ Hindered(e))
=============================================================================
