---------------------------- MODULE MatchRules -----------------------------
(***************************************************************************)
(* Which invoice a payment is for: lookup_key and decide of                *)
(* reconcile/src/rules.rs, find_invoice of engine.rs.  A payment is what   *)
(* PaymentSink records (Transfers.tla), an invoice what find_invoice       *)
(* selects: [reference, number, account, asset].  Cancelled invoices are   *)
(* in Reconciler.tla.                                                      *)
(***************************************************************************)
EXTENDS Transfers

CONSTANT I64Max   \* i64::MAX; muxed ids are u64 and go further

ASSUME MatchRulesAssumption == I64Max \in Nat

Trim(text) == [text EXCEPT !.padded = FALSE]
Lower(text) == [text EXCEPT !.capitals = FALSE]

(* str::parse::<i64> is Ok *)
ParsesAsI64(text) == text.word = "" /\ text.number # None /\ text.number <= I64Max

ParseI64(text) == IF ParsesAsI64(text) THEN text.number ELSE None

NoKey == [reference |-> None, number |-> None]

(* mutant: a memo text is never a reference *)
TextKeyNumberOnly(value) == [reference |-> None, number |-> value]

TextKey(value) == [reference |-> ParseI64(value), number |-> value]

(* lookup_key; it is None when neither is there. *)
LookupKey(payment) ==
  IF payment.reference = None THEN NoKey
  ELSE LET value == Trim(payment.reference.value) IN
       CASE payment.reference.type = "id" -> [NoKey EXCEPT !.reference = ParseI64(value)]
         [] payment.reference.type = "text" /\ value # Text("", None) -> TextKey(value)
         [] OTHER -> NoKey

NamesReference(key, invoice) == key.reference # None /\ invoice.reference = key.reference

NamesNumber(key, invoice) ==
  key.number # None /\ Lower(invoice.number) = Lower(key.number)

(* mutant: order by is left out *)
FirstNamed(key, named) == named

(* order by (reference = $2) is true desc *)
Preferred(key, named) ==
  LET byReference == {i \in named : NamesReference(key, i)} IN
  IF byReference # {} THEN byReference ELSE named

(* find_invoice: limit 1 takes any of these. *)
FindInvoice(invoices, payment) ==
  LET key == LookupKey(payment)
      named == {i \in invoices : /\ i.account = payment.account
                                 /\ NamesReference(key, i) \/ NamesNumber(key, i)} IN
  Preferred(key, named)

(* mutant: the asset is not compared *)
DecideAnyAsset(payment, invoice) ==
  CASE LookupKey(payment) = NoKey -> [reason |-> "no_reference"]
    [] LookupKey(payment) # NoKey /\ invoice = None -> [reason |-> "no_invoice"]
    [] OTHER -> [invoice |-> invoice.reference]

(* decide: the invoice, by its reference, or why there is none. *)
Decide(payment, invoice) ==
  CASE LookupKey(payment) = NoKey -> [reason |-> "no_reference"]
    [] LookupKey(payment) # NoKey /\ invoice = None -> [reason |-> "no_invoice"]
    [] LookupKey(payment) # NoKey /\ invoice # None /\ invoice.asset # payment.asset ->
         [reason |-> "asset_mismatch"]
    [] OTHER -> [invoice |-> invoice.reference]
=============================================================================
