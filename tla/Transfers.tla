----------------------------- MODULE Transfers -----------------------------
(***************************************************************************)
(* What becomes of one event: the filters of core/src/rpc.rs say which     *)
(* stream is served it, decode_transfer of decoders/src/lib.rs what it     *)
(* says, DecodingSink and PaymentSink what is written.  Also how the       *)
(* network emits a transfer (CAP-67), which is not in the repository.      *)
(*                                                                         *)
(* A RawEvent is [contract, topics, data] of ScVals.  An ScVal is a record *)
(* with one field, named for its type; text that is not XDR is of none of  *)
(* the types read here.  The keys of a map are symbols.  An Option is its  *)
(* value or None.                                                          *)
(*                                                                         *)
(* A text is what tells references apart: a word and a number behind it    *)
(* (either may be missing), whether its letters are capitals, and whether  *)
(* there are spaces around it.  Text that is not UTF-8 is left out.        *)
(***************************************************************************)
EXTENDS Integers, Sequences

CONSTANTS Half,   \* 2^64: an i128 travels as two halves
          None

ASSUME TransfersAssumption == Half \in Nat \ {0}

Text(word, number) == [word |-> word, number |-> number, capitals |-> FALSE, padded |-> FALSE]

(* Display of an integer. *)
DisplayInt(n) == Text("", n)

Is(type, value) == type \in DOMAIN value

-----------------------------------------------------------------------------
(* The network: the event of a transfer of `amount` from `from` to the     *)
(* base account `to`, with what came along: a muxed id, or else a memo.    *)

I128(n) == [i128 |-> [hi |-> n \div Half, lo |-> n % Half]]

TransferTopics(from, to) == <<[symbol |-> "transfer"], [address |-> from], [address |-> to]>>

(* Stellar Asset Contracts name their asset, custom tokens do not. *)
Emitted(from, to, contract, asset, amount, along) ==
  [contract |-> contract,
   topics |-> TransferTopics(from, to) \o IF asset = None THEN <<>> ELSE <<[string |-> asset]>>,
   data |-> IF along = None THEN I128(amount)
            ELSE [map |-> [amount |-> I128(amount), to_muxed_id |-> along]]]

-----------------------------------------------------------------------------
(* EventFilter: an account stream is served the events that fit the        *)
(* pattern [transfer, *, account, **].                                     *)

TransfersTo(account, event) ==
  /\ Len(event.topics) >= 3
  /\ Is("symbol", event.topics[1]) /\ event.topics[1].symbol = "transfer"
  /\ Is("address", event.topics[3]) /\ event.topics[3].address = account

-----------------------------------------------------------------------------
(* decode_transfer.                                                        *)

(* mutant: the low half is taken for a signed number *)
AsI128Signed(value) ==
  value.i128.hi * Half + IF 2 * value.i128.lo >= Half THEN value.i128.lo - Half
                                                      ELSE value.i128.lo

(* as_i128: hi << 64 | lo, with lo unsigned *)
AsI128(value) == value.i128.hi * Half + value.i128.lo

(* MuxedId: its kind and its value. *)
AsMuxedId(value) ==
  CASE Is("u64", value) -> [type |-> "id", value |-> DisplayInt(value.u64)]
    [] Is("string", value) -> [type |-> "text", value |-> value.string]
    [] Is("bytes", value) -> [type |-> "hash", value |-> value.bytes]

(* The muxed id or memo is missing, or of a type that is understood. *)
MuxedIdOk(map) ==
  "to_muxed_id" \in DOMAIN map =>
    \E type \in {"u64", "string", "bytes"} : Is(type, map.to_muxed_id)

(* decode_transfer is Some. *)
Decodes(event) ==
  LET topics == event.topics
      data == event.data IN
  /\ Len(topics) >= 3
  /\ Is("symbol", topics[1]) /\ topics[1].symbol = "transfer"
  /\ Is("address", topics[2]) /\ Is("address", topics[3])
  /\ Len(topics) >= 4 => Is("string", topics[4])
  /\ \/ Is("i128", data)
     \/ /\ Is("map", data)
        /\ "amount" \in DOMAIN data.map /\ Is("i128", data.map.amount)
        /\ MuxedIdOk(data.map)

DecodeTransfer(event) ==
  LET topics == event.topics
      data == event.data IN
  [from |-> topics[2].address,
   to |-> topics[3].address,
   asset |-> IF Len(topics) >= 4 THEN topics[4].string ELSE None,
   amount |-> IF Is("map", data) THEN AsI128(data.map.amount) ELSE AsI128(data),
   to_muxed_id |-> IF Is("map", data) /\ "to_muxed_id" \in DOMAIN data.map
                     THEN AsMuxedId(data.map.to_muxed_id) ELSE None]

-----------------------------------------------------------------------------
(* The sinks.                                                              *)

(* TokenDecoder, the one decoder registered. *)
TransferRow(event) ==
  [contract |-> event.contract, kind |-> "transfer", fields |-> DecodeTransfer(event)]

RawRow(event) == [contract |-> event.contract, kind |-> "raw",
                  fields |-> [topics |-> event.topics, data |-> event.data]]

(* DecodingSink: what no decoder knows is kept raw. *)
EventRow(event) == IF Decodes(event) THEN TransferRow(event) ELSE RawRow(event)

(* PaymentSink records this event. *)
Pays(account, event) ==
  /\ Decodes(event)
  /\ DecodeTransfer(event).to = account
  /\ DecodeTransfer(event).from # account

(* The Payment it records; a custom token is known by its contract.        *)
PaymentOf(event) ==
  LET transfer == DecodeTransfer(event) IN
  [account |-> transfer.to,
   from |-> transfer.from,
   asset |-> IF transfer.asset = None THEN event.contract ELSE transfer.asset,
   amount |-> transfer.amount,
   reference |-> transfer.to_muxed_id]
=============================================================================
