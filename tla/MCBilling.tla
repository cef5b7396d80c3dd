----------------------------- MODULE MCBilling -----------------------------
(* Billing on a small instance.  Two decimal places, an i128 of two and a  *)
(* half whole units, halves of 4, i64::MAX = 3.                            *)
EXTENDS Billing

CONSTANTS Hash, k1

Amount(whole, frac) == [whole |-> whole, point |-> frac # <<>>, frac |-> frac, other |-> FALSE]
Sign(text) == [text EXCEPT !.other = TRUE]

Command(amount, asset, number) ==
  [account |-> "A", asset |-> asset, amount |-> amount, number |-> number]

MCCommands ==
  {Command(Amount(<<0>>, <<0, 5>>), "usd", None),
   Command(Amount(<<2>>, <<5>>), "native", Text("", 2)),
   Command(Amount(<<1>>, <<>>), "native", [Text("inv-", 2) EXCEPT !.capitals = TRUE]),
   Command(Amount(<<1>>, <<>>), "T", None)}
  \cup
  {Command(a, "native", None) :
     a \in {Amount(<<2>>, <<5, 1>>), Amount(<<1>>, <<0, 0, 5>>)}}

(* To A from P, unless it says otherwise: in XLM, whose contract is X, or  *)
(* in the token of the contract T.                                         *)
Xlm(from, along) ==
  Intended([from |-> from, to |-> "A", contract |-> "X", asset |-> "native", amount |-> 3,
            along |-> along])
Token(along) ==
  Intended([from |-> "P", to |-> "A", contract |-> "T", asset |-> None, amount |-> 6,
            along |-> along])
ToA(data) == Stray([contract |-> "T", topics |-> TransferTopics("P", "A"), data |-> data])

Id(n) == [u64 |-> n]
Memo(text) == [string |-> text]
Number == Memo([Text("inv-", 2) EXCEPT !.padded = TRUE])

MCChains ==
  {<<ToA(I128(-1)), Xlm("P", Id(2))>>,             \* less than nothing
   <<ToA([u64 |-> 1]), Xlm("P", Id(1))>>,          \* no amount
   <<Xlm("A", Id(1)), Token(None)>>,               \* A pays itself
   <<Xlm("P", [bytes |-> Hash]), Xlm("P", Memo(Text("", 2)))>>,
   <<Xlm("P", Id(5)), Xlm("P", Number)>>}
=============================================================================
