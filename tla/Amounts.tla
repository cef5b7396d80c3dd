------------------------------ MODULE Amounts ------------------------------
(***************************************************************************)
(* Amounts as typed and as shown: parse_amount and format_amount of        *)
(* reconcile/src/stellar.rs.  Units are integers, the asset's smallest; an *)
(* i128 is scaled to I128Max.                                              *)
(*                                                                         *)
(* A text is what the properties tell apart of it: its digits before and   *)
(* after the point, whether there is a point, and whether anything else    *)
(* (a sign, a letter, a second point) is in it.  Spaces around it are      *)
(* trimmed and left out.                                                   *)
(*                                                                         *)
(* A definition marked "mutant" is no part of the model: it is a plausible *)
(* slip in the definition after it, and the project checks that putting it *)
(* there violates a property.                                              *)
(***************************************************************************)
EXTENDS Integers, Sequences

CONSTANTS Decimals,   \* CLASSIC_DECIMALS
          I128Max     \* i128::MAX

ASSUME AmountsAssumption ==
  /\ Decimals \in Nat \ {0}
  /\ I128Max \in Nat \ {0}

AmountText == [whole : Seq(0 .. 9), point : BOOLEAN, frac : Seq(0 .. 9), other : BOOLEAN]

(* 10^n. *)
Power[n \in Nat] == IF n = 0 THEN 1 ELSE 10 * Power[n - 1]

Scale == Power[Decimals]

(* The number a row of digits stands for. *)
NumberOf[digits \in Seq(0 .. 9)] ==
  IF digits = <<>> THEN 0
  ELSE 10 * NumberOf[SubSeq(digits, 1, Len(digits) - 1)] + digits[Len(digits)]

(* mutant: the fraction is parsed as it is typed *)
Unpadded(frac) == frac

(* format!("{frac:0<7}") *)
Padded(frac) == [i \in 1 .. Decimals |-> IF i <= Len(frac) THEN frac[i] ELSE 0]

(* Some digits, and a fraction when there is a point. *)
WellFormed(text) == ~text.other /\ text.whole # <<>> /\ (text.point <=> text.frac # <<>>)

Units(text) == NumberOf[text.whole] * Scale + NumberOf[Padded(text.frac)]

(* parse_amount is Ok. *)
Parses(text) == /\ WellFormed(text)
                /\ Len(text.frac) <= Decimals
                /\ NumberOf[text.whole] <= I128Max
                /\ Units(text) <= I128Max
                /\ Units(text) # 0

(* The decimal digits of n. *)
DigitsOf[n \in Nat] == IF n < 10 THEN <<n>> ELSE Append(DigitsOf[n \div 10], n % 10)

(* The digits of n, in exactly Decimals places. *)
Places(n) == [i \in 1 .. Decimals |-> (n \div Power[Decimals - i]) % 10]

(* No amount that is shown is negative: the tables refuse them. *)
FormatAmount(units) ==
  [whole |-> DigitsOf[units \div Scale], point |-> TRUE, frac |-> Places(units % Scale),
   other |-> FALSE]

-----------------------------------------------------------------------------
(* What a text means, without units: all its digits over a power of ten.   *)

Numerator(text) == NumberOf[text.whole \o text.frac]
Denominator(text) == Power[Len(text.frac)]

SameAmount(s, t) == Numerator(s) * Denominator(t) = Numerator(t) * Denominator(s)

(* Texts that should be accepted: positive, in whole units, within i128.   *)
Representable(text) ==
  /\ WellFormed(text)
  /\ Len(text.frac) <= Decimals
  /\ Numerator(text) > 0
  /\ Numerator(text) * Power[Decimals - Len(text.frac)] <= I128Max
=============================================================================
