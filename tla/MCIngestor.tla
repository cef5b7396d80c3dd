----------------------------- MODULE MCIngestor -----------------------------
(* Ingestor on small instances, pages of two: four events, the first before *)
(* the account was added and the others in one ledger; or three in two.     *)
EXTENDS Ingestor

MCLedger == <<1, 3, 3, 3>>
MCLateLedger == <<2, 3, 3>>
=============================================================================
