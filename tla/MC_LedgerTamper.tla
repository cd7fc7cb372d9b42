--------------------------- MODULE MC_LedgerTamper ---------------------------
(* A LedgerTamper instance for TLC.                                         *)
EXTENDS LedgerTamper

(* The same stand-in for SHA-256's leading zeros as MC_Ledger.             *)
MCLeadingZeros(h) == (h[1] + 2 * h[4]) % 3
=============================================================================
