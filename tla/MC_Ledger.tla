------------------------------ MODULE MC_Ledger ------------------------------
(* A Ledger instance for TLC: two payloads, chains of up to three blocks.  *)
EXTENDS Ledger

(* A fixed stand-in for the number of leading zeros of SHA-256: it varies  *)
(* with the index and the nonce, so the mined nonce differs per block and  *)
(* some blocks need more than one mining iteration.                        *)
MCLeadingZeros(h) == (h[1] + 2 * h[4]) % 3
=============================================================================
