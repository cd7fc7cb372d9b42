------------------------------ MODULE MC_Engine ------------------------------
(* Engine instances for TLC: two honest nodes a and b, optionally a rogue  *)
(* peer g, with the directories each run names.                            *)
EXTENDS Engine

(* The stand-in for SHA-256's leading zeros used by MC_Ledger.             *)
MCLeadingZeros(h) == (h[1] + 2 * h[4]) % 3

(* Each honest node knows the other's signing and encryption keys.         *)
KnownMutual == [n \in Node |-> Node \ {n}]

(* a and b know each other and the rogue peer g, with all keys.            *)
KnownWithRogue == [n \in Node |-> (Node \ {n}) \cup Rogue]

(* a knows b's encryption key, but b's directory has no encryption key     *)
(* for a (a registered without one, or b's view is older).                 *)
EncOneWay == [n \in Node |-> IF n = "a" THEN {"b"} ELSE {}]

(* The message ids the bounded counters can produce: a send counter of an  *)
(* honest node never passes MaxSends, a rogue one never MaxForged.  TLC    *)
(* enumerates the ledger entries over these ids when it checks a step of   *)
(* a node's ledger against an Add of the abstract log.                     *)
MCMsgId == Peer \X (1..(MaxSends + MaxForged))
=============================================================================
