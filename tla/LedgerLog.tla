------------------------------ MODULE LedgerLog ------------------------------
(***************************************************************************)
(* What the ledger promises (specification, section 4): an append-only     *)
(* sequence of batches and a buffer.  add appends a payload to the buffer; *)
(* mine_pending, when the buffer is non-empty, appends the whole buffer as *)
(* one batch and empties it.  Batches are never removed, reordered or      *)
(* changed, and no batch is empty.                                         *)
(***************************************************************************)
EXTENDS Sequences

CONSTANT Payload

VARIABLES
    batches,  \* the mined batches, one per non-genesis block, in chain order
    buffer    \* the payloads not yet mined

Init ==
    /\ batches = <<>>
    /\ buffer = <<>>

Add(p) ==
    /\ buffer' = Append(buffer, p)
    /\ UNCHANGED batches

Commit ==
    /\ buffer # <<>>
    /\ batches' = Append(batches, buffer)
    /\ buffer' = <<>>

Next == (\E p \in Payload : Add(p)) \/ Commit

Spec == Init /\ [][Next]_<<batches, buffer>>

=============================================================================
