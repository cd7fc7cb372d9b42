------------------------------- MODULE Ledger -------------------------------
(***************************************************************************)
(* One Blockchain object of src/src/core/blockchain.py: construction with  *)
(* a mined genesis block, add_data buffering a payload, mine_pending       *)
(* draining the buffer into one new mined block.  All three are            *)
(* synchronous methods, so each is one atomic step.                        *)
(***************************************************************************)
EXTENDS LedgerOps

CONSTANTS
    Payload,     \* the opaque payload dicts a caller may add
    MaxBlocks,   \* model bound on the length of the chain
    MaxPending   \* model bound on the length of the pending buffer

ASSUME LedgerBoundsAssumption ==
    /\ MaxBlocks \in Nat \ {0}
    /\ MaxPending \in Nat

VARIABLES
    chain,    \* Blockchain.chain: sequence of block records
    pending,  \* Blockchain.pending_data: payloads not yet mined
    added     \* history: every payload ever passed to add_data, in order

vars == <<chain, pending, added>>

(* Mutation: the constructor forgets to append the genesis block.        *)
InitNoGenesis ==
    /\ chain = <<>>
    /\ pending = <<>>
    /\ added = <<>>

(* Blockchain.__init__ and _create_genesis_block: a genesis block at       *)
(* index 0 with previous_hash "0" * 64, mined, is the whole chain.         *)
Init ==
    /\ \E n \in 0..MaxNonce :
          /\ IsMinedNonce(0, GenesisData, ZeroHash, n)
          /\ chain = <<MinedBlock(0, GenesisData, ZeroHash, n)>>
    /\ pending = <<>>
    /\ added = <<>>

(* Blockchain.add_data: append to the pending buffer, nothing else.        *)
AddData(p) ==
    /\ Len(pending) < MaxPending
    /\ pending' = Append(pending, p)
    /\ added' = Append(added, p)
    /\ UNCHANGED chain

(* Mutation: mine_pending appends the block but never clears the buffer.  *)
MinePendingNoClear ==
    /\ pending # <<>>
    /\ Len(chain) < MaxBlocks
    /\ \E n \in 0..MaxNonce :
          LET data == [messages |-> pending]
              prev == LatestBlock(chain).hash
          IN  /\ IsMinedNonce(Len(chain), data, prev, n)
              /\ chain' = Append(chain, MinedBlock(Len(chain), data, prev, n))
    /\ UNCHANGED <<pending, added>>

(* Mutation: the empty-buffer early return is missing.                     *)
MinePendingEmptyOK ==
    /\ Len(chain) < MaxBlocks
    /\ \E n \in 0..MaxNonce :
          LET data == [messages |-> pending]
              prev == LatestBlock(chain).hash
          IN  /\ IsMinedNonce(Len(chain), data, prev, n)
              /\ chain' = Append(chain, MinedBlock(Len(chain), data, prev, n))
    /\ pending' = <<>>
    /\ UNCHANGED added

(* Blockchain.mine_pending with a non-empty buffer: a block at index       *)
(* len(chain) holding a copy of the buffer, linked to the latest block's   *)
(* hash and mined, is appended; then the buffer is cleared.  With an empty *)
(* buffer the method returns None and changes nothing (a stutter).         *)
MinePending ==
    /\ pending # <<>>
    /\ Len(chain) < MaxBlocks
    /\ \E n \in 0..MaxNonce :
          LET data == [messages |-> pending]
              prev == LatestBlock(chain).hash
          IN  /\ IsMinedNonce(Len(chain), data, prev, n)
              /\ chain' = Append(chain, MinedBlock(Len(chain), data, prev, n))
    /\ pending' = <<>>
    /\ UNCHANGED added

Next ==
    \/ \E p \in Payload : AddData(p)
    \/ MinePending

Spec == Init /\ [][Next]_vars

-----------------------------------------------------------------------------
Log == INSTANCE LedgerLog WITH batches <- Batches(chain), buffer <- pending

(* The Blockchain implements the ledger's promise: every step of add_data  *)
(* or mine_pending is an Add or a Commit of the abstract log, so blocks    *)
(* are never rewritten or reordered, each new block holds exactly the      *)
(* drained buffer, and no block is mined from an empty buffer.             *)
LogRefinement == Log!Spec

(* Every block is a record whose index and nonce are naturals and whose   *)
(* data is the genesis data or a "messages" list of payloads; hashes are   *)
(* values of the ideal hash and are left untyped.                          *)
TypeOK ==
    /\ chain \in Seq(Range(chain))
    /\ Len(chain) >= 1
    /\ \A i \in 1..Len(chain) : IsBlock(chain[i], Payload)
    /\ pending \in Seq(Payload)
    /\ added \in Seq(Payload)

(* Blockchain.is_chain_valid holds of every chain the object can reach    *)
(* through its own methods: each mined block recomputes, links to the      *)
(* latest block it was appended after, and meets the target.               *)
ChainValid == IsChainValid(chain)

(* No payload is lost, duplicated or reordered between add_data,           *)
(* mine_pending's copy-then-clear and get_messages: the mined entries      *)
(* followed by the pending ones are exactly the payloads added, in order.  *)
EntriesPreserved == GetMessages(chain) \o pending = added

=============================================================================
