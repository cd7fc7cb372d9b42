----------------------------- MODULE LedgerOps -----------------------------
(***************************************************************************)
(* Values and pure operators of the hash-chained ledger of                 *)
(* src/src/core/blockchain.py: blocks, their hash, proof-of-work mining,   *)
(* chain validation and the flattened message history.  No variables: the  *)
(* single-ledger specification (Ledger) and the engine (Engine) both use   *)
(* these operators on their own state.                                     *)
(*                                                                         *)
(* SHA-256 is abstracted by an ideal, collision-free hash: the hash of a   *)
(* block's contents is the tuple of those contents.  The block timestamp   *)
(* is left out (the index already makes contents distinct).  Whether a     *)
(* hash has enough leading '0' characters is the constant operator         *)
(* LeadingZeros, which a model instantiates with a fixed function.         *)
(***************************************************************************)
EXTENDS Naturals, Sequences, SequencesExt

CONSTANTS
    Difficulty,      \* Blockchain.difficulty: leading zeros a hash needs
    LeadingZeros(_), \* number of leading '0' hex digits of a hash value
    MaxNonce,        \* model bound: mining searches nonces 0..MaxNonce
    ZeroHash         \* "0" * 64, the genesis block's previous_hash

ASSUME DifficultyAssumption == Difficulty \in Nat
ASSUME MaxNonceAssumption == MaxNonce \in Nat

(* The data of the genesis block ({"message": ..., "type": "system"}).     *)
GenesisData == [message |-> "Genesis Block", type |-> "system"]

(* The data a block may carry: the genesis data or {"messages": [...]}.   *)
BlockData(P) == {GenesisData} \cup [messages : Seq(P)]

(* b is a block record with natural index and nonce and data over P.       *)
IsBlock(b, P) ==
    /\ DOMAIN b = {"index", "data", "previous_hash", "nonce", "hash"}
    /\ b.index \in Nat
    /\ b.nonce \in Nat
    /\ b.data \in BlockData(P)

(* Block.calculate_hash: hash of (index, data, previous_hash, nonce).      *)
BlockHash(index, data, prev, nonce) == <<index, data, prev, nonce>>

CalculateHash(b) == BlockHash(b.index, b.data, b.previous_hash, b.nonce)

(* hash.startswith("0" * difficulty)                                       *)
MeetsTarget(h) == LeadingZeros(h) >= Difficulty

(* n is the nonce Block.mine stops at: the loop starts at nonce 0 and      *)
(* increments until the hash meets the target, so n is the least such.     *)
IsMinedNonce(index, data, prev, n) ==
    /\ MeetsTarget(BlockHash(index, data, prev, n))
    /\ \A m \in 0..(n - 1) : ~MeetsTarget(BlockHash(index, data, prev, m))

(* Mutation: the hash field is computed once at construction (nonce 0)   *)
(* and not refreshed by the mining loop.                                   *)
MinedBlockStaleHash(index, data, prev, n) ==
    [index |-> index, data |-> data, previous_hash |-> prev,
     nonce |-> n, hash |-> BlockHash(index, data, prev, 0)]

(* The block constructed with nonce 0 and mined to nonce n; its hash field *)
(* is the hash of its final contents.                                      *)
MinedBlock(index, data, prev, n) ==
    [index |-> index, data |-> data, previous_hash |-> prev,
     nonce |-> n, hash |-> BlockHash(index, data, prev, n)]

(* Blockchain.latest_block                                                 *)
LatestBlock(chain) == chain[Len(chain)]

(* Mutation: validation checks links and target but never recomputes.    *)
IsChainValidNoRecompute(chain) ==
    \A i \in 2..Len(chain) :
        /\ chain[i].previous_hash = chain[i - 1].hash
        /\ MeetsTarget(chain[i].hash)

(* Blockchain.is_chain_valid: every block after the genesis block has a    *)
(* hash that recomputes, links to its predecessor's stored hash and meets  *)
(* the target.  The genesis block itself is never examined.                *)
IsChainValid(chain) ==
    \A i \in 2..Len(chain) :
        /\ chain[i].hash = CalculateHash(chain[i])
        /\ chain[i].previous_hash = chain[i - 1].hash
        /\ MeetsTarget(chain[i].hash)

(* The "messages" list of a block's data, empty when it has none.          *)
BlockEntries(b) ==
    IF "messages" \in DOMAIN b.data THEN b.data.messages ELSE <<>>

(* The batches a chain holds: the entries of each block but the genesis   *)
(* block, in chain order (the blocks get_messages iterates over).          *)
Batches(c) == [i \in 1..(Len(c) - 1) |-> BlockEntries(c[i + 1])]

(* Blockchain.get_messages: the entries of every block but the genesis     *)
(* block, concatenated in chain order.                                     *)
GetMessages(chain) == FlattenSeq(Batches(chain))

=============================================================================
