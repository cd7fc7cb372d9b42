------------------------------- MODULE Merkle -------------------------------
(***************************************************************************)
(* calculate_merkle_root of src/src/core/blockchain.py, a pure function,   *)
(* checked against a top-down reference definition of the leaf-duplication *)
(* Merkle tree for every input list up to a bound.  The state machine only *)
(* enumerates inputs: items grows one element at a time.                   *)
(*                                                                         *)
(* SHA-256 is an ideal hash: H(x) is the tuple <<"sha256", x>>.  The       *)
(* concatenation of two 64-character hex digests is injective, so it is   *)
(* modelled as the pair of the two digests.                                *)
(***************************************************************************)
EXTENDS Naturals, Sequences

CONSTANTS
    Item,    \* the byte strings a caller may pass
    MaxLen   \* model bound on the length of the input list

ASSUME MerkleAssumption == MaxLen \in Nat

VARIABLE items

(* hashlib.sha256(...).hexdigest()                                         *)
H(x) == <<"sha256", x>>

(* sha256(b"").hexdigest(): the root of the empty list.                    *)
EmptyRoot == H(<<>>)

(* Mutation: an odd level promotes its unpaired last hash unchanged.       *)
NextLevelPromote(hs) ==
    [i \in 1..((Len(hs) + 1) \div 2) |->
        IF 2 * i <= Len(hs) THEN H(<<hs[2 * i - 1], hs[2 * i]>>) ELSE hs[2 * i - 1]]

(* One pass of the while loop: pad an odd level with a copy of its last    *)
(* hash, then hash each adjacent pair of hex strings concatenated.         *)
NextLevel(hs) ==
    LET padded == IF Len(hs) % 2 # 0 THEN Append(hs, hs[Len(hs)]) ELSE hs
    IN  [i \in 1..(Len(padded) \div 2) |-> H(<<padded[2 * i - 1], padded[2 * i]>>)]

RECURSIVE Reduce(_)
(* while len(hashes) > 1: hashes = next_level; then hashes[0].             *)
Reduce(hs) == IF Len(hs) > 1 THEN Reduce(NextLevel(hs)) ELSE hs[1]

(* calculate_merkle_root: the empty list has the hash of b""; otherwise    *)
(* each item is hashed and the levels are reduced to one hash.             *)
MerkleRoot(data) ==
    IF data = <<>> THEN EmptyRoot
    ELSE Reduce([i \in 1..Len(data) |-> H(data[i])])

-----------------------------------------------------------------------------
(* Reference definition, top down: the level above one of c nodes has      *)
(* ceil(c / 2) nodes, node j (from 0) of a level hashes children 2j and    *)
(* 2j + 1 of the level below, and a missing right child is the left one.   *)

RECURSIVE LevelSize(_, _)
LevelSize(n, h) == IF h = 0 THEN n ELSE (LevelSize(n, h - 1) + 1) \div 2

RECURSIVE RefNode(_, _, _)
RefNode(data, h, j) ==
    IF h = 0 THEN H(data[j + 1])
    ELSE LET r == IF 2 * j + 1 < LevelSize(Len(data), h - 1) THEN 2 * j + 1 ELSE 2 * j
         IN  H(<<RefNode(data, h - 1, 2 * j), RefNode(data, h - 1, r)>>)

(* The height of the tree: the first level with a single node.             *)
Height(n) == CHOOSE h \in 0..n : LevelSize(n, h) = 1 /\ \A g \in 0..(h - 1) : LevelSize(n, g) > 1

RefRoot(data) == IF data = <<>> THEN EmptyRoot ELSE RefNode(data, Height(Len(data)), 0)

-----------------------------------------------------------------------------
Init == items = <<>>

Extend == Len(items) < MaxLen /\ \E x \in Item : items' = Append(items, x)

Spec == Init /\ [][Extend]_items

(* calculate_merkle_root computes the leaf-duplication Merkle tree: the    *)
(* bottom-up loop with its odd-level padding agrees with the top-down      *)
(* definition for every list of items up to the bound.                     *)
MatchesReference == MerkleRoot(items) = RefRoot(items)

(* Section 8 of the specification: the root of a one-item list [x] is the  *)
(* hash of x's hash concatenated with itself.                              *)
SingleLeafRoot ==
    Len(items) = 1 => MerkleRoot(items) = H(<<H(items[1]), H(items[1])>>)

=============================================================================
