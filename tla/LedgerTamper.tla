---------------------------- MODULE LedgerTamper ----------------------------
(***************************************************************************)
(* A Ledger whose persisted document may be edited between save and load.  *)
(* Blockchain.to_dict writes every block with its hash; Blockchain and     *)
(* Block.from_dict rebuild the blocks and restore each stored hash          *)
(* verbatim, without recomputing or re-mining.  An edit of one block's     *)
(* data or previous_hash followed by a reload is therefore one step that   *)
(* changes that field and keeps every stored hash.                         *)
(***************************************************************************)
EXTENDS Ledger

CONSTANT TamperFrom   \* lowest chain position (1 = genesis) an edit may hit

ASSUME TamperFromAssumption == TamperFrom \in Nat \ {0}

VARIABLE honest   \* history: the chain as the object's own methods built it

tvars == <<vars, honest>>

(* Replacement data an edit may write: another single-payload list.        *)
EditedData == [messages : {<<p>> : p \in Payload}]

TInit == Init /\ honest = chain

(* Edit block i's data and reload: from_dict keeps its stored hash.        *)
TamperData(i, d) ==
    /\ d # chain[i].data
    /\ chain' = [chain EXCEPT ![i].data = d]
    /\ UNCHANGED honest
    /\ UNCHANGED <<pending, added>>

(* Edit block i's previous_hash to another hash value and reload.          *)
TamperPrev(i, h) ==
    /\ h # chain[i].previous_hash
    /\ chain' = [chain EXCEPT ![i].previous_hash = h]
    /\ UNCHANGED honest
    /\ UNCHANGED <<pending, added>>

TNext ==
    \/ /\ Next
       /\ honest' = IF Len(chain') > Len(chain)
                    THEN Append(honest, LatestBlock(chain'))
                    ELSE honest
    \/ \E i \in TamperFrom..Len(chain) :
          \/ \E d \in EditedData : TamperData(i, d)
          \/ \E h \in {ZeroHash} \cup {chain[j].hash : j \in 1..Len(chain)} :
                TamperPrev(i, h)

TSpec == TInit /\ [][TNext]_tvars

-----------------------------------------------------------------------------
(* Section 8 of the specification: mutating any stored block's data or    *)
(* previous_hash makes is_chain_valid return False, however many blocks    *)
(* are mined afterwards.                                                    *)
TamperDetected == chain # honest => ~IsChainValid(chain)

=============================================================================
