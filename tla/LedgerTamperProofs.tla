------------------------- MODULE LedgerTamperProofs -------------------------
(***************************************************************************)
(* Proof that is_chain_valid detects every edit of a saved block other     *)
(* than the genesis block, for every chain length and every payload set.   *)
(*                                                                         *)
(* TamperDetected is not inductive: it says nothing of a chain that is     *)
(* still valid.  The inductive invariant relates the loaded chain to the   *)
(* chain the object's own methods built (the history honest): the two     *)
(* have the same length, agree on every stored index, nonce and hash, and  *)
(* agree entirely below TamperFrom; and every honest block after genesis  *)
(* has a hash that recomputes.                                             *)
(***************************************************************************)
EXTENDS LedgerTamper, LedgerProofs

(* b is a function: equal to the function over its domain that it maps.  *)
(* Every block the model builds is a record, hence a function; IsBlock     *)
(* fixes only the field names, which does not make two blocks that agree  *)
(* on every field equal.                                                   *)
IsRecord(b) == b = [f \in DOMAIN b |-> b[f]]

(* The relation between the loaded chain and the honest one.               *)
TIInv ==
    /\ TypeOK
    /\ honest \in Seq(Range(honest))
    /\ Len(honest) = Len(chain)
    /\ \A i \in 1..Len(chain) :
          /\ IsBlock(honest[i], Payload)
          /\ IsRecord(chain[i]) /\ IsRecord(honest[i])
          /\ chain[i].index = honest[i].index
          /\ chain[i].nonce = honest[i].nonce
          /\ chain[i].hash = honest[i].hash
          /\ i < TamperFrom => chain[i] = honest[i]
    /\ \A i \in 2..Len(honest) : honest[i].hash = CalculateHash(honest[i])

-----------------------------------------------------------------------------
(* Replacing one block at or above TamperFrom by a block with the same     *)
(* index, nonce and stored hash keeps the relation to the honest chain.    *)
LEMMA EditBlock ==
    ASSUME TIInv, NEW i \in TamperFrom..Len(chain), NEW e,
           IsBlock(e, Payload), IsRecord(e),
           e.index = chain[i].index, e.nonce = chain[i].nonce,
           e.hash = chain[i].hash,
           chain' = [chain EXCEPT ![i] = e],
           UNCHANGED <<honest, pending, added>>
    PROVE  TIInv'
<1> DEFINE S == Range(chain) \cup {e}
<1>1. i \in 1..Len(chain)
  BY TamperFromAssumption
<1>2. chain \in Seq(S)
  BY SeqMonotonic DEF TIInv, TypeOK
<1>3. /\ chain' \in Seq(S)
      /\ Len(chain') = Len(chain)
      /\ \A j \in 1..Len(chain) : chain'[j] = IF j = i THEN e ELSE chain[j]
  BY <1>1, <1>2, ExceptSeq
<1>4. chain' \in Seq(Range(chain'))
  BY <1>3, SeqOfRange
<1>5. TypeOK'
  BY <1>3, <1>4 DEF TIInv, TypeOK
<1>6. \A j \in 1..Len(chain') :
          /\ IsBlock(honest'[j], Payload)
          /\ IsRecord(chain'[j]) /\ IsRecord(honest'[j])
          /\ chain'[j].index = honest'[j].index
          /\ chain'[j].nonce = honest'[j].nonce
          /\ chain'[j].hash = honest'[j].hash
          /\ j < TamperFrom => chain'[j] = honest'[j]
  BY <1>1, <1>3, TamperFromAssumption DEF TIInv
<1>7. /\ honest' \in Seq(Range(honest'))
      /\ Len(honest') = Len(chain')
      /\ \A j \in 2..Len(honest') : honest'[j].hash = CalculateHash(honest'[j])
  BY <1>3 DEF TIInv
<1> QED
  BY <1>5, <1>6, <1>7 DEF TIInv

LEMMA TamperDataTIInv ==
    ASSUME TIInv, NEW i \in TamperFrom..Len(chain), NEW d \in EditedData,
           TamperData(i, d)
    PROVE  TIInv'
<1> DEFINE e == [chain[i] EXCEPT !.data = d]
<1>1. i \in 1..Len(chain)
  BY TamperFromAssumption
<1>2. IsBlock(chain[i], Payload)
  BY <1>1 DEF TIInv, TypeOK
<1>3. d \in BlockData(Payload)
  BY DEF EditedData, BlockData
<1>4. IsBlock(e, Payload) /\ e.index = chain[i].index /\ e.nonce = chain[i].nonce
      /\ e.hash = chain[i].hash
  BY <1>2, <1>3 DEF IsBlock
<1>6. IsRecord(e)
  BY DEF IsRecord
<1>5. chain' = [chain EXCEPT ![i] = e] /\ UNCHANGED <<honest, pending, added>>
  BY DEF TamperData
<1> QED
  BY <1>4, <1>5, <1>6, EditBlock

LEMMA TamperPrevTIInv ==
    ASSUME TIInv, NEW i \in TamperFrom..Len(chain), NEW h, TamperPrev(i, h)
    PROVE  TIInv'
<1> DEFINE e == [chain[i] EXCEPT !.previous_hash = h]
<1>1. i \in 1..Len(chain)
  BY TamperFromAssumption
<1>2. IsBlock(chain[i], Payload)
  BY <1>1 DEF TIInv, TypeOK
<1>3. IsBlock(e, Payload) /\ e.index = chain[i].index /\ e.nonce = chain[i].nonce
      /\ e.hash = chain[i].hash
  BY <1>2 DEF IsBlock
<1>5. IsRecord(e)
  BY DEF IsRecord
<1>4. chain' = [chain EXCEPT ![i] = e] /\ UNCHANGED <<honest, pending, added>>
  BY DEF TamperPrev
<1> QED
  BY <1>3, <1>4, <1>5, EditBlock

(* The honest history follows the chain while the object's own methods     *)
(* change it.                                                              *)
HonestNext ==
    honest' = IF Len(chain') > Len(chain)
              THEN Append(honest, LatestBlock(chain'))
              ELSE honest

LEMMA AddDataTIInv ==
    ASSUME TIInv, NEW p \in Payload, AddData(p), HonestNext
    PROVE  TIInv'
<1>1. TypeOK'
  BY NextTypeOK DEF TIInv, Next
<1>2. chain' = chain /\ honest' = honest
  BY DEF AddData, HonestNext
<1> QED
  BY <1>1, <1>2 DEF TIInv

LEMMA MinePendingTIInv ==
    ASSUME TIInv, MinePending, HonestNext
    PROVE  TIInv'
<1>1. PICK n \in 0..MaxNonce :
        chain' = Append(chain, MinedBlock(Len(chain), [messages |-> pending],
                                          LatestBlock(chain).hash, n))
  BY DEF MinePending
<1> DEFINE b == MinedBlock(Len(chain), [messages |-> pending],
                           LatestBlock(chain).hash, n)
           L == Len(chain)
<1>2. TypeOK'
  BY NextTypeOK DEF TIInv, Next
<1>3. /\ chain' \in Seq(Range(chain'))
      /\ Len(chain') = L + 1
      /\ \A i \in 1..L : chain'[i] = chain[i]
      /\ chain'[L + 1] = b
  BY <1>1, AppendBlock DEF TIInv, TypeOK
<1>4. L \in Nat /\ L >= 1
  BY LenProperties DEF TIInv, TypeOK
<1>5. honest' = Append(honest, b)
  BY <1>3, <1>4 DEF HonestNext, LatestBlock
<1>6. /\ honest' \in Seq(Range(honest'))
      /\ Len(honest') = L + 1
      /\ \A i \in 1..L : honest'[i] = honest[i]
      /\ honest'[L + 1] = b
  BY <1>5, AppendBlock DEF TIInv
<1>7. IsBlock(b, Payload) /\ IsRecord(b) /\ b.hash = CalculateHash(b)
  BY <1>2, <1>3, <1>4 DEF TypeOK, MinedBlock, CalculateHash, IsRecord
<1>8. \A i \in 1..Len(chain') :
          /\ IsBlock(honest'[i], Payload)
          /\ IsRecord(chain'[i]) /\ IsRecord(honest'[i])
          /\ chain'[i].index = honest'[i].index
          /\ chain'[i].nonce = honest'[i].nonce
          /\ chain'[i].hash = honest'[i].hash
          /\ i < TamperFrom => chain'[i] = honest'[i]
  BY <1>3, <1>4, <1>6, <1>7 DEF TIInv
<1>9. \A i \in 2..Len(honest') : honest'[i].hash = CalculateHash(honest'[i])
  BY <1>4, <1>6, <1>7 DEF TIInv
<1> QED
  BY <1>2, <1>3, <1>6, <1>8, <1>9 DEF TIInv

LEMMA TInitTIInv == TInit => TIInv
<1> SUFFICES ASSUME TInit PROVE TIInv
  OBVIOUS
<1>1. TypeOK /\ honest = chain
  BY InitTypeOK DEF TInit
<1>2. PICK n \in 0..MaxNonce : chain = <<MinedBlock(0, GenesisData, ZeroHash, n)>>
  BY DEF TInit, Init
<1>3. Len(chain) = 1 /\ IsRecord(chain[1])
  BY <1>2 DEF MinedBlock, IsRecord
<1> QED
  BY <1>1, <1>3 DEF TIInv, TypeOK

LEMMA TNextTIInv == TIInv /\ [TNext]_tvars => TIInv'
<1> SUFFICES ASSUME TIInv, [TNext]_tvars PROVE TIInv'
  OBVIOUS
<1>1. CASE Next /\ HonestNext
  BY <1>1, AddDataTIInv, MinePendingTIInv DEF Next
<1>2. CASE \E i \in TamperFrom..Len(chain) :
             \/ \E d \in EditedData : TamperData(i, d)
             \/ \E h \in {ZeroHash} \cup {chain[j].hash : j \in 1..Len(chain)} :
                   TamperPrev(i, h)
  BY <1>2, TamperDataTIInv, TamperPrevTIInv
<1>3. CASE UNCHANGED tvars
  BY <1>3 DEF TIInv, TypeOK, tvars, vars
<1> QED
  BY <1>1, <1>2, <1>3 DEF TNext, HonestNext

(* A loaded chain that differs from the honest one differs in the data or  *)
(* previous_hash of a block at or above TamperFrom; that block's stored    *)
(* hash is the honest block's, which its edited fields do not hash to.     *)
LEMMA TIInvDetected ==
    ASSUME TIInv, TamperFrom > 1
    PROVE  TamperDetected
<1> SUFFICES ASSUME chain # honest PROVE ~IsChainValid(chain)
  BY DEF TamperDetected
<1>1. PICK i \in 1..Len(chain) : chain[i] # honest[i]
  <2> DEFINE S == Range(chain) \cup Range(honest)
  <2>1. chain \in Seq(S) /\ honest \in Seq(S)
    BY SeqMonotonic DEF TIInv, TypeOK
  <2> QED
    BY <2>1, SeqEqual DEF TIInv
<1>2. i \in 2..Len(chain) /\ i >= TamperFrom
  BY <1>1, TamperFromAssumption DEF TIInv
<1>3. IsBlock(chain[i], Payload) /\ IsBlock(honest[i], Payload)
  BY <1>1 DEF TIInv, TypeOK
<1>4. \/ chain[i].data # honest[i].data
      \/ chain[i].previous_hash # honest[i].previous_hash
  <2> DEFINE c == chain[i]  h == honest[i]
  <2>1. DOMAIN c = DOMAIN h
    BY <1>3 DEF IsBlock
  <2>2. /\ c.index = h.index /\ c.nonce = h.nonce /\ c.hash = h.hash
    BY <1>1 DEF TIInv
  <2>3. ASSUME c.data = h.data, c.previous_hash = h.previous_hash
        PROVE  c = h
    <3>1. \A f \in DOMAIN c : c[f] = h[f]
      BY <1>3, <2>2, <2>3 DEF IsBlock
    <3>2. IsRecord(c) /\ IsRecord(h)
      BY <1>1 DEF TIInv
    <3> QED
      BY <2>1, <3>1, <3>2 DEF IsRecord
  <2> QED
    BY <1>1, <2>3
<1>5. chain[i].hash = CalculateHash(honest[i])
  BY <1>1, <1>2 DEF TIInv
<1>6. chain[i].hash # CalculateHash(chain[i])
  BY <1>1, <1>2, <1>4, <1>5 DEF TIInv, CalculateHash, BlockHash
<1> QED
  BY <1>2, <1>6 DEF IsChainValid

(* Section 8: once any block other than the genesis block is edited in the *)
(* saved document and the chain reloaded, is_chain_valid returns False,    *)
(* however many blocks are mined afterwards, for every chain length and    *)
(* payload set (run ledger_tamper_body; run ledger_tamper_genesis shows    *)
(* the genesis block must be excluded).                                    *)
THEOREM TamperAlwaysDetected == TamperFrom > 1 => (TSpec => []TamperDetected)
<1> SUFFICES ASSUME TamperFrom > 1 PROVE TSpec => []TamperDetected
  OBVIOUS
<1>1. TInit => TIInv
  BY TInitTIInv
<1>2. TIInv /\ [TNext]_tvars => TIInv'
  BY TNextTIInv
<1>3. TIInv => TamperDetected
  BY TIInvDetected
<1> QED
  BY <1>1, <1>2, <1>3, PTL DEF TSpec

=============================================================================
