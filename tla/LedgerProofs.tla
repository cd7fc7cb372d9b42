---------------------------- MODULE LedgerProofs ----------------------------
(***************************************************************************)
(* Proofs about the Ledger specification, for every value of its           *)
(* constants: the type invariant, and that is_chain_valid holds of every   *)
(* chain the Blockchain object builds through its own methods.             *)
(***************************************************************************)
EXTENDS Ledger, ChainLemmas, SequenceTheorems, TLAPS

-----------------------------------------------------------------------------
(* The type invariant.                                                     *)

LEMMA InitTypeOK == Init => TypeOK
<1> SUFFICES ASSUME Init PROVE TypeOK
  OBVIOUS
<1>1. PICK n \in 0..MaxNonce :
        chain = <<MinedBlock(0, GenesisData, ZeroHash, n)>>
  BY DEF Init
<1>2. chain \in Seq(Range(chain)) /\ Len(chain) = 1
  BY <1>1, SeqOfRange, EmptySeq, AppendProperties DEF Range
<1>3. IsBlock(chain[1], Payload)
  BY <1>1 DEF IsBlock, MinedBlock, BlockData
<1>4. pending \in Seq(Payload) /\ added \in Seq(Payload)
  BY EmptySeq DEF Init
<1> QED
  BY <1>2, <1>3, <1>4 DEF TypeOK

LEMMA NextTypeOK == TypeOK /\ [Next]_vars => TypeOK'
<1> SUFFICES ASSUME TypeOK, [Next]_vars PROVE TypeOK'
  OBVIOUS
<1>1. CASE \E p \in Payload : AddData(p)
  <2>1. PICK p \in Payload : AddData(p)
    BY <1>1
  <2>2. pending' \in Seq(Payload) /\ added' \in Seq(Payload)
    BY <2>1, AppendProperties DEF TypeOK, AddData
  <2> QED
    BY <2>1, <2>2 DEF TypeOK, AddData
<1>2. CASE MinePending
  <2>1. PICK n \in 0..MaxNonce :
          chain' = Append(chain, MinedBlock(Len(chain), [messages |-> pending],
                                            LatestBlock(chain).hash, n))
    BY <1>2 DEF MinePending
  <2> DEFINE b == MinedBlock(Len(chain), [messages |-> pending],
                             LatestBlock(chain).hash, n)
  <2>2. /\ chain' \in Seq(Range(chain'))
        /\ Len(chain') = Len(chain) + 1
        /\ \A i \in 1..Len(chain) : chain'[i] = chain[i]
        /\ chain'[Len(chain) + 1] = b
    BY <2>1, AppendBlock DEF TypeOK
  <2>3. Len(chain) \in Nat
    BY LenProperties DEF TypeOK
  <2>4. IsBlock(b, Payload)
    BY <2>3 DEF TypeOK, IsBlock, MinedBlock, BlockData
  <2>5. \A i \in 1..Len(chain') : IsBlock(chain'[i], Payload)
    BY <2>2, <2>3, <2>4 DEF TypeOK
  <2>6. pending' \in Seq(Payload) /\ added' \in Seq(Payload)
    BY <1>2, EmptySeq DEF TypeOK, MinePending
  <2> QED
    BY <2>2, <2>3, <2>5, <2>6 DEF TypeOK
<1>3. CASE UNCHANGED vars
  BY <1>3 DEF TypeOK, vars
<1> QED
  BY <1>1, <1>2, <1>3 DEF Next

(* Every reachable state of the ledger is well typed.                      *)
THEOREM TypeCorrect == Spec => []TypeOK
BY InitTypeOK, NextTypeOK, PTL DEF Spec

-----------------------------------------------------------------------------
(* Chain validity.  ChainValid is inductive once the type invariant is     *)
(* known: mine_pending appends a block whose hash is its own contents'     *)
(* hash, whose previous_hash is the stored hash of the block it follows,   *)
(* and whose hash meets the target, and it leaves the earlier blocks and   *)
(* so their links alone.                                                   *)
IInv == TypeOK /\ ChainValid

LEMMA InitIInv == Init => IInv
<1> SUFFICES ASSUME Init PROVE IInv
  OBVIOUS
<1>1. TypeOK
  BY InitTypeOK
<1>2. Len(chain) = 1
  BY <1>1 DEF TypeOK, Init
<1>3. ChainValid
  <2>1. PICK n \in 0..MaxNonce :
          chain = <<MinedBlock(0, GenesisData, ZeroHash, n)>>
    BY DEF Init
  <2> QED
    BY <2>1 DEF ChainValid, IsChainValid
<1> QED
  BY <1>1, <1>3 DEF IInv

LEMMA MinePendingChainValid == IInv /\ MinePending => ChainValid'
<1> SUFFICES ASSUME IInv, MinePending PROVE ChainValid'
  OBVIOUS
<1>1. PICK n \in 0..MaxNonce :
        LET data == [messages |-> pending]
            prev == LatestBlock(chain).hash
        IN  /\ IsMinedNonce(Len(chain), data, prev, n)
            /\ chain' = Append(chain, MinedBlock(Len(chain), data, prev, n))
  BY DEF MinePending
<1> DEFINE data == [messages |-> pending]
           prev == LatestBlock(chain).hash
           b == MinedBlock(Len(chain), data, prev, n)
           L == Len(chain)
<1>2. /\ Len(chain') = L + 1
      /\ \A i \in 1..L : chain'[i] = chain[i]
      /\ chain'[L + 1] = b
  BY <1>1, AppendBlock DEF IInv, TypeOK
<1>3. L \in Nat \ {0}
  BY LenProperties DEF IInv, TypeOK
<1>4. /\ b.hash = CalculateHash(b)
      /\ b.previous_hash = chain[L].hash
      /\ MeetsTarget(b.hash)
  BY <1>1 DEF MinedBlock, CalculateHash, LatestBlock, IsMinedNonce
<1> SUFFICES ASSUME NEW i \in 2..(L + 1)
             PROVE  /\ chain'[i].hash = CalculateHash(chain'[i])
                    /\ chain'[i].previous_hash = chain'[i - 1].hash
                    /\ MeetsTarget(chain'[i].hash)
  BY <1>2 DEF ChainValid, IsChainValid
<1>5. CASE i = L + 1
  BY <1>2, <1>3, <1>4, <1>5
<1>6. CASE i \in 2..L
  <2>1. chain'[i] = chain[i] /\ chain'[i - 1] = chain[i - 1]
    BY <1>2, <1>3, <1>6
  <2>2. /\ chain[i].hash = CalculateHash(chain[i])
        /\ chain[i].previous_hash = chain[i - 1].hash
        /\ MeetsTarget(chain[i].hash)
    BY <1>6 DEF IInv, ChainValid, IsChainValid
  <2> QED
    BY <2>1, <2>2
<1> QED
  BY <1>3, <1>5, <1>6

LEMMA NextIInv == IInv /\ [Next]_vars => IInv'
<1> SUFFICES ASSUME IInv, [Next]_vars PROVE IInv'
  OBVIOUS
<1>1. TypeOK'
  BY NextTypeOK DEF IInv
<1>2. CASE \E p \in Payload : AddData(p)
  BY <1>1, <1>2 DEF IInv, AddData, ChainValid
<1>3. CASE MinePending
  BY <1>1, <1>3, MinePendingChainValid DEF IInv
<1>4. CASE UNCHANGED vars
  BY <1>1, <1>4 DEF IInv, vars, ChainValid
<1> QED
  BY <1>1, <1>2, <1>3, <1>4 DEF Next, IInv

(* Blockchain.is_chain_valid returns True in every state the object        *)
(* reaches through its constructor, add_data and mine_pending.             *)
THEOREM ChainAlwaysValid == Spec => []ChainValid
<1>1. IInv => ChainValid
  BY DEF IInv
<1> QED
  BY InitIInv, NextIInv, <1>1, PTL DEF Spec

-----------------------------------------------------------------------------
(* Refinement.  Under the mapping batches <- Batches(chain), buffer <-     *)
(* pending, the genesis chain maps to the empty log, add_data to Add, and  *)
(* mine_pending to Commit: the appended block's entries are the buffer it  *)
(* drained, and Batches of the longer chain is Batches of the shorter one  *)
(* with that buffer appended.                                              *)

LEMMA InitRefines == Init => Log!Init
<1> SUFFICES ASSUME Init PROVE Log!Init
  OBVIOUS
<1>1. chain \in Seq(Range(chain)) /\ Len(chain) = 1
  BY InitTypeOK DEF TypeOK, Init
<1> QED
  BY <1>1, BatchesGenesis DEF Init, Log!Init

LEMMA MinePendingRefines == TypeOK /\ MinePending => Log!Commit
<1> SUFFICES ASSUME TypeOK, MinePending PROVE Log!Commit
  OBVIOUS
<1>1. PICK n \in 0..MaxNonce :
        chain' = Append(chain, MinedBlock(Len(chain), [messages |-> pending],
                                          LatestBlock(chain).hash, n))
  BY DEF MinePending
<1>2. BlockEntries(MinedBlock(Len(chain), [messages |-> pending],
                              LatestBlock(chain).hash, n)) = pending
  BY DEF BlockEntries, MinedBlock
<1>3. Batches(chain') = Append(Batches(chain), pending)
  BY <1>1, <1>2, BatchesAppend DEF TypeOK
<1> QED
  BY <1>3 DEF MinePending, Log!Commit

LEMMA NextRefines == TypeOK /\ [Next]_vars => [Log!Next]_<<Batches(chain), pending>>
<1> SUFFICES ASSUME TypeOK, [Next]_vars
             PROVE  [Log!Next]_<<Batches(chain), pending>>
  OBVIOUS
<1>1. CASE \E p \in Payload : AddData(p)
  BY <1>1 DEF AddData, Log!Next, Log!Add
<1>2. CASE MinePending
  BY <1>2, MinePendingRefines DEF Log!Next
<1>3. CASE UNCHANGED vars
  BY <1>3 DEF vars
<1> QED
  BY <1>1, <1>2, <1>3 DEF Next

(* The Blockchain object implements the abstract ledger log for every      *)
(* value of the constants: add_data is Add, mine_pending is Commit.        *)
THEOREM RefinesLog == Spec => LogRefinement
BY TypeCorrect, InitRefines, NextRefines, PTL DEF Spec, LogRefinement, Log!Spec

=============================================================================
