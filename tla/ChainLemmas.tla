---------------------------- MODULE ChainLemmas -----------------------------
(***************************************************************************)
(* Facts about the sequence operations the ledger is built from, shared by *)
(* the proofs about a single Blockchain (LedgerProofs) and about the       *)
(* engines' ledgers (EngineProofs): appending a block, and the batches    *)
(* (Batches) a chain holds before and after a block is appended.          *)
(***************************************************************************)
EXTENDS LedgerOps, SequenceTheorems, TLAPS

(* Appending a block to a chain keeps it a sequence over its range, adds   *)
(* one position and leaves the earlier positions alone.                    *)
LEMMA AppendBlock ==
    ASSUME NEW c, c \in Seq(Range(c)), NEW b
    PROVE  /\ Append(c, b) \in Seq(Range(Append(c, b)))
           /\ Len(Append(c, b)) = Len(c) + 1
           /\ \A i \in 1..Len(c) : Append(c, b)[i] = c[i]
           /\ Append(c, b)[Len(c) + 1] = b
<1> DEFINE S == Range(c) \cup {b}
<1>1. c \in Seq(S)
  BY SeqMonotonic
<1>2. Append(c, b) \in Seq(S)
      /\ Len(Append(c, b)) = Len(c) + 1
      /\ \A i \in 1..Len(c) : Append(c, b)[i] = c[i]
      /\ Append(c, b)[Len(c) + 1] = b
  BY <1>1, AppendProperties
<1>3. Append(c, b) \in Seq(Range(Append(c, b)))
  BY <1>2, SeqOfRange
<1> QED
  BY <1>2, <1>3

(* A chain holding only its genesis block holds no batches.                *)
LEMMA BatchesGenesis ==
    ASSUME NEW c, c \in Seq(Range(c)), Len(c) = 1
    PROVE  Batches(c) = <<>>
<1>1. Batches(c) \in Seq({}) /\ Len(Batches(c)) = 0
  <2>1. \A i \in 1..0 : BlockEntries(c[i + 1]) \in {}
    OBVIOUS
  <2> QED
    BY <2>1, IsASeq DEF Batches
<1> QED
  BY <1>1, EmptySeq, SeqEqual

(* Appending a block b appends b's entries as one more batch and leaves    *)
(* the earlier batches alone: what get_messages iterates over only grows.  *)
LEMMA BatchesAppend ==
    ASSUME NEW c, c \in Seq(Range(c)), Len(c) >= 1, NEW b
    PROVE  Batches(Append(c, b)) = Append(Batches(c), BlockEntries(b))
<1> DEFINE L == Len(c)
           c2 == Append(c, b)
           S == {BlockEntries(c2[j]) : j \in 1..(L + 1)}
<1>1. /\ Len(c2) = L + 1
      /\ \A i \in 1..L : c2[i] = c[i]
      /\ c2[L + 1] = b
  BY AppendBlock
<1>2. L \in Nat \ {0}
  BY LenProperties
<1>3. BlockEntries(b) \in S
  BY <1>1, <1>2
<1>4. Batches(c) \in Seq(S) /\ Len(Batches(c)) = L - 1
  <2>1. \A i \in 1..(L - 1) : BlockEntries(c[i + 1]) \in S
    BY <1>1, <1>2
  <2> QED
    BY <1>2, <2>1, IsASeq DEF Batches
<1>5. Batches(c2) \in Seq(S) /\ Len(Batches(c2)) = L
  <2>1. \A i \in 1..L : BlockEntries(c2[i + 1]) \in S
    BY <1>2
  <2> QED
    BY <1>1, <1>2, <2>1, IsASeq DEF Batches
<1>6. /\ Append(Batches(c), BlockEntries(b)) \in Seq(S)
      /\ Len(Append(Batches(c), BlockEntries(b))) = L
      /\ \A i \in 1..(L - 1) :
            Append(Batches(c), BlockEntries(b))[i] = Batches(c)[i]
      /\ Append(Batches(c), BlockEntries(b))[L] = BlockEntries(b)
  BY <1>2, <1>3, <1>4, AppendProperties
<1>7. \A i \in 1..L : Batches(c2)[i] = Append(Batches(c), BlockEntries(b))[i]
  <2> SUFFICES ASSUME NEW i \in 1..L
               PROVE  Batches(c2)[i] = Append(Batches(c), BlockEntries(b))[i]
    OBVIOUS
  <2>1. CASE i = L
    BY <1>1, <1>2, <1>6, <2>1 DEF Batches
  <2>2. CASE i \in 1..(L - 1)
    BY <1>1, <1>2, <1>6, <2>2 DEF Batches
  <2>3. i = L \/ i \in 1..(L - 1)
    BY <1>2
  <2> QED
    BY <2>1, <2>2, <2>3
<1> QED
  BY <1>5, <1>6, <1>7, SeqEqual

=============================================================================
