---------------------------- MODULE EngineProofs ----------------------------
(***************************************************************************)
(* Proofs about the Engine specification for every value of its           *)
(* constants: the type invariant, and that observers are handed exactly    *)
(* the text an honest node sent whenever the two ends of a link agree on   *)
(* encryption keys.                                                        *)
(*                                                                         *)
(* Neither TypeOK nor PlaintextIntegrity is inductive by itself: both are  *)
(* about what a handler produces from a message in flight or from a       *)
(* suspended handler, so the inductive invariant also describes every      *)
(* message the network holds or has delivered, every message an honest     *)
(* node signed, and every suspended handler.                               *)
(***************************************************************************)
EXTENDS Engine, ChainLemmas, SequenceTheorems, TLAPS

(* The ReceivedMessage records a handler may build.                        *)
RmRecord == [id : MsgId, sender : Peer, content : Text \cup CipherText,
             verified : {TRUE}]

(* What a callback is handed, with the peer it arrived from.               *)
ShownRecord == [rm : RmRecord, origin : Peer]

(* A suspended text handler.                                               *)
TaskRecord == [rm : RmRecord, origin : Peer, next : 1..(NumObservers + 1)]

(* A message an honest node signed in send_text or broadcast_text: signed  *)
(* by its sender, plaintext without a nonce, or encrypted for its          *)
(* recipient under their shared secret with a nonce.                       *)
HonestSent(m) ==
    /\ m.type = "TEXT"
    /\ m.sender \in Node
    /\ m.signer = m.sender
    /\ m.id \in MsgId
    /\ \/ m.nonce = FALSE /\ m.content \in Text
       \/ /\ m.nonce = TRUE
          /\ m.recipient \in EncKnown[m.sender]
          /\ \E t \in Text : m.content = Encrypt(t, SharedSecret(m.sender, m.recipient))

(* A delivery in flight or already handed over: signed by the peer it      *)
(* comes from; a TEXT message carries an id, a sender and a nonce flag     *)
(* matching its content; one from an honest node is a message that node    *)
(* sent, and an encrypted one is addressed to the node it goes to.         *)
DeliveryOK(d) ==
    /\ d.to \in Peer
    /\ d.from \in Peer
    /\ d.msg.signer = d.from
    /\ d.msg.type \in {"TEXT", "ACK"}
    /\ d.msg.type = "TEXT" =>
          /\ d.msg.id \in MsgId
          /\ d.msg.sender \in Peer
          /\ \/ d.msg.nonce = FALSE /\ d.msg.content \in Text
             \/ d.msg.nonce = TRUE /\ d.msg.content \in CipherText
          /\ d.from \in Node =>
                /\ d.msg \in sentLog
                /\ d.msg.nonce = TRUE => d.msg.recipient = d.to

(* The typing invariant: TypeOK strengthened by the shape of every message *)
(* signed, in flight or delivered, and of every suspended handler.         *)
TInv ==
    /\ DOMAIN chain = Node
    /\ \A n \in Node : chain[n] \in Seq(Range(chain[n])) /\ chain[n] # <<>>
    /\ pending \in [Node -> Seq(EntryRecord)]
    /\ secrets \in [Node -> SUBSET Peer]
    /\ \A d \in net : DeliveryOK(d)
    /\ \A d \in delivered : DeliveryOK(d)
    /\ tasks \in [Node -> SUBSET TaskRecord]
    /\ sent \in [Node -> 0..MaxSends]
    /\ forged \in 0..MaxForged
    /\ dups \in 0..MaxDups
    /\ shown \in [Node -> Seq(ShownRecord)]
    /\ \A m \in sentLog : HonestSent(m)

(* A suspended handler of a message from an honest node holds the text of  *)
(* a message that node sent under the same id.                             *)
TaskAuthentic(k) ==
    k.origin \in Node =>
        \E m \in sentLog : m.id = k.rm.id /\ k.rm.content = PlainText(m.content)

(* What the handlers and callbacks hold of messages from honest nodes.     *)
Authentic ==
    /\ \A n \in Node : \A k \in tasks[n] : TaskAuthentic(k)
    /\ PlaintextIntegrity

(* The inductive invariant for PlaintextIntegrity.                         *)
IInv == TInv /\ Authentic

-----------------------------------------------------------------------------
(* The typing invariant holds initially, and implies TypeOK.               *)

LEMMA InitTInv == Init => TInv
<1> SUFFICES ASSUME Init PROVE TInv
  OBVIOUS
<1>1. PICK n0 \in [Node -> 0..MaxNonce] :
        chain = [n \in Node |-> <<MinedBlock(0, GenesisData, ZeroHash, n0[n])>>]
  BY DEF Init
<1>2. \A n \in Node : chain[n] \in Seq(Range(chain[n])) /\ chain[n] # <<>>
  BY <1>1, SeqOfRange, EmptySeq, AppendProperties DEF Range
<1>3. /\ pending \in [Node -> Seq(EntryRecord)]
      /\ shown \in [Node -> Seq(ShownRecord)]
  BY EmptySeq DEF Init
<1>4. /\ secrets \in [Node -> SUBSET Peer]
      /\ tasks \in [Node -> SUBSET TaskRecord]
      /\ sent \in [Node -> 0..MaxSends]
      /\ forged \in 0..MaxForged
      /\ dups \in 0..MaxDups
      /\ net = {} /\ delivered = {} /\ sentLog = {}
  BY EngineAssumption DEF Init
<1> QED
  BY <1>1, <1>2, <1>3, <1>4 DEF TInv

LEMMA TInvTypeOK == TInv => TypeOK
<1> SUFFICES ASSUME TInv PROVE TypeOK
  OBVIOUS
<1>1. \A d \in net : d.to \in Peer /\ d.from \in Peer /\ d.msg.signer \in Peer
  BY DEF TInv, DeliveryOK
<1>2. \A n \in Node : \A k \in tasks[n] :
          k.origin \in Peer /\ k.next \in 1..(NumObservers + 1)
  BY DEF TInv, TaskRecord
<1>3. shown \in [Node -> Seq(ShownRecord)]
  BY DEF TInv
<1>4. /\ \A n \in Node : chain[n] # <<>>
      /\ pending \in [Node -> Seq(EntryRecord)]
      /\ secrets \in [Node -> SUBSET Peer]
      /\ sent \in [Node -> 0..MaxSends]
      /\ forged \in 0..MaxForged
      /\ dups \in 0..MaxDups
  BY DEF TInv
<1> QED
  BY <1>1, <1>2, <1>3, <1>4 DEF TypeOK, ShownRecord, RmRecord

-----------------------------------------------------------------------------
(* Step lemmas for the typing invariant, one per action.                   *)

(* A delivery stays well formed while the log of signed messages grows.    *)
LEMMA DeliveryOKMono ==
    ASSUME NEW d, DeliveryOK(d), sentLog \subseteq sentLog'
    PROVE  DeliveryOK(d)'
  BY DEF DeliveryOK

LEMMA SendTextTInv ==
    ASSUME TInv, NEW n \in Node, NEW r \in Peer, NEW t \in Text,
           NEW e \in BOOLEAN, SendText(n, r, t, e)
    PROVE  TInv'
<1> DEFINE useEnc == e /\ r \in EncKnown[n]
           m == Msg("TEXT", <<n, sent[n] + 1>>, n, r,
                    IF useEnc THEN Encrypt(t, SharedSecret(n, r)) ELSE t,
                    useEnc, n)
           d == [to |-> r, from |-> n, msg |-> m]
<1>1. /\ r \in Known[n]
      /\ sent[n] < MaxSends
      /\ secrets' = IF useEnc THEN [secrets EXCEPT ![n] = @ \cup {r}]
                              ELSE secrets
      /\ pending' = [pending EXCEPT ![n] = Append(@, Entry("message", m.id, r))]
      /\ net' = net \cup {d}
      /\ sent' = [sent EXCEPT ![n] = @ + 1]
      /\ sentLog' = sentLog \cup {m}
      /\ UNCHANGED <<chain, tasks, forged, shown, delivered, dups>>
  BY DEF SendText, Record
<1>2. sent[n] \in 0..MaxSends /\ m.id \in MsgId
  BY DEF TInv, MsgId, Msg, Peer
<1>3. HonestSent(m)
  <2>1. CASE useEnc
    BY <1>2, <2>1 DEF HonestSent, Msg
  <2>2. CASE ~useEnc
    BY <1>2, <2>2 DEF HonestSent, Msg
  <2> QED
    BY <2>1, <2>2
<1>4. \A x \in net' \ net : DeliveryOK(x)'
  <2>1. /\ d.to \in Peer /\ d.from \in Node /\ d.from \in Peer
        /\ d.msg.signer = d.from /\ d.msg.type = "TEXT"
        /\ d.msg.id \in MsgId /\ d.msg.sender \in Peer
        /\ d.msg \in sentLog' /\ d.msg.recipient = d.to
    BY <1>1, <1>2 DEF Msg, Peer
  <2>2. \/ d.msg.nonce = FALSE /\ d.msg.content \in Text
        \/ d.msg.nonce = TRUE /\ d.msg.content \in CipherText
    <3>1. CASE useEnc
      <4>1. Encrypt(t, SharedSecret(n, r)) \in CipherText
        BY DEF Encrypt, SharedSecret, CipherText, Peer
      <4> QED
        BY <3>1, <4>1 DEF Msg
    <3>2. CASE ~useEnc
      BY <3>2 DEF Msg
    <3> QED
      BY <3>1, <3>2
  <2>3. net' \ net \subseteq {d}
    BY <1>1
  <2> QED
    BY <2>1, <2>2, <2>3 DEF DeliveryOK
<1>5. /\ \A x \in net' : DeliveryOK(x)'
      /\ \A x \in delivered' : DeliveryOK(x)'
  BY <1>1, <1>4, DeliveryOKMono DEF TInv
<1>6. pending' \in [Node -> Seq(EntryRecord)]
  <2>1. Entry("message", m.id, r) \in EntryRecord
    BY <1>2 DEF Entry, EntryRecord, Msg
  <2> QED
    BY <1>1, <2>1, AppendProperties DEF TInv
<1>7. /\ secrets' \in [Node -> SUBSET Peer]
      /\ sent' \in [Node -> 0..MaxSends]
  BY <1>1, <1>2, EngineAssumption DEF TInv
<1>8. \A x \in sentLog' : HonestSent(x)
  BY <1>1, <1>3 DEF TInv
<1> QED
  BY <1>1, <1>5, <1>6, <1>7, <1>8 DEF TInv

LEMMA BroadcastTextTInv ==
    ASSUME TInv, NEW n \in Node, NEW t \in Text, BroadcastText(n, t)
    PROVE  TInv'
<1> DEFINE m == Msg("TEXT", <<n, sent[n] + 1>>, n, "*", t, FALSE, n)
<1>1. /\ sent[n] < MaxSends
      /\ pending' = [pending EXCEPT ![n] = Append(@, Entry("broadcast", m.id, "*"))]
      /\ net' = net \cup {[to |-> p, from |-> n, msg |-> m] : p \in Known[n]}
      /\ sent' = [sent EXCEPT ![n] = @ + 1]
      /\ sentLog' = sentLog \cup {m}
      /\ UNCHANGED <<chain, secrets, tasks, forged, shown, delivered, dups>>
  BY DEF BroadcastText, Record
<1>2. sent[n] \in 0..MaxSends /\ m.id \in MsgId
  BY DEF TInv, MsgId, Msg, Peer
<1>3. HonestSent(m)
  BY <1>2 DEF HonestSent, Msg
<1>4. \A x \in net' \ net : DeliveryOK(x)'
  <2> SUFFICES ASSUME NEW x \in net' \ net PROVE DeliveryOK(x)'
    OBVIOUS
  <2>1. PICK p \in Known[n] : x = [to |-> p, from |-> n, msg |-> m]
    BY <1>1
  <2>2. p \in Peer
    BY EngineAssumption
  <2> QED
    BY <1>1, <1>2, <2>1, <2>2 DEF DeliveryOK, Msg, Peer
<1>5. /\ \A x \in net' : DeliveryOK(x)'
      /\ \A x \in delivered' : DeliveryOK(x)'
  BY <1>1, <1>4, DeliveryOKMono DEF TInv
<1>6. pending' \in [Node -> Seq(EntryRecord)]
  <2>1. Entry("broadcast", m.id, "*") \in EntryRecord
    BY <1>2 DEF Entry, EntryRecord, Msg
  <2> QED
    BY <1>1, <2>1, AppendProperties DEF TInv
<1>7. sent' \in [Node -> 0..MaxSends]
  BY <1>1, <1>2, EngineAssumption DEF TInv
<1>8. \A x \in sentLog' : HonestSent(x)
  BY <1>1, <1>3 DEF TInv
<1> QED
  BY <1>1, <1>5, <1>6, <1>7, <1>8 DEF TInv

LEMMA DropIncomingTInv ==
    ASSUME TInv, NEW n \in Node, NEW d \in net, DropIncoming(n, d)
    PROVE  TInv'
<1>1. /\ net' = net \ {d}
      /\ delivered' = delivered \cup {d}
      /\ UNCHANGED <<chain, pending, secrets, tasks, sent, sentLog, forged, shown, dups>>
  BY DEF DropIncoming
<1> QED
  BY <1>1, DeliveryOKMono DEF TInv

LEMMA LoseMessageTInv ==
    ASSUME TInv, NEW d \in net, LoseMessage(d)
    PROVE  TInv'
<1>1. /\ net' = net \ {d}
      /\ UNCHANGED <<chain, pending, secrets, tasks, sent, sentLog, forged, shown,
                     delivered, dups>>
  BY DEF LoseMessage
<1> QED
  BY <1>1, DeliveryOKMono DEF TInv

LEMMA RedeliverTInv ==
    ASSUME TInv, NEW d \in delivered, Redeliver(d)
    PROVE  TInv'
<1>1. /\ dups < MaxDups
      /\ net' = net \cup {d}
      /\ dups' = dups + 1
      /\ UNCHANGED <<chain, pending, secrets, tasks, sent, sentLog, forged, shown,
                     delivered>>
  BY DEF Redeliver
<1>2. dups' \in 0..MaxDups
  BY <1>1, EngineAssumption DEF TInv
<1> QED
  BY <1>1, <1>2, DeliveryOKMono DEF TInv

LEMMA RogueSendTInv ==
    ASSUME TInv, NEW g \in Rogue, NEW r \in Node, NEW s \in Peer, NEW t \in Text,
           RogueSend(g, r, s, t)
    PROVE  TInv'
<1> DEFINE x == [to |-> r, from |-> g,
                 msg |-> Msg("TEXT", <<g, forged + 1>>, s, r, t, FALSE, g)]
<1>1. /\ forged < MaxForged
      /\ net' = net \cup {x}
      /\ forged' = forged + 1
      /\ UNCHANGED <<chain, pending, secrets, tasks, sent, sentLog, shown,
                     delivered, dups>>
  BY DEF RogueSend
<1>2. forged \in 0..MaxForged /\ g \notin Node
  BY EngineAssumption DEF TInv
<1>3. \A y \in net' \ net : DeliveryOK(y)'
  <2>1. net' \ net \subseteq {x}
    BY <1>1
  <2>2. /\ x.to \in Peer /\ x.from \in Peer /\ x.from \notin Node
        /\ x.msg.signer = x.from /\ x.msg.type = "TEXT"
        /\ x.msg.id \in MsgId /\ x.msg.sender \in Peer
        /\ x.msg.nonce = FALSE /\ x.msg.content \in Text
    BY <1>2 DEF Msg, MsgId, Peer
  <2> QED
    BY <2>1, <2>2 DEF DeliveryOK
<1>4. forged' \in 0..MaxForged
  BY <1>1, <1>2, EngineAssumption
<1> QED
  BY <1>1, <1>3, <1>4, DeliveryOKMono DEF TInv

LEMMA SendAckTInv ==
    ASSUME TInv, NEW n \in Node, NEW k \in tasks[n], SendAck(n, k)
    PROVE  TInv'
<1> DEFINE x == [to |-> k.origin, from |-> n,
                 msg |-> Msg("ACK", <<"ack", n, k.rm.id>>, n, k.rm.sender,
                             [ack |-> k.rm.id], FALSE, n)]
<1>1. /\ net' = net \cup {x}
      /\ tasks' = [tasks EXCEPT ![n] = @ \ {k}]
      /\ UNCHANGED <<chain, pending, secrets, sent, sentLog, forged, shown,
                     delivered, dups>>
  BY DEF SendAck
<1>2. k \in TaskRecord
  BY DEF TInv
<1>3. \A y \in net' \ net : DeliveryOK(y)'
  <2>1. net' \ net \subseteq {x}
    BY <1>1
  <2>2. /\ x.to \in Peer /\ x.from \in Peer
        /\ x.msg.signer = x.from /\ x.msg.type = "ACK"
    BY <1>2 DEF Msg, TaskRecord, Peer
  <2> QED
    BY <2>1, <2>2 DEF DeliveryOK
<1>4. tasks' \in [Node -> SUBSET TaskRecord]
  BY <1>1 DEF TInv
<1> QED
  BY <1>1, <1>3, <1>4, DeliveryOKMono DEF TInv

LEMMA NotifyObserverTInv ==
    ASSUME TInv, NEW n \in Node, NEW k \in tasks[n], NotifyObserver(n, k)
    PROVE  TInv'
<1>1. /\ k.next <= NumObservers
      /\ shown' = [shown EXCEPT ![n] = Append(@, [rm |-> k.rm, origin |-> k.origin])]
      /\ tasks' = [tasks EXCEPT ![n] = (@ \ {k}) \cup {[k EXCEPT !.next = @ + 1]}]
      /\ UNCHANGED <<chain, pending, secrets, net, sent, sentLog, forged,
                     delivered, dups>>
  BY DEF NotifyObserver
<1>2. k \in TaskRecord
  BY DEF TInv
<1>3. [k EXCEPT !.next = @ + 1] \in TaskRecord
  BY <1>1, <1>2, EngineAssumption DEF TaskRecord
<1>4. [rm |-> k.rm, origin |-> k.origin] \in ShownRecord
  BY <1>2 DEF TaskRecord, ShownRecord
<1>5. shown' \in [Node -> Seq(ShownRecord)]
  BY <1>1, <1>4, AppendProperties DEF TInv
<1>6. tasks' \in [Node -> SUBSET TaskRecord]
  BY <1>1, <1>3 DEF TInv
<1> QED
  BY <1>1, <1>5, <1>6, DeliveryOKMono DEF TInv

LEMMA MinePendingTInv ==
    ASSUME TInv, NEW n \in Node, MinePending(n)
    PROVE  TInv'
<1>1. PICK nonce \in 0..MaxNonce :
        chain' = [chain EXCEPT ![n] =
                    Append(@, MinedBlock(Len(chain[n]), [messages |-> pending[n]],
                                         LatestBlock(chain[n]).hash, nonce))]
  BY DEF MinePending
<1> DEFINE b == MinedBlock(Len(chain[n]), [messages |-> pending[n]],
                           LatestBlock(chain[n]).hash, nonce)
<1>2. /\ pending' = [pending EXCEPT ![n] = <<>>]
      /\ UNCHANGED <<secrets, net, tasks, sent, sentLog, forged, shown,
                     delivered, dups>>
  BY DEF MinePending
<1>3. /\ Append(chain[n], b) \in Seq(Range(Append(chain[n], b)))
      /\ Len(Append(chain[n], b)) = Len(chain[n]) + 1
  BY AppendBlock DEF TInv
<1>4. Append(chain[n], b) # <<>>
  <2>1. chain[n] \in Seq(Range(chain[n]))
    BY DEF TInv
  <2>2. Len(chain[n]) \in Nat
    BY <2>1, LenProperties
  <2>3. Len(<<>>) = 0
    OBVIOUS
  <2> QED
    BY <1>3, <2>2, <2>3
<1>5. /\ DOMAIN chain' = Node
      /\ chain'[n] = Append(chain[n], b)
      /\ \A m \in Node \ {n} : chain'[m] = chain[m]
  BY <1>1 DEF TInv
<1>6. \A m \in Node : chain'[m] \in Seq(Range(chain'[m])) /\ chain'[m] # <<>>
  BY <1>3, <1>4, <1>5 DEF TInv
<1>7. pending' \in [Node -> Seq(EntryRecord)]
  BY <1>2, EmptySeq DEF TInv
<1> QED
  BY <1>2, <1>5, <1>6, <1>7, DeliveryOKMono DEF TInv

(* What _handle_text_message decodes: the decrypted text when it decrypts, *)
(* the raw content otherwise.                                              *)
Content(n, d) ==
    IF d.msg.nonce /\ d.from \in EncKnown[n] THEN d.msg.content.ct
                                              ELSE d.msg.content

(* A decoding that does not raise is the content itself, which is a text   *)
(* or a ciphertext.                                                        *)
LEMMA DecodedContent ==
    ASSUME TInv, NEW n \in Node, NEW d \in net, d.msg.type = "TEXT",
           NEW text \in Decodings(Content(n, d)), text # Undecodable
    PROVE  text = Content(n, d) /\ text \in Text \cup CipherText
<1>1. /\ \/ d.msg.nonce = FALSE /\ d.msg.content \in Text
         \/ d.msg.nonce = TRUE /\ d.msg.content \in CipherText
      /\ d.from \in Peer
  BY DEF TInv, DeliveryOK
<1>2. Content(n, d) \in Text \cup CipherText
  <2>1. CASE d.msg.nonce = TRUE /\ d.from \in EncKnown[n]
    BY <1>1, <2>1 DEF Content, CipherText
  <2>2. CASE ~(d.msg.nonce = TRUE /\ d.from \in EncKnown[n])
    BY <1>1, <2>2 DEF Content
  <2> QED
    BY <2>1, <2>2
<1>3. text = Content(n, d)
  BY DEF Decodings
<1> QED
  BY <1>2, <1>3

LEMMA ReceiveTextTInv ==
    ASSUME TInv, NEW n \in Node, NEW d \in net, ReceiveText(n, d)
    PROVE  TInv'
<1> DEFINE m == d.msg
           o == d.from
           decrypt == m.nonce /\ o \in EncKnown[n]
           failed == decrypt /\ m.content.key # SharedSecret(n, o)
           rm(text) == [id |-> m.id, sender |-> m.sender, content |-> text,
                        verified |-> TRUE]
<1>1. /\ d.to = n
      /\ Verified(n, d)
      /\ m.type = "TEXT"
      /\ net' = net \ {d}
      /\ delivered' = delivered \cup {d}
      /\ secrets' = IF decrypt THEN [secrets EXCEPT ![n] = @ \cup {o}]
                               ELSE secrets
      /\ UNCHANGED <<chain, sent, sentLog, forged, shown, dups>>
  BY DEF ReceiveText
<1>2. PICK text \in Decodings(Content(n, d)) :
        IF failed \/ text = Undecodable
        THEN UNCHANGED <<pending, tasks>>
        ELSE /\ pending' = [pending EXCEPT ![n] =
                              Append(@, Entry("received", m.id, m.sender))]
             /\ tasks' = [tasks EXCEPT ![n] =
                            @ \cup {[rm |-> rm(text), origin |-> o, next |-> 1]}]
  BY DEF ReceiveText, Record, Content
<1>3. /\ m.id \in MsgId /\ m.sender \in Peer /\ o \in Peer
  BY <1>1 DEF TInv, DeliveryOK
<1>4. secrets' \in [Node -> SUBSET Peer]
  BY <1>1, <1>3 DEF TInv
<1>5. /\ \A x \in net' : DeliveryOK(x)'
      /\ \A x \in delivered' : DeliveryOK(x)'
  BY <1>1, DeliveryOKMono DEF TInv
<1>6. /\ pending' \in [Node -> Seq(EntryRecord)]
      /\ tasks' \in [Node -> SUBSET TaskRecord]
  <2>1. CASE failed \/ text = Undecodable
    BY <1>2, <2>1 DEF TInv
  <2>2. CASE ~(failed \/ text = Undecodable)
    <3>1. text \in Text \cup CipherText
      BY <1>1, <2>2, DecodedContent
    <3>2. Entry("received", m.id, m.sender) \in EntryRecord
      BY <1>3 DEF Entry, EntryRecord, Peer
    <3>3. [rm |-> rm(text), origin |-> o, next |-> 1] \in TaskRecord
      BY <1>3, <3>1, EngineAssumption DEF TaskRecord, RmRecord
    <3>4. /\ pending' = [pending EXCEPT ![n] =
                          Append(@, Entry("received", m.id, m.sender))]
          /\ tasks' = [tasks EXCEPT ![n] =
                        @ \cup {[rm |-> rm(text), origin |-> o, next |-> 1]}]
      BY <1>2, <2>2
    <3>5. pending' \in [Node -> Seq(EntryRecord)]
      BY <3>2, <3>4, AppendProperties DEF TInv
    <3>6. tasks' \in [Node -> SUBSET TaskRecord]
      BY <3>3, <3>4 DEF TInv
    <3> QED
      BY <3>5, <3>6
  <2> QED
    BY <2>1, <2>2
<1> QED
  BY <1>1, <1>4, <1>5, <1>6 DEF TInv

LEMMA NextTInv == TInv /\ [Next]_vars => TInv'
<1> SUFFICES ASSUME TInv, [Next]_vars PROVE TInv'
  OBVIOUS
<1>1. ASSUME NEW n \in Node,
             \/ \E r \in Peer, t \in Text, e \in BOOLEAN : SendText(n, r, t, e)
             \/ \E t \in Text : BroadcastText(n, t)
             \/ \E d \in net : DropIncoming(n, d) \/ ReceiveText(n, d)
             \/ \E k \in tasks[n] : NotifyObserver(n, k) \/ SendAck(n, k)
             \/ MinePending(n)
      PROVE  TInv'
  BY <1>1, SendTextTInv, BroadcastTextTInv, DropIncomingTInv, ReceiveTextTInv,
     NotifyObserverTInv, SendAckTInv, MinePendingTInv
<1>2. CASE \E d \in net : LoseMessage(d)
  BY <1>2, LoseMessageTInv
<1>3. CASE \E d \in delivered : Redeliver(d)
  BY <1>3, RedeliverTInv
<1>4. CASE \E g \in Rogue, r \in Node, s \in Peer, t \in Text : RogueSend(g, r, s, t)
  BY <1>4, RogueSendTInv
<1>5. CASE UNCHANGED vars
  BY <1>5, DeliveryOKMono DEF TInv, vars
<1> QED
  BY <1>1, <1>2, <1>3, <1>4, <1>5 DEF Next, HonestNext, RogueNext

(* Every state the engines reach satisfies the type invariant: ledgers are *)
(* non-empty chains of entries the engine writes, shared-secret caches     *)
(* hold peers, suspended handlers are within the callback loop, and        *)
(* callbacks are handed well-formed ReceivedMessages.                      *)
THEOREM EngineTypeCorrect == Spec => []TypeOK
<1>1. Init => TInv
  BY InitTInv
<1>2. TInv /\ [Next]_vars => TInv'
  BY NextTInv
<1>3. TInv => TypeOK
  BY TInvTypeOK
<1> QED
  BY <1>1, <1>2, <1>3, PTL DEF Spec

-----------------------------------------------------------------------------
(* PlaintextIntegrity.                                                     *)

(* The cryptographic argument: a text message that arrived from an honest  *)
(* node, passed verification and decrypted (when it did) without failing,  *)
(* was sent by that node, and decodes to the text it sent.  The sender     *)
(* encrypted only if it held the receiver's key; with mutual keys the      *)
(* receiver then holds the sender's and decrypts under the same secret.    *)
LEMMA HonestPlaintext ==
    ASSUME TInv, MutualEncKeys,
           NEW n \in Node, NEW d \in net, d.to = n, Verified(n, d),
           d.msg.type = "TEXT", d.from \in Node,
           ~(/\ d.msg.nonce /\ d.from \in EncKnown[n]
             /\ d.msg.content.key # SharedSecret(n, d.from)),
           NEW text \in Decodings(Content(n, d)), text # Undecodable
    PROVE  d.msg \in sentLog /\ text = PlainText(d.msg.content)
<1> DEFINE m == d.msg
           o == d.from
<1>1. /\ m \in sentLog
      /\ m.nonce = TRUE => m.recipient = n
  BY DEF TInv, DeliveryOK
<1>2. HonestSent(m) /\ m.sender = o
  BY <1>1 DEF TInv, HonestSent, Verified
<1>3. text = Content(n, d)
  BY DecodedContent
<1>4. CASE m.nonce = FALSE /\ m.content \in Text
  BY <1>1, <1>3, <1>4 DEF Content, PlainText
<1>5. CASE /\ m.nonce = TRUE
           /\ m.recipient \in EncKnown[m.sender]
           /\ \E t \in Text : m.content = Encrypt(t, SharedSecret(m.sender, m.recipient))
  <2>1. PICK t \in Text : m.content = [ct |-> t, key |-> {o, n}]
    BY <1>1, <1>2, <1>5 DEF Encrypt, SharedSecret
  <2>2. o \in EncKnown[n]
    BY <1>1, <1>2, <1>5 DEF MutualEncKeys
  <2>3. Content(n, d) = t
    BY <1>5, <2>1, <2>2 DEF Content
  <2>4. m.content \notin Text
    BY <2>1, EngineAssumption DEF Peer
  <2>5. PlainText(m.content) = t
    BY <2>1, <2>4 DEF PlainText
  <2> QED
    BY <1>1, <1>3, <2>3, <2>5
<1> QED
  BY <1>2, <1>4, <1>5 DEF HonestSent

(* Steps that leave handlers and callbacks alone and only add signed       *)
(* messages keep what handlers and callbacks hold authentic.               *)
LEMMA AuthenticMono ==
    ASSUME Authentic, tasks' = tasks, shown' = shown, sentLog \subseteq sentLog'
    PROVE  Authentic'
  BY DEF Authentic, TaskAuthentic, PlaintextIntegrity

LEMMA ReceiveTextAuthentic ==
    ASSUME TInv, Authentic, MutualEncKeys,
           NEW n \in Node, NEW d \in net, ReceiveText(n, d)
    PROVE  Authentic'
<1> DEFINE m == d.msg
           o == d.from
           decrypt == m.nonce /\ o \in EncKnown[n]
           failed == decrypt /\ m.content.key # SharedSecret(n, o)
           rm(text) == [id |-> m.id, sender |-> m.sender, content |-> text,
                        verified |-> TRUE]
<1>1. /\ d.to = n
      /\ Verified(n, d)
      /\ m.type = "TEXT"
      /\ UNCHANGED <<sentLog, shown>>
  BY DEF ReceiveText
<1>2. PICK text \in Decodings(Content(n, d)) :
        IF failed \/ text = Undecodable
        THEN UNCHANGED <<pending, tasks>>
        ELSE tasks' = [tasks EXCEPT ![n] =
                         @ \cup {[rm |-> rm(text), origin |-> o, next |-> 1]}]
  BY DEF ReceiveText, Record, Content
<1>3. CASE failed \/ text = Undecodable
  BY <1>1, <1>2, <1>3, AuthenticMono
<1>4. CASE ~(failed \/ text = Undecodable)
  <2> DEFINE k0 == [rm |-> rm(text), origin |-> o, next |-> 1]
  <2>1. tasks' = [tasks EXCEPT ![n] = @ \cup {k0}]
    BY <1>2, <1>4
  <2>2. TaskAuthentic(k0)'
    <3>1. CASE o \in Node
      <4>1. m \in sentLog /\ text = PlainText(m.content)
        BY <1>1, <1>4, <3>1, HonestPlaintext
      <4> QED
        BY <1>1, <4>1 DEF TaskAuthentic
    <3>2. CASE o \notin Node
      BY <3>2 DEF TaskAuthentic
    <3> QED
      BY <3>1, <3>2
  <2>3. \A x \in Node : \A k \in tasks'[x] : TaskAuthentic(k)'
    BY <1>1, <2>1, <2>2 DEF TInv, Authentic, TaskAuthentic
  <2> QED
    BY <1>1, <2>3 DEF Authentic, PlaintextIntegrity
<1> QED
  BY <1>3, <1>4

LEMMA NotifyObserverAuthentic ==
    ASSUME TInv, Authentic, NEW n \in Node, NEW k \in tasks[n], NotifyObserver(n, k)
    PROVE  Authentic'
<1> DEFINE k2 == [k EXCEPT !.next = @ + 1]
           s == [rm |-> k.rm, origin |-> k.origin]
<1>1. /\ shown' = [shown EXCEPT ![n] = Append(@, s)]
      /\ tasks' = [tasks EXCEPT ![n] = (@ \ {k}) \cup {k2}]
      /\ UNCHANGED sentLog
  BY DEF NotifyObserver
<1>2. k \in TaskRecord /\ TaskAuthentic(k)
  BY DEF TInv, Authentic
<1>3. k2.rm = k.rm /\ k2.origin = k.origin
  BY <1>2 DEF TaskRecord
<1>4. \A x \in Node : \A j \in tasks'[x] : TaskAuthentic(j)'
  BY <1>1, <1>2, <1>3 DEF TInv, Authentic, TaskAuthentic
<1>5. PlaintextIntegrity'
  <2> SUFFICES ASSUME NEW x \in Node, NEW i \in 1..Len(shown'[x]),
                      shown'[x][i].origin \in Node
               PROVE  \E m \in sentLog' :
                         /\ m.id = shown'[x][i].rm.id
                         /\ shown'[x][i].rm.content = PlainText(m.content)
    BY DEF PlaintextIntegrity
  <2>1. shown[n] \in Seq(ShownRecord)
    BY DEF TInv
  <2>2. /\ Len(shown'[n]) = Len(shown[n]) + 1
        /\ \A j \in 1..Len(shown[n]) : shown'[n][j] = shown[n][j]
        /\ shown'[n][Len(shown[n]) + 1] = s
    BY <1>1, <2>1, AppendProperties DEF TInv
  <2>3. CASE x = n /\ i = Len(shown[n]) + 1
    BY <1>1, <1>2, <2>2, <2>3 DEF TaskAuthentic
  <2>4. CASE x = n /\ i \in 1..Len(shown[n])
    BY <1>1, <2>2, <2>4 DEF Authentic, PlaintextIntegrity
  <2>5. CASE x # n
    BY <1>1, <2>5 DEF TInv, Authentic, PlaintextIntegrity
  <2>6. Len(shown[n]) \in Nat
    BY <2>1, LenProperties
  <2> QED
    BY <2>2, <2>3, <2>4, <2>5, <2>6
<1> QED
  BY <1>4, <1>5 DEF Authentic

LEMMA SendAckAuthentic ==
    ASSUME TInv, Authentic, NEW n \in Node, NEW k \in tasks[n], SendAck(n, k)
    PROVE  Authentic'
<1>1. /\ tasks' = [tasks EXCEPT ![n] = @ \ {k}]
      /\ UNCHANGED <<sentLog, shown>>
  BY DEF SendAck
<1> QED
  BY <1>1 DEF TInv, Authentic, TaskAuthentic, PlaintextIntegrity

LEMMA NextAuthentic ==
    ASSUME TInv, Authentic, MutualEncKeys, [Next]_vars
    PROVE  Authentic'
<1>1. ASSUME NEW n \in Node,
             \/ \E r \in Peer, t \in Text, e \in BOOLEAN : SendText(n, r, t, e)
             \/ \E t \in Text : BroadcastText(n, t)
             \/ MinePending(n)
      PROVE  Authentic'
  BY <1>1, AuthenticMono DEF SendText, BroadcastText, MinePending
<1>2. ASSUME NEW n \in Node, NEW d \in net, DropIncoming(n, d) \/ ReceiveText(n, d)
      PROVE  Authentic'
  BY <1>2, AuthenticMono, ReceiveTextAuthentic DEF DropIncoming
<1>3. ASSUME NEW n \in Node, NEW k \in tasks[n], NotifyObserver(n, k) \/ SendAck(n, k)
      PROVE  Authentic'
  BY <1>3, NotifyObserverAuthentic, SendAckAuthentic
<1>4. CASE \/ \E d \in net : LoseMessage(d)
           \/ \E d \in delivered : Redeliver(d)
           \/ \E g \in Rogue, r \in Node, s \in Peer, t \in Text : RogueSend(g, r, s, t)
           \/ UNCHANGED vars
  BY <1>4, AuthenticMono DEF LoseMessage, Redeliver, RogueSend, vars
<1> QED
  BY <1>1, <1>2, <1>3, <1>4 DEF Next, HonestNext, RogueNext

(* When the two ends of every link between honest nodes agree on whether   *)
(* they hold each other's encryption key, every ReceivedMessage an         *)
(* observer is handed for a message that came from an honest node carries  *)
(* exactly the text that node passed to send_text or broadcast_text        *)
(* (run engine; run engine_asym_keys shows the hypothesis is needed).      *)
THEOREM PlaintextKept == MutualEncKeys => (Spec => []PlaintextIntegrity)
<1> SUFFICES ASSUME MutualEncKeys PROVE Spec => []PlaintextIntegrity
  OBVIOUS
<1>1. Init => IInv
  <2> SUFFICES ASSUME Init PROVE IInv
    OBVIOUS
  <2>1. Authentic
    BY EmptySeq DEF Init, Authentic, PlaintextIntegrity
  <2> QED
    BY <2>1, InitTInv DEF IInv
<1>2. IInv /\ [Next]_vars => IInv'
  BY NextTInv, NextAuthentic DEF IInv
<1>3. IInv => PlaintextIntegrity
  BY DEF IInv, Authentic
<1> QED
  BY <1>1, <1>2, <1>3, PTL DEF Spec

-----------------------------------------------------------------------------
(* Refinement of each node's ledger.  Under the mapping batches <-         *)
(* Batches(chain[n]), buffer <- pending[n], every engine step leaves n's   *)
(* ledger alone, records one entry on it (add_data) or is n's own          *)
(* mine_pending; these are a stutter, an Add and a Commit of n's log.      *)

(* What one engine step may do to node n's ledger.                         *)
LedgerStep(n) ==
    \/ /\ chain'[n] = chain[n]
       /\ \/ pending'[n] = pending[n]
          \/ \E e : pending'[n] = Append(pending[n], e)
    \/ MinePending(n)

(* A step that records e on node m's ledger and leaves every chain alone.  *)
LEMMA RecordStep ==
    ASSUME TInv, NEW m \in Node, NEW e, Record(m, e), UNCHANGED chain,
           NEW n \in Node
    PROVE  LedgerStep(n)
BY DEF TInv, Record, LedgerStep

LEMMA NextLedgerStep ==
    ASSUME TInv, [Next]_vars, NEW n \in Node
    PROVE  LedgerStep(n)
<1> USE DEF LedgerStep
<1>1. ASSUME NEW m \in Node, NEW r \in Peer, NEW t \in Text, NEW e \in BOOLEAN,
             SendText(m, r, t, e)
      PROVE  LedgerStep(n)
  BY <1>1, RecordStep DEF SendText
<1>2. ASSUME NEW m \in Node, NEW t \in Text, BroadcastText(m, t)
      PROVE  LedgerStep(n)
  BY <1>2, RecordStep DEF BroadcastText
<1>3. ASSUME NEW m \in Node, NEW d \in net, DropIncoming(m, d)
      PROVE  LedgerStep(n)
  BY <1>3 DEF DropIncoming
<1>4. ASSUME NEW m \in Node, NEW d \in net, ReceiveText(m, d)
      PROVE  LedgerStep(n)
  <2>1. UNCHANGED chain
    BY <1>4 DEF ReceiveText
  <2>2. PICK text \in Decodings(IF d.msg.nonce /\ d.from \in EncKnown[m]
                                 THEN d.msg.content.ct ELSE d.msg.content) :
          IF (d.msg.nonce /\ d.from \in EncKnown[m]
                /\ d.msg.content.key # SharedSecret(m, d.from))
             \/ text = Undecodable
          THEN UNCHANGED <<pending, tasks>>
          ELSE /\ Record(m, Entry("received", d.msg.id, d.msg.sender))
               /\ tasks' = [tasks EXCEPT ![m] =
                              @ \cup {[rm |-> [id |-> d.msg.id,
                                               sender |-> d.msg.sender,
                                               content |-> text,
                                               verified |-> TRUE],
                                       origin |-> d.from, next |-> 1]}]
    BY <1>4 DEF ReceiveText
  <2> QED
    BY <2>1, <2>2, RecordStep
<1>5. ASSUME NEW m \in Node, NEW k \in tasks[m],
             NotifyObserver(m, k) \/ SendAck(m, k)
      PROVE  LedgerStep(n)
  BY <1>5 DEF NotifyObserver, SendAck
<1>6. ASSUME NEW m \in Node, MinePending(m)
      PROVE  LedgerStep(n)
  <2>1. CASE m = n
    BY <1>6, <2>1
  <2>2. CASE m # n
    <3>1. chain'[n] = chain[n]
      BY <1>6, <2>2 DEF MinePending, TInv
    <3>2. pending'[n] = pending[n]
      BY <1>6, <2>2 DEF MinePending, TInv
    <3> QED
      BY <3>1, <3>2
  <2> QED
    BY <2>1, <2>2
<1>7. CASE \/ \E d \in net : LoseMessage(d)
           \/ \E d \in delivered : Redeliver(d)
           \/ \E g \in Rogue, r \in Node, s \in Peer, t \in Text : RogueSend(g, r, s, t)
  BY <1>7 DEF LoseMessage, Redeliver, RogueSend
<1>8. CASE UNCHANGED vars
  BY <1>8 DEF vars
<1> QED
  BY <1>1, <1>2, <1>3, <1>4, <1>5, <1>6, <1>7, <1>8 DEF Next, HonestNext, RogueNext

(* Each of those steps is a stutter, an Add or a Commit of n's log.        *)
LEMMA LedgerStepRefines ==
    ASSUME TInv, TInv', NEW n \in Node, LedgerStep(n)
    PROVE  [NodeLog(n)!Next]_<<Batches(chain[n]), pending[n]>>
<1>1. /\ chain[n] \in Seq(Range(chain[n]))
      /\ Len(chain[n]) >= 1
      /\ pending[n] \in Seq(EntryRecord)
  BY LenProperties, EmptySeq DEF TInv
<1>2. CASE chain'[n] = chain[n] /\ pending'[n] = pending[n]
  BY <1>2
<1>3. CASE chain'[n] = chain[n] /\ \E e : pending'[n] = Append(pending[n], e)
  <2>1. PICK e : pending'[n] = Append(pending[n], e)
    BY <1>3
  <2>2. pending'[n] \in Seq(EntryRecord) /\ Len(pending'[n]) = Len(pending[n]) + 1
        /\ pending'[n][Len(pending[n]) + 1] = e
    BY <1>1, <2>1, AppendProperties DEF TInv
  <2>3. e \in EntryRecord
    BY <1>1, <2>2, ElementOfSeq, LenProperties
  <2> QED
    BY <1>3, <2>1, <2>3 DEF NodeLog!Next, NodeLog!Add
<1>4. CASE MinePending(n)
  <2>1. PICK nonce \in 0..MaxNonce :
          chain' = [chain EXCEPT ![n] =
                      Append(@, MinedBlock(Len(chain[n]), [messages |-> pending[n]],
                                           LatestBlock(chain[n]).hash, nonce))]
    BY <1>4 DEF MinePending
  <2> DEFINE b == MinedBlock(Len(chain[n]), [messages |-> pending[n]],
                             LatestBlock(chain[n]).hash, nonce)
  <2>2. chain'[n] = Append(chain[n], b)
    BY <2>1 DEF TInv
  <2>3. BlockEntries(b) = pending[n]
    BY DEF BlockEntries, MinedBlock
  <2>4. Batches(chain'[n]) = Append(Batches(chain[n]), pending[n])
    BY <1>1, <2>2, <2>3, BatchesAppend
  <2>5. pending[n] # <<>> /\ pending'[n] = <<>>
    BY <1>4 DEF MinePending, TInv
  <2> QED
    BY <2>4, <2>5 DEF NodeLog!Next, NodeLog!Commit
<1> QED
  BY <1>2, <1>3, <1>4 DEF LedgerStep

(* Every node starts with the genesis chain and nothing pending: no        *)
(* batches and an empty buffer.                                            *)
LEMMA InitNodeLogs == Init => \A n \in Node : NodeLog(n)!Init
<1> SUFFICES ASSUME Init, NEW n \in Node PROVE NodeLog(n)!Init
  OBVIOUS
<1>1. PICK n0 \in [Node -> 0..MaxNonce] :
        chain = [m \in Node |-> <<MinedBlock(0, GenesisData, ZeroHash, n0[m])>>]
  BY DEF Init
<1>2. chain[n] \in Seq(Range(chain[n])) /\ Len(chain[n]) = 1
  BY <1>1, InitTInv DEF TInv
<1> QED
  BY <1>2, BatchesGenesis DEF Init, NodeLog!Init

(* The engine drives every node's Blockchain only through add_data and     *)
(* mine_pending, one call per step, so each node's ledger implements the   *)
(* append-only log for every value of the constants (run engine).          *)
THEOREM NodeLedgersImplementLog == Spec => NodeLedgersRefine
<1>1. Init => \A n \in Node : NodeLog(n)!Init
  BY InitNodeLogs
<1>2. TInv /\ TInv' /\ [Next]_vars =>
        \A n \in Node : [NodeLog(n)!Next]_<<Batches(chain[n]), pending[n]>>
  BY NextLedgerStep, LedgerStepRefines
<1> QED
  BY <1>1, <1>2, InitTInv, NextTInv, PTL DEF Spec, NodeLedgersRefine

=============================================================================
