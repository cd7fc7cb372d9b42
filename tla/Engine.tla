------------------------------- MODULE Engine -------------------------------
(***************************************************************************)
(* TransmissionEngine of src/src/engine/engine.py, one per honest node,    *)
(* around a peer directory and a network of in-flight messages.            *)
(*                                                                         *)
(* The engine's methods are asyncio coroutines on one thread: a handler    *)
(* runs without interruption up to its next await.  send_text and          *)
(* broadcast_text change engine state only before their single await (the *)
(* transport call), so each is one step.  _handle_incoming runs            *)
(* synchronously up to the first observer callback; every callback and    *)
(* the final acknowledgment is an await, so each is a step of its own and  *)
(* handlers of different messages interleave there.                        *)
(*                                                                         *)
(* Cryptography (src/core/crypto.py, not in this repository's src/) is     *)
(* modelled from the specification: signatures are unforgeable (a message  *)
(* records its signer), X25519 derivation is symmetric (the secret of a    *)
(* and b is the set {a, b}), and a ciphertext records its plaintext and    *)
(* the secret it was made under.                                           *)
(***************************************************************************)
EXTENDS LedgerOps, FiniteSets

CONSTANTS
    Node,          \* nodes running a TransmissionEngine
    Rogue,         \* registered peers that run arbitrary code
    Text,          \* texts a caller may send
    Known,         \* Known[n]: peers n's P2P directory returns (get_peer)
    EncKnown,      \* EncKnown[n]: peers whose encryption_key n's directory has
    NumObservers,  \* callbacks registered with on_message
    MaxSends,      \* model bound on messages each node originates
    MaxBlocks,     \* model bound on each node's chain length
    MaxForged,     \* model bound on messages the rogue peers send
    MaxDups,       \* model bound on deliveries the transport repeats
    Undecodable    \* outcome of content.decode() raising UnicodeDecodeError

Peer == Node \cup Rogue

ASSUME EngineAssumption ==
    /\ Node \cap Rogue = {}
    /\ Known \in [Node -> SUBSET Peer]
    /\ EncKnown \in [Node -> SUBSET Peer]
    /\ \A n \in Node : n \notin Known[n] /\ EncKnown[n] \subseteq Known[n]
    /\ NumObservers \in Nat
    /\ MaxSends \in Nat
    /\ MaxBlocks \in Nat \ {0}
    /\ MaxForged \in Nat
    /\ MaxDups \in Nat
    /\ Undecodable \notin Text
    /\ \A t \in Text, a, b \in Peer : [ct |-> t, key |-> {a, b}] \notin Text
        \* a ciphertext record is never itself a text

VARIABLES
    chain,     \* chain[n]: the chain of n's Blockchain
    pending,   \* pending[n]: n's Blockchain.pending_data
    secrets,   \* secrets[n]: peers with an entry in n's _shared_secrets
    net,       \* in-flight deliveries [to, from, msg]; from is the origin peer
    tasks,     \* tasks[n]: n's text handlers suspended at an await
    sent,      \* sent[n]: number of messages n has originated (for ids)
    sentLog,   \* history: every message an honest node has signed and sent
    forged,    \* number of messages rogue peers have sent (for ids)
    delivered, \* history: every delivery the transport has handed to a node
    dups,      \* number of deliveries the transport has repeated
    shown      \* history: shown[n], the ReceivedMessages n passed to callbacks,
               \* each with the peer it arrived from

vars == <<chain, pending, secrets, net, tasks, sent, sentLog, forged, shown,
          delivered, dups>>

-----------------------------------------------------------------------------
(* Crypto envelope, modelled from the specification.                       *)

(* derive_shared_secret(own private, peer public): symmetric in the pair.  *)
SharedSecret(a, b) == {a, b}

(* encrypt_message(plaintext, secret)                                      *)
Encrypt(t, s) == [ct |-> t, key |-> s]

(* content.decode(): plaintext decodes to itself; ciphertext bytes may     *)
(* raise UnicodeDecodeError or decode to text (the bytes themselves).      *)
Decodings(c) == IF c \in Text THEN {c} ELSE {c, Undecodable}

(* A message handed to the P2P layer, as built by MessagePayload.create    *)
(* and signed by its signer's wallet.                                      *)
Msg(type, id, sender, recipient, content, nonce, signer) ==
    [type |-> type, id |-> id, sender |-> sender, recipient |-> recipient,
     content |-> content, nonce |-> nonce, signer |-> signer]

(* A ledger entry: the type, message id and peer fields of the dict.       *)
Entry(type, id, peer) == [type |-> type, id |-> id, peer |-> peer]

(* Blockchain.add_data on n's ledger.                                      *)
Record(n, e) == pending' = [pending EXCEPT ![n] = Append(@, e)]

-----------------------------------------------------------------------------
Init ==
    /\ \E n0 \in [Node -> 0..MaxNonce] :
          /\ \A n \in Node : IsMinedNonce(0, GenesisData, ZeroHash, n0[n])
          /\ chain = [n \in Node |->
                        <<MinedBlock(0, GenesisData, ZeroHash, n0[n])>>]
    /\ pending = [n \in Node |-> <<>>]
    /\ secrets = [n \in Node |-> {}]
    /\ net = {}
    /\ tasks = [n \in Node |-> {}]
    /\ sent = [n \in Node |-> 0]
    /\ sentLog = {}
    /\ forged = 0
    /\ delivered = {}
    /\ dups = 0
    /\ shown = [n \in Node |-> <<>>]

(* Mutation: send_text hands the message to the transport without         *)
(* recording it to the blockchain.                                         *)
SendTextNoRecord(n, r, t, encrypt) ==
    LET useEnc == encrypt /\ r \in EncKnown[n]
        m == Msg("TEXT", <<n, sent[n] + 1>>, n, r,
                 IF useEnc THEN Encrypt(t, SharedSecret(n, r)) ELSE t,
                 useEnc, n)
    IN  /\ r \in Known[n]
        /\ sent[n] < MaxSends
        /\ secrets' = IF useEnc THEN [secrets EXCEPT ![n] = @ \cup {r}]
                                ELSE secrets
        /\ net' = net \cup {[to |-> r, from |-> n, msg |-> m]}
        /\ sent' = [sent EXCEPT ![n] = @ + 1]
        /\ sentLog' = sentLog \cup {m}
        /\ UNCHANGED <<chain, pending, tasks, forged, shown, delivered, dups>>

(* send_text(r, t, encrypt) for a peer the directory knows (an unknown     *)
(* peer returns False and changes nothing).  Content is encrypted when     *)
(* asked to and the peer's encryption key is known; the message is signed; *)
(* a "message" entry is recorded; then the transport takes the message.    *)
SendText(n, r, t, encrypt) ==
    LET useEnc == encrypt /\ r \in EncKnown[n]
        m == Msg("TEXT", <<n, sent[n] + 1>>, n, r,
                 IF useEnc THEN Encrypt(t, SharedSecret(n, r)) ELSE t,
                 useEnc, n)
    IN  /\ r \in Known[n]
        /\ sent[n] < MaxSends
        /\ secrets' = IF useEnc THEN [secrets EXCEPT ![n] = @ \cup {r}]
                                ELSE secrets
        /\ Record(n, Entry("message", m.id, r))
        /\ net' = net \cup {[to |-> r, from |-> n, msg |-> m]}
        /\ sent' = [sent EXCEPT ![n] = @ + 1]
        /\ sentLog' = sentLog \cup {m}
        /\ UNCHANGED <<chain, tasks, forged, shown, delivered, dups>>

(* broadcast_text(t): unencrypted, recipient "*", a "broadcast" entry,     *)
(* then P2PNode.broadcast hands it to every peer of the directory.         *)
BroadcastText(n, t) ==
    LET m == Msg("TEXT", <<n, sent[n] + 1>>, n, "*", t, FALSE, n)
    IN  /\ sent[n] < MaxSends
        /\ Record(n, Entry("broadcast", m.id, "*"))
        /\ net' = net \cup {[to |-> p, from |-> n, msg |-> m] : p \in Known[n]}
        /\ sent' = [sent EXCEPT ![n] = @ + 1]
        /\ sentLog' = sentLog \cup {m}
        /\ UNCHANGED <<chain, secrets, tasks, forged, shown, delivered, dups>>

(* _handle_incoming's first step: the origin peer's public key is known   *)
(* and the signature verifies against it.                                  *)
Verified(n, d) == d.from \in Known[n] /\ d.msg.signer = d.from

(* _handle_incoming returning early: no public key or a bad signature,     *)
(* or an ACK, which is only logged.                                        *)
DropIncoming(n, d) ==
    /\ d \in net
    /\ d.to = n
    /\ ~Verified(n, d) \/ d.msg.type = "ACK"
    /\ net' = net \ {d}
    /\ delivered' = delivered \cup {d}
    /\ UNCHANGED <<chain, pending, secrets, tasks, sent, sentLog, forged, shown, dups>>

(* Mutation: the handler never decrypts and decodes the raw content.      *)
ReceiveTextNoDecrypt(n, d) ==
    LET m == d.msg
    IN  /\ d \in net
        /\ d.to = n
        /\ Verified(n, d)
        /\ m.type = "TEXT"
        /\ net' = net \ {d}
        /\ delivered' = delivered \cup {d}
        /\ \E text \in Decodings(m.content) :
              IF text = Undecodable
              THEN UNCHANGED <<pending, tasks>>
              ELSE LET rm == [id |-> m.id, sender |-> m.sender,
                              content |-> text, verified |-> TRUE]
                   IN  /\ Record(n, Entry("received", m.id, m.sender))
                       /\ tasks' = [tasks EXCEPT ![n] =
                                      @ \cup {[rm |-> rm, origin |-> d.from,
                                               next |-> 1]}]
        /\ UNCHANGED <<chain, secrets, sent, sentLog, forged, shown, dups>>

(* _handle_text_message up to its first await.  Decryption is attempted    *)
(* only when the message has a nonce and the origin peer's encryption key  *)
(* is known; a failed decryption or decode drops the message.  Otherwise   *)
(* a ReceivedMessage is built, a "received" entry recorded, and the        *)
(* handler goes on to the callbacks.                                       *)
ReceiveText(n, d) ==
    LET m == d.msg
        o == d.from
        decrypt == m.nonce /\ o \in EncKnown[n]
        failed == decrypt /\ m.content.key # SharedSecret(n, o)
        content == IF decrypt THEN m.content.ct ELSE m.content
    IN  /\ d \in net
        /\ d.to = n
        /\ Verified(n, d)
        /\ m.type = "TEXT"
        /\ net' = net \ {d}
        /\ delivered' = delivered \cup {d}
        /\ secrets' = IF decrypt THEN [secrets EXCEPT ![n] = @ \cup {o}]
                                 ELSE secrets
        /\ \E text \in Decodings(content) :
              IF failed \/ text = Undecodable
              THEN UNCHANGED <<pending, tasks>>
              ELSE LET rm == [id |-> m.id, sender |-> m.sender,
                              content |-> text, verified |-> TRUE]
                   IN  /\ Record(n, Entry("received", m.id, m.sender))
                       /\ tasks' = [tasks EXCEPT ![n] =
                                      @ \cup {[rm |-> rm, origin |-> o,
                                               next |-> 1]}]
        /\ UNCHANGED <<chain, sent, sentLog, forged, shown, dups>>

(* Mutation: the callback loop runs one step past the last observer.      *)
NotifyObserverPastEnd(n, k) ==
    /\ k \in tasks[n]
    /\ k.next <= NumObservers + 1
    /\ shown' = [shown EXCEPT ![n] = Append(@, [rm |-> k.rm, origin |-> k.origin])]
    /\ tasks' = [tasks EXCEPT ![n] = (@ \ {k}) \cup {[k EXCEPT !.next = @ + 1]}]
    /\ UNCHANGED <<chain, pending, secrets, net, sent, sentLog, forged, delivered, dups>>

(* One observer callback awaited with the ReceivedMessage; a raising       *)
(* callback is logged and the loop goes on, so the effect is the same.     *)
NotifyObserver(n, k) ==
    /\ k \in tasks[n]
    /\ k.next <= NumObservers
    /\ shown' = [shown EXCEPT ![n] = Append(@, [rm |-> k.rm, origin |-> k.origin])]
    /\ tasks' = [tasks EXCEPT ![n] = (@ \ {k}) \cup {[k EXCEPT !.next = @ + 1]}]
    /\ UNCHANGED <<chain, pending, secrets, net, sent, sentLog, forged, delivered, dups>>

(* After every callback: create_ack_message signed by n, addressed to the  *)
(* message's sender field and referring to the original id in its content, *)
(* sent with send_message to the origin peer.  The ACK has an id of its    *)
(* own, never that of a text message.                                      *)
SendAck(n, k) ==
    /\ k \in tasks[n]
    /\ k.next > NumObservers
    /\ net' = net \cup {[to |-> k.origin, from |-> n,
                         msg |-> Msg("ACK", <<"ack", n, k.rm.id>>, n, k.rm.sender,
                                     [ack |-> k.rm.id], FALSE, n)]}
    /\ tasks' = [tasks EXCEPT ![n] = @ \ {k}]
    /\ UNCHANGED <<chain, pending, secrets, sent, sentLog, forged, shown, delivered, dups>>

(* Mutation: mine_pending copies the pending data into the block and      *)
(* never clears it.                                                        *)
MinePendingNoClear(n) ==
    /\ pending[n] # <<>>
    /\ Len(chain[n]) < MaxBlocks
    /\ \E nonce \in 0..MaxNonce :
          LET data == [messages |-> pending[n]]
              prev == LatestBlock(chain[n]).hash
          IN  /\ IsMinedNonce(Len(chain[n]), data, prev, nonce)
              /\ chain' = [chain EXCEPT ![n] =
                             Append(@, MinedBlock(Len(chain[n]), data, prev, nonce))]
    /\ UNCHANGED <<pending, secrets, net, tasks, sent, sentLog, forged, shown, delivered, dups>>

(* TransmissionEngine.mine_pending: Blockchain.mine_pending on n's ledger. *)
MinePending(n) ==
    /\ pending[n] # <<>>
    /\ Len(chain[n]) < MaxBlocks
    /\ \E nonce \in 0..MaxNonce :
          LET data == [messages |-> pending[n]]
              prev == LatestBlock(chain[n]).hash
          IN  /\ IsMinedNonce(Len(chain[n]), data, prev, nonce)
              /\ chain' = [chain EXCEPT ![n] =
                             Append(@, MinedBlock(Len(chain[n]), data, prev, nonce))]
    /\ pending' = [pending EXCEPT ![n] = <<>>]
    /\ UNCHANGED <<secrets, net, tasks, sent, sentLog, forged, shown, delivered, dups>>

(* The transport loses a message (send_message failing, a dropped link).   *)
LoseMessage(d) ==
    /\ d \in net
    /\ net' = net \ {d}
    /\ UNCHANGED <<chain, pending, secrets, tasks, sent, sentLog, forged, shown, delivered, dups>>

(* The transport hands a delivery it already handed over to the node once *)
(* more (a resend after a lost ACK, a reconnect replaying its buffer).     *)
Redeliver(d) ==
    /\ d \in delivered \ net
    /\ dups < MaxDups
    /\ net' = net \cup {d}
    /\ dups' = dups + 1
    /\ UNCHANGED <<chain, pending, secrets, tasks, sent, sentLog, forged, shown, delivered>>

(* A rogue peer sends a TEXT message it signs with its own key, carrying   *)
(* any sender address.                                                      *)
RogueSend(g, r, s, t) ==
    /\ forged < MaxForged
    /\ net' = net \cup {[to |-> r, from |-> g,
                         msg |-> Msg("TEXT", <<g, forged + 1>>, s, r, t, FALSE, g)]}
    /\ forged' = forged + 1
    /\ UNCHANGED <<chain, pending, secrets, tasks, sent, sentLog, shown, delivered, dups>>

(* The honest nodes' handlers and the transport.                          *)
HonestNext ==
    \/ \E n \in Node :
          \/ \E r \in Peer, t \in Text, e \in BOOLEAN : SendText(n, r, t, e)
          \/ \E t \in Text : BroadcastText(n, t)
          \/ \E d \in net : DropIncoming(n, d) \/ ReceiveText(n, d)
          \/ \E k \in tasks[n] : NotifyObserver(n, k) \/ SendAck(n, k)
          \/ MinePending(n)
    \/ \E d \in net : LoseMessage(d)
    \/ \E d \in delivered : Redeliver(d)

(* The registered rogue peers.                                            *)
RogueNext == \E g \in Rogue, r \in Node, s \in Peer, t \in Text : RogueSend(g, r, s, t)

Next == HonestNext \/ RogueNext

Spec == Init /\ [][Next]_vars

(* The engines with no rogue peer registered.                             *)
HonestSpec == Init /\ [][HonestNext]_vars

(* Whenever one honest node's directory has another's encryption key, the  *)
(* other's directory has the first one's: both ends of a link agree on     *)
(* whether its messages are encrypted.                                     *)
MutualEncKeys == \A a, b \in Node : b \in EncKnown[a] => a \in EncKnown[b]

-----------------------------------------------------------------------------
(* Message ids: the originating peer and its send counter.                *)
MsgId == Peer \X Nat

(* The ciphertexts encrypt_message produces: a text under a secret        *)
(* derived from peers' keys.                                               *)
CipherText == [ct : Text, key : SUBSET Peer]

(* The ledger entries the engine writes.                                   *)
EntryRecord ==
    [type : {"message", "broadcast", "received"}, id : MsgId,
     peer : Peer \cup {"*"}]

TypeOK ==
    /\ \A n \in Node : chain[n] # <<>>
    /\ pending \in [Node -> Seq(EntryRecord)]
    /\ secrets \in [Node -> SUBSET Peer]
    /\ \A d \in net : d.to \in Peer /\ d.from \in Peer /\ d.msg.signer \in Peer
    /\ \A n \in Node : \A k \in tasks[n] :
          k.origin \in Peer /\ k.next \in 1..(NumObservers + 1)
    /\ sent \in [Node -> 0..MaxSends]
    /\ forged \in 0..MaxForged
    /\ dups \in 0..MaxDups
    /\ shown \in [Node -> Seq([rm : [id : MsgId, sender : Peer,
                                      content : Text \cup CipherText,
                                      verified : {TRUE}],
                                origin : Peer])]

(* Everything n's Blockchain holds: mined entries, then pending ones.      *)
LedgerEntries(n) == GetMessages(chain[n]) \o pending[n]

(* Node n's Blockchain seen as the abstract ledger log: its batches and    *)
(* its pending buffer of entry records.                                    *)
NodeLog(n) == INSTANCE LedgerLog
    WITH Payload <- EntryRecord, batches <- Batches(chain[n]), buffer <- pending[n]

(* Every node's ledger, driven by the engine's handlers, implements the    *)
(* append-only log: each step of send_text, broadcast_text, the text       *)
(* handler or mine_pending is one add_data (Add) or one mine_pending of a  *)
(* non-empty buffer (Commit) on one node, or leaves the ledger alone, so   *)
(* interleaved handlers never drop, reorder or rewrite a recorded entry.   *)
(* This is \A n \in Node : NodeLog(n)!Spec with [] moved out of the \A.    *)
NodeLedgersRefine ==
    /\ \A n \in Node : NodeLog(n)!Init
    /\ [][\A n \in Node :
            [NodeLog(n)!Next]_<<Batches(chain[n]), pending[n]>>]_vars

(* The text a message's content carries, encrypted or not.                 *)
PlainText(c) == IF c \in Text THEN c ELSE c.ct

(* Every ReceivedMessage that arrived from an honest node and was handed   *)
(* to an observer carries exactly the text that node passed to send_text   *)
(* or broadcast_text: the sender encrypts only when it knows the           *)
(* recipient's encryption key, the receiver decrypts only when the message *)
(* has a nonce and it knows the sender's key, and both derive one secret.  *)
PlaintextIntegrity ==
    \A n \in Node : \A i \in 1..Len(shown[n]) :
        shown[n][i].origin \in Node =>
            \E m \in sentLog :
                /\ m.id = shown[n][i].rm.id
                /\ shown[n][i].rm.content = PlainText(m.content)

(* Every "received" entry in a node's ledger naming an honest sender has a *)
(* matching "message" or "broadcast" entry, mined or pending, in that      *)
(* sender's ledger: send_text records before handing the message to the    *)
(* transport, and mine_pending never drops an entry.                       *)
LedgerCorrespondence ==
    \A n \in Node : \A i \in 1..Len(LedgerEntries(n)) :
        LET e == LedgerEntries(n)[i]
        IN  e.type = "received" /\ e.peer \in Node =>
              \E j \in 1..Len(LedgerEntries(e.peer)) :
                  /\ LedgerEntries(e.peer)[j].id = e.id
                  /\ LedgerEntries(e.peer)[j].type \in {"message", "broadcast"}

(* Section 4.4: a ReceivedMessage reports as its sender the peer whose     *)
(* signing key verified it; every ReceivedMessage naming an honest node    *)
(* as sender was sent by that node.                                        *)
ReceivedAuthentic ==
    \A n \in Node : \A i \in 1..Len(shown[n]) :
        shown[n][i].rm.sender \in Node =>
            \E m \in sentLog :
                m.id = shown[n][i].rm.id /\ m.sender = shown[n][i].rm.sender

(* Section 8: Bob's engine records one received entry for Alice's message; *)
(* no node's ledger holds two "received" entries for one message id.       *)
AtMostOnceReceipt ==
    \A n \in Node : \A i, j \in 1..Len(LedgerEntries(n)) :
        /\ i < j
        /\ LedgerEntries(n)[i].type = "received"
        /\ LedgerEntries(n)[j].type = "received"
        => LedgerEntries(n)[i].id # LedgerEntries(n)[j].id

=============================================================================
