# TLA+ models of the blockchain messaging protocol

This directory models `src/src/core/blockchain.py` (the hash-chained ledger and
the Merkle root), `src/src/engine/engine.py` (the transmission engine) and the
state-changing commands of `src/src/client/cli.py`. It checks them with TLC on
small instances. With TLAPS it proves, for every value of the constants:
the ledger's invariants; that the ledger, alone and inside each engine,
implements an abstract append-only log; that every edit of a saved block other
than genesis is detected on reload; the engine's type correctness; when
encryption keys are mutual, that observers see exactly the sent plaintext; and
that `bmp send` only sends to a registered peer named by the argument.

## The system

The repository has three source files of protocol code:

- **Ledger** (`blockchain.py`): a `Block` record (index, timestamp, data,
  previous_hash, nonce, hash) mined by proof of work, and a `Blockchain` holding
  `chain` and `pending_data`. Its operations are:
  - the constructor, which mines a genesis block;
  - `add_data`, which buffers a payload;
  - `mine_pending`, which drains the buffer into one new mined block, or does
    nothing when the buffer is empty;
  - `is_chain_valid`, `get_messages`, and `to_dict`/`from_dict`;
  - the pure function `calculate_merkle_root`.
- **Transmission engine** (`engine.py`): it owns a Blockchain, a peer-keyed
  shared-secret cache and a chunk reassembler. Its operations are:
  - `send_text` and `broadcast_text`, which build, sign and optionally encrypt a
    message, record a ledger entry and then await the transport;
  - `_handle_incoming`, which verifies the signature against the origin peer's
    key and dispatches on type;
  - `_handle_text_message`, which decrypts and decodes the text, records a
    `received` entry, awaits every observer callback in turn, and then awaits the
    ACK send;
  - `_handle_stream_message`, which feeds the reassembler;
  - `mine_pending`.
- **CLI** (`cli.py`): click commands that build a `Client` (not in the
  repository) and run one `asyncio.run` each.

The collaborators `crypto.py`, `message.py`, `chunker.py`, `p2p.py` and
`client.py` are not in the repository. Where the engine depends on them, they are
modelled from `spec.md`.

Interaction: an engine writes to its own ledger. Engines interact only through
the P2P transport, which may lose messages. All engine code runs on one asyncio
thread, so a handler runs atomically up to its next `await`:

- `send_text` and `broadcast_text` change state only before their single await,
  so each is one step.
- The text handler is one step up to its first callback, one step per observer
  callback, and one step for the ACK.

Handlers of different messages interleave at those awaits.

## Modules

| Module | Models | State / actions |
|---|---|---|
| `LedgerOps` | blocks, hash, mining, `is_chain_valid`, `get_messages` | pure operators; SHA-256 is an ideal hash `<<index, data, prev, nonce>>`; `LeadingZeros` is a constant operator; `IsMinedNonce` is the *least* nonce meeting the target, as the loop from 0 finds it |
| `Ledger` | one `Blockchain` | `chain`, `pending`, history `added`; `Init` (constructor + genesis), `AddData`, `MinePending` |
| `LedgerTamper` | saving, editing and reloading the document | adds history `honest` and the steps `TamperData` and `TamperPrev`, which edit a block and keep its stored hash, as `from_dict` does |
| `LedgerLog` | what the ledger promises | abstract `batches` (committed payload lists) and `buffer`; `Add(p)`, `Commit` (non-empty buffer becomes one batch) |
| `LedgerProofs` | TLAPS proofs about `Ledger` | see below |
| `ChainLemmas` | lemmas on appending a block (`AppendBlock`) and on the batches a chain holds (`BatchesGenesis`, `BatchesAppend`) | used by the three proof modules |
| `LedgerTamperProofs` | TLAPS proof about `LedgerTamper` | see below |
| `Merkle` | `calculate_merkle_root` | the bottom-up loop (`NextLevel`, `Reduce`, `MerkleRoot`) and a top-down reference tree `RefRoot`; the variable `items` only enumerates inputs |
| `Engine` | `TransmissionEngine` on honest nodes `Node`, plus `Rogue` peers | per node `chain`, `pending`, `secrets` (the `_shared_secrets` keys) and `tasks` (handlers suspended at an await); the set `net` of in-flight deliveries; counters `sent` and `forged`; histories `sentLog` and `shown` |
| `EngineProofs` | TLAPS proofs about `Engine` | see below |
| `Cli` | `bmp init`, `register`, `send` | `walletFile` (the wallet on disk or `NoWallet`), `enrolled` (wallets registered), `exitCode`, `outbox` (sends reported successful, as argument/recipient pairs); one action per command, the missing `Client`'s calls as outcomes that succeed or fail |
| `CliProofs` | TLAPS proof about `Cli` | see below |
| `MC_*` | TLC instances | the digest's leading-zero count `MCLeadingZeros`, the peer directories, and in the `engine` run the finite id set `MCMsgId` (ids up to `MaxSends + MaxForged`, which the bounded counters never pass) so that TLC can enumerate ledger entries |

The Engine actions map to the code as follows:

- `SendText` and `BroadcastText` model the whole of their methods, up to the
  transport call.
- `DropIncoming` covers three early returns in `_handle_incoming`: an unknown
  key, a bad signature, and an ACK.
- `ReceiveText` covers the handler up to its first callback:
  - decryption happens only if a nonce is present and the sender's encryption
    key is known;
  - a failed decryption drops the message;
  - `content.decode()` either raises (`Undecodable`) or yields text;
  - otherwise it records a `received` entry and creates a task.
- `NotifyObserver` is one awaited callback. A raising callback has the same
  effect, because the loop goes on.
- `SendAck` is the ACK sent to the origin peer. As `create_ack_message` does,
  the ACK has an id of its own and names the acknowledged id in its content.
- A decrypted content is the record `[ct |-> text, key |-> {a, b}]`
  (`CipherText`): the ideal cipher under the secret shared by `a` and `b`.
  `EngineAssumption` says such a record is never itself a text.
- `MinePending(n)` models the engine's `mine_pending`.
- `LoseMessage` is the transport dropping a message.
- `RogueSend` is a registered peer signing with its own key and claiming any
  sender. It forms a next-state relation of its own, `RogueNext`. `Spec`
  (`HonestNext \/ RogueNext`) is the system with rogue peers: the proofs are
  about it, and the `engine_spoof` attack run uses it. `HonestSpec` leaves the
  rogue out and is what the passing `engine` run checks. A rogue's deliveries
  come from a peer outside `Node`, so they never reach the honest-origin cases
  that run's properties constrain.
- Suspended handlers (`tasks`) and in-flight deliveries (`net`) are sets. Two
  handlers of one repeated message at the same step, or two ACKs with one id,
  are a single element.
- `Redeliver` is the transport handing a node a delivery it already handed it
  (bounded by `MaxDups`); the history `delivered` records what was handed over.

`Ledger` maps its `chain` to `LedgerLog` by `Batches(chain)`, the entry lists of
the blocks after genesis (what `get_messages` concatenates), and `pending` to
`buffer`. `add_data` is `Add`, `mine_pending` on a non-empty buffer is `Commit`,
and on an empty one a stutter. `Batches` is defined in `LedgerOps`, and
`get_messages` is `FlattenSeq(Batches(chain))`.

`Engine` maps each node's ledger to the same log (`NodeLog(n)`, with
`batches <- Batches(chain[n])`, `buffer <- pending[n]` and the entry records as
payloads). The three `add_data` calls (send_text, broadcast_text, the text
handler) are `Add` on that node's log, and `mine_pending` is `Commit`. Every
other step is a stutter of every node's log.

The `Cli` actions model the whole command:

- `InitCmd`: if a wallet exists and the user declines, nothing happens; on
  confirmation the old file is unlinked and then `init_wallet` may succeed
  (new wallet, exit 0) or raise (no wallet, exit 1).
- `RegisterCmd`: exit 1 without a wallet or when `register` fails.
- `SendCmd`: without a wallet, exit 1; otherwise register, then resolve an
  argument shorter than an id to the first registry peer whose id starts with
  it (any of them, since the registry's order is not fixed; `Resolutions`),
  then send. TLC finds that a prefix of two ids, or the empty argument, goes
  to whichever matching peer the registry lists first; nothing in the code or
  the spec promises a unique match, so this is a hazard in `PROJECT.json`, not
  a checked property. A send to an unknown id, or a failing call, exits 1.

The crypto is modelled from the spec:

- Signatures are unforgeable: a message records its signer.
- Key derivation is symmetric: the secret of a and b is the set `{a, b}`.
- A ciphertext records its plaintext and the key it was made under.

## Runs

| Run | Result | What it shows |
|---|---|---|
| `ledger` | pass, 1813 states | `ChainValid`; `EntriesPreserved`: mined entries followed by pending ones are exactly the payloads added; `LogRefinement`: the ledger implements `LedgerLog` |
| `ledger_tamper_body` | pass, 807 states | an edit of any non-genesis block is detected by `is_chain_valid`, even after more blocks are mined |
| `ledger_tamper_genesis` | **violation** | an edit of the genesis block is never detected (`range(1, len(chain))`) |
| `engine` | pass, 117715 states | `PlaintextIntegrity`: observers see exactly the sent text. `LedgerCorrespondence`: every `received` entry naming an honest node has a matching `message`/`broadcast` entry in that node's ledger. Both hold under loss, one repeated delivery and interleaving. `NodeLedgersRefine`: every node's ledger implements `LedgerLog` |
| `engine_duplicate` | **violation** | a repeated delivery is handled twice: two `received` entries for one message id (`AtMostOnceReceipt`). By the same code path the callbacks and the ACK also run twice; the trace does not show this, because the model's handler and message sets merge identical elements |
| `engine_spoof` | **violation** | a rogue peer delivers a verified message whose `sender` is an honest node (`ReceivedAuthentic`) |
| `engine_asym_keys` | **violation** | if only the sender knows the other's encryption key, the receiver delivers ciphertext bytes as verified text |
| `merkle` | pass, 364 states | the loop agrees with the reference tree for every list of up to 5 items over 3 values |
| `merkle_single_leaf` | **violation** | the root of `[x]` is `H(x)`, not `H(H(x)+H(x))` as spec section 8 says |
| `cli` | pass, 1371 states | `SentToNamedPeer`: a successful send went to a registry peer whose id starts with the argument |
| `cli_wallet_overwrite` | **violation** | `init` unlinks the old wallet before `init_wallet`; when that raises, it exits 1 with no wallet (`WalletKeptOnFailure`) |

The six violations are listed as findings in `PROJECT.json`. Each property of a
passing run has a mutant in `PROJECT.json`, and TLC finds the property violated
with that mutant. Examples:

- a mining loop that does not refresh the hash;
- `mine_pending` not clearing the buffer (in `Ledger`, and in `Engine`, where it
  breaks `NodeLedgersRefine`);
- validation without the recompute check;
- `send_text` that does not record to the ledger;
- a handler that never decrypts;
- an off-by-one in the callback loop;
- an odd Merkle level that promotes instead of duplicating;
- `mine_pending` without its empty-buffer return (breaks `LogRefinement`);
- a partial-id lookup that ignores the prefix (breaks `SentToNamedPeer`).

**Bounds.**

- Ledger:
  - `MaxNonce = 3` and `Difficulty = 1`. Under `MCLeadingZeros`, mined nonces
    are 0 and 1, and both occur, so mining really searches.
  - Chains have up to 4 blocks and pending buffers up to 2 payloads over 2
    values. This covers mining a batch of two, and adding after a mine.
- Tamper runs: 3 blocks, so an edit can hit the genesis block, a middle block,
  or the last one, and be followed by further mining.
- Engine:
  - two nodes, one send each (`MaxSends = 1`), one observer;
  - chains of 2 blocks, so one mine happens after a send or a receive;
  - one forged message in the spoof run (with chains of 1);
  - one repeated delivery (`MaxDups = 1`) in the main and duplicate runs, so a
    delivery is re-handled after its first handler has run or while it is
    still suspended.

  Every branch of the handler happens within these bounds: encrypt or not,
  lost, dropped ACK, and a callback interleaved with other steps. With
  `MaxSends = 2` the state space did not finish within 15 minutes.
- CLI: ids of 2 digits over {0, 1}, a registry of three ids in which `0` is a
  prefix of two and `1` of one, two wallets, and two successful sends. So
  every argument length (empty, partial, full), unambiguous and ambiguous
  prefixes, unknown full ids, re-init with and without confirmation, and
  sending before and after registration all happen.
- Merkle: lists up to 5 items. The levels then have 1, 2, 3 and 5 nodes, so
  there is an odd level above the leaves.

**Deadlock** is not checked for the ledger, Merkle and engine runs
(`CHECK_DEADLOCK FALSE`). Every behaviour ends when the model's counters reach
their bounds. The code itself never stops: a caller may always call `add_data`
or `send_text` again. The CLI runs do check deadlock: a command can always be
run (init and register are never blocked).

**No liveness property.** The text handler is straight-line code: a loop over
the observer list, then one ACK (engine.py:303-317). Under weak fairness, every
suspended handler always has a step, so a property that every handler finishes
would hold whatever the loop did. What could really stop a handler is a
callback or `send_message` that never returns, and fairness would have to
assume that away. The transport may lose messages forever, and the code has no
retry or acknowledgment matching (spec section 7). So no progress property of
the sender holds either.

## Proofs (`LedgerProofs`, checked by `tlapm`)

Both proofs rest on `DifficultyAssumption`, `MaxNonceAssumption` and
`LedgerBoundsAssumption`.

- `TypeCorrect == Spec => []TypeOK`. `TypeOK` is inductive. The step for
  `MinePending` uses the lemma `AppendBlock`: appending to a sequence over its
  own range gives a sequence over the new range, with the earlier positions
  unchanged.
- `ChainAlwaysValid == Spec => []ChainValid`. `ChainValid` alone is not
  inductive, because it needs the chain to be a non-empty sequence. The
  inductive invariant is `IInv == TypeOK /\ ChainValid`. In the step
  `MinePendingChainValid`:
  - the new block's hash recomputes, because it is `BlockHash` of its own fields;
  - it links to `LatestBlock`;
  - it meets the target by `IsMinedNonce`;
  - the earlier blocks are unchanged.

- `RefinesLog == Spec => LogRefinement`: the ledger implements `LedgerLog`
  under the mapping above. `InitRefines`: the genesis chain gives no batches.
  `MinePendingRefines`: from `TypeOK` and the lemma `BatchesAppend`, the new
  chain's batches are the old ones with the drained buffer appended.
  `BatchesAppend` proves this element by element, with `SeqEqual`.
  `AddData` maps to `Add` directly. The temporal step combines these with
  `TypeCorrect` by PTL.

## Proofs (`CliProofs`)

- `SendGoesToNamedPeer == CliSpec => []SentToNamedPeer`, from `CliAssumption`.
  `SentToNamedPeer` is made inductive by adding the type of the outbox
  (`Inv`); a send appends a pair whose recipient is, by `Resolutions` and the
  `sent` condition, a registry id that starts with the argument.

## Proofs (`LedgerTamperProofs`)

- `TamperAlwaysDetected == TamperFrom > 1 => (TSpec => []TamperDetected)`,
  from `TamperFromAssumption` and the ledger assumptions. The hypothesis
  excludes the genesis block. The `ledger_tamper_genesis` run shows it is
  needed: `is_chain_valid` never recomputes block 1's hash.
- `TamperDetected` is not inductive: it says nothing of a chain that is still
  valid. The inductive invariant `TIInv` relates the loaded `chain` to the
  history `honest` that the object's own methods built:
  - the two have the same length;
  - they agree on every stored index, nonce and hash;
  - they are equal below `TamperFrom`;
  - every honest block after genesis has a hash that recomputes;
  - every block is a function over its field names (`IsRecord`). Without this,
    two blocks that agree on all five fields need not be equal.
- An edited block keeps the honest block's stored hash, but its data or
  `previous_hash` differs, so its hash no longer recomputes. TLC checked
  `TIInv` on the `ledger_tamper_body` instance before it was proved.

## Proofs (`EngineProofs`)

- `EngineTypeCorrect == Spec => []TypeOK`, from `EngineAssumption` and the
  ledger assumptions. `TypeOK` is not inductive, because the receive step reads
  the deliveries in `net`. The inductive invariant `TInv` adds:
  - the shape of every delivery in `net` and `delivered` (`DeliveryOK`): its
    signer is its transport sender, and a text from an honest node is in
    `sentLog` and, if encrypted, is for its recipient;
  - the shape of the tasks and of `shown`;
  - that every honest send in `sentLog` is signed by its sender and encrypted
    only under a key that sender holds (`HonestSent`).
- `PlaintextKept == MutualEncKeys => (Spec => []PlaintextIntegrity)`, with
  rogue peers present. Every message an observer is handed that arrived from
  an honest node carries the text of a message that node sent under the same
  id. "Arrived from" means its transport origin, whose signature verified. The
  theorem says nothing of the `sender` field, which a rogue can set to any
  node (`engine_spoof`). The inductive invariant is `TInv` plus `Authentic`:
  every suspended task and every shown entry from an honest origin carries the
  plaintext of a message in that origin's `sentLog`.
  - The step that needs the hypothesis is `ReceiveText`. The receiver
    decrypts only if it holds the sender's encryption key (engine.py:269).
    `MutualEncKeys` says the sender then holds the receiver's key too, so it
    encrypted the text rather than sending it in the clear.
  - The `engine_asym_keys` run shows the property fails without the
    hypothesis.
- `NodeLedgersImplementLog == Spec => NodeLedgersRefine`: every node's ledger
  implements `LedgerLog`. `NodeLedgersRefine` is `\A n \in Node :
  NodeLog(n)!Spec`, written with `[]` outside the quantifier, because that is
  the form TLC checks. The proof has two steps:
  - `NextLedgerStep`: every engine step leaves node n's chain alone and appends
    at most one entry to `pending[n]`, or is `MinePending(n)`. Handlers that
    record on another node change only that node's entry of `pending`.
  - `LedgerStepRefines`: from `TInv` before and after the step, the entry
    appended is an entry record, so the step is `Add`. `MinePending(n)` is
    `Commit` by `BatchesAppend`.
  - The genesis chains map to empty logs by `BatchesGenesis`. PTL combines the
    steps with `TInv`.

What stays with TLC:

- `EntriesPreserved` and `LedgerCorrespondence`, because they are stated with
  `FlattenSeq`, a recursive function. Unfolding it for every input needs the
  induction theorems, which take an operator parameter that the installed
  provers cannot instantiate.
- The Merkle comparison, because `Merkle` declares RECURSIVE operators, which
  take away tlapm's SMT backend.

## Not modelled

- The chunk codec and `_handle_stream_message` with its reassembler:
  `chunker.py` is not in the repository and the spec gives only its interface,
  so the reassembler keyed by `stream_id` alone (engine.py:336) is listed as a
  hazard without a property.
- Shared-secret caching under key rotation (engine.py:121): the peer
  directories are constants, so a cached secret cannot go stale in the model.
- The mining loop's termination (blockchain.py:53): the model bounds nonces;
  that a nonce meeting the target exists is a property of SHA-256.
- The CLI's `listen`, `peers`, `status` and `history`: they only print.
  `Client` itself is not in the repository, so `start`/`stop` are not modelled.
- The benchmarks (timing only), sockets and the registry.
- Not proved: `LedgerCorrespondence`, `EntriesPreserved` and the Merkle
  comparison (checked by TLC only; see above).
- The decrypt-failure branch of `ReceiveText` is never taken. An honest node
  encrypts only for its recipient, under their shared secret, and a rogue
  sends plaintext. A wrong key would need key rotation, which is not modelled.
- `init` exiting 1 after `init_wallet` succeeded, because a later `echo`
  raised: the model has no I/O errors on output.
