--------------------------------- MODULE Cli ---------------------------------
(***************************************************************************)
(* The bmp commands of src/src/client/cli.py that change state: init       *)
(* (create the wallet file, overwriting an existing one on confirmation),  *)
(* register (enrol with the registry), and send (register, start the       *)
(* client, resolve a partial recipient id, send, stop).  Each command is   *)
(* one process that runs to completion, so each is one step; the Client   *)
(* class is not in the repository and its calls are modelled from the     *)
(* specification as outcomes that may succeed or fail.                     *)
(*                                                                         *)
(* A peer id is 64 hex digits; here it is a sequence of IdLen digits, and  *)
(* a recipient argument is any sequence of at most IdLen digits.  The      *)
(* registry returns its peers in an order the client does not control, so *)
(* "the first listed peer whose id starts with the argument" is any such   *)
(* peer.                                                                   *)
(***************************************************************************)
EXTENDS Naturals, Sequences

CONSTANTS
    Digit,      \* hex digits
    IdLen,      \* digits of a full peer id (64)
    Registry,   \* ids of the peers the registry lists (other than this one)
    Wallet,     \* wallet identities init may generate
    NoWallet,   \* no wallet file on disk
    MaxOut      \* model bound on messages sent

ASSUME CliAssumption ==
    /\ IdLen \in Nat \ {0}
    /\ Registry \subseteq [1..IdLen -> Digit]
    /\ NoWallet \notin Wallet
    /\ MaxOut \in Nat

(* A recipient argument: up to IdLen digits.                               *)
Arg == UNION {[1..k -> Digit] : k \in 0..IdLen}

VARIABLES
    walletFile,  \* the wallet on disk, or NoWallet
    enrolled,    \* wallets the registry has accepted
    exitCode,    \* exit status of the last command (0 or 1)
    outbox       \* history: <<argument, peer>> of every send reported sent

cvars == <<walletFile, enrolled, exitCode, outbox>>

(* peer["peer_id"].startswith(recipient)                                   *)
StartsWith(id, a) == Len(a) <= IdLen /\ \A i \in 1..Len(a) : id[i] = a[i]

(* Mutation: the lookup loop breaks on the first listed peer without      *)
(* testing startswith.                                                      *)
ResolutionsFirstListed(a) == IF Len(a) < IdLen THEN Registry ELSE {a}

(* do_send's lookup: a full-length argument is used as is; a shorter one   *)
(* becomes the first listed peer id extending it, or stays as it is.       *)
Resolutions(a) ==
    IF Len(a) < IdLen /\ \E p \in Registry : StartsWith(p, a)
    THEN {p \in Registry : StartsWith(p, a)}
    ELSE {a}

Init ==
    /\ walletFile \in {NoWallet} \cup Wallet
    /\ enrolled = {}
    /\ exitCode = 0
    /\ outbox = <<>>

(* bmp init: with a wallet on disk, ask to overwrite; on no, return; on    *)
(* yes, unlink the file.  Then init_wallet creates and saves a new wallet, *)
(* or raises, which prints the error and exits 1.                          *)
InitCmd(confirm, created, w) ==
    /\ w # walletFile
    /\ IF walletFile # NoWallet /\ ~confirm
       THEN /\ exitCode' = 0
            /\ UNCHANGED walletFile
       ELSE /\ walletFile' = IF created THEN w ELSE NoWallet
            /\ exitCode' = IF created THEN 0 ELSE 1
    /\ UNCHANGED <<enrolled, outbox>>

(* bmp register: no wallet exits 1; otherwise client.register() either     *)
(* succeeds (exit 0) or fails or raises (exit 1).                          *)
RegisterCmd(ok) ==
    /\ IF walletFile = NoWallet \/ ~ok
       THEN /\ exitCode' = 1
            /\ UNCHANGED enrolled
       ELSE /\ exitCode' = 0
            /\ enrolled' = enrolled \cup {walletFile}
    /\ UNCHANGED <<walletFile, outbox>>

(* bmp send: no wallet exits 1; do_send registers (a failure returns       *)
(* False), starts the client, resolves the argument, and sends; the        *)
(* engine knows only registry peers, so an unresolved argument fails; the  *)
(* transport may fail too.  Success exits 0, anything else exits 1.        *)
SendCmd(a, regOk, target, transportOk) ==
    /\ Len(outbox) < MaxOut
    /\ target \in Resolutions(a)
    /\ LET sent == /\ walletFile # NoWallet /\ regOk
                   /\ target \in Registry /\ transportOk
       IN  /\ exitCode' = IF sent THEN 0 ELSE 1
           /\ outbox' = IF sent THEN Append(outbox, <<a, target>>) ELSE outbox
           /\ enrolled' = IF walletFile # NoWallet /\ regOk
                          THEN enrolled \cup {walletFile} ELSE enrolled
    /\ UNCHANGED walletFile

Next ==
    \/ \E c, ok \in BOOLEAN, w \in Wallet : InitCmd(c, ok, w)
    \/ \E ok \in BOOLEAN : RegisterCmd(ok)
    \/ \E a \in Arg, r, t \in BOOLEAN :
          \E p \in Resolutions(a) : SendCmd(a, r, p, t)

CliSpec == Init /\ [][Next]_cvars

-----------------------------------------------------------------------------
(* A message bmp send reports as sent went to a registry peer whose id     *)
(* extends the recipient argument: the prefix lookup never picks a peer    *)
(* the user did not name, and an unmatched argument is never sent.         *)
SentToNamedPeer ==
    \A i \in 1..Len(outbox) :
        outbox[i][2] \in Registry /\ StartsWith(outbox[i][2], outbox[i][1])

(* A command that exits with an error leaves the wallet on disk as it      *)
(* found it.                                                               *)
WalletKeptOnFailure == [][exitCode' = 1 => walletFile' = walletFile]_cvars

=============================================================================
