------------------------------- MODULE CliProofs -------------------------------
(***************************************************************************)
(* For every id length, registry and bound: every message bmp send         *)
(* reports as sent went to a registry peer the argument names.             *)
(***************************************************************************)
EXTENDS Cli, SequenceTheorems, TLAPS

(* Whatever do_send resolves an argument to, if the engine knows that      *)
(* peer, its id extends the argument: either the lookup matched it, or     *)
(* the argument was used as is and is itself a full registry id.           *)
LEMMA ResolvedNamesArg ==
    ASSUME NEW a \in Arg, NEW t \in Resolutions(a), t \in Registry
    PROVE  StartsWith(t, a)
<1>1. PICK k \in 0..IdLen : a \in [1..k -> Digit]
  BY DEF Arg
<1>2. a \in Seq(Digit) /\ Len(a) = k
  BY <1>1, SeqDef, CliAssumption
<1>3. CASE Len(a) < IdLen /\ \E p \in Registry : StartsWith(p, a)
  BY <1>3 DEF Resolutions
<1>4. CASE ~(Len(a) < IdLen /\ \E p \in Registry : StartsWith(p, a))
  <2>1. t = a
    BY <1>4 DEF Resolutions
  <2> QED
    BY <2>1, <1>2 DEF StartsWith
<1> QED
  BY <1>3, <1>4

(* The outbox is a sequence of pairs whose second element names its first. *)
Inv ==
    /\ outbox \in Seq(Arg \X Registry)
    /\ SentToNamedPeer

LEMMA InitInv == Init => Inv
BY EmptySeq DEF Init, Inv, SentToNamedPeer

LEMMA NextInv == Inv /\ [Next]_cvars => Inv'
<1> SUFFICES ASSUME Inv, [Next]_cvars PROVE Inv'
  OBVIOUS
<1>1. CASE \E c, ok \in BOOLEAN, w \in Wallet : InitCmd(c, ok, w)
  BY <1>1 DEF InitCmd, Inv, SentToNamedPeer
<1>2. CASE \E ok \in BOOLEAN : RegisterCmd(ok)
  BY <1>2 DEF RegisterCmd, Inv, SentToNamedPeer
<1>3. CASE \E a \in Arg, r, t \in BOOLEAN :
              \E p \in Resolutions(a) : SendCmd(a, r, p, t)
  <2>0. PICK a \in Arg, r, t \in BOOLEAN : \E p \in Resolutions(a) : SendCmd(a, r, p, t)
    BY <1>3
  <2>1. PICK p \in Resolutions(a) : SendCmd(a, r, p, t)
    BY <2>0
  <2> DEFINE sent == /\ walletFile # NoWallet /\ r
                     /\ p \in Registry /\ t
  <2>2. CASE sent
    <3>1. outbox' = Append(outbox, <<a, p>>) /\ <<a, p>> \in Arg \X Registry
      BY <2>1, <2>2 DEF SendCmd
    <3>2. StartsWith(p, a)
      BY <2>2, ResolvedNamesArg
    <3>3. /\ outbox' \in Seq(Arg \X Registry)
          /\ Len(outbox') = Len(outbox) + 1
          /\ \A i \in 1..Len(outbox) : outbox'[i] = outbox[i]
          /\ outbox'[Len(outbox) + 1] = <<a, p>>
      BY <3>1, AppendProperties DEF Inv
    <3>4. Len(outbox) \in Nat
      BY LenProperties DEF Inv
    <3>5. \A i \in 1..Len(outbox') :
            outbox'[i][2] \in Registry /\ StartsWith(outbox'[i][2], outbox'[i][1])
      <4> SUFFICES ASSUME NEW i \in 1..Len(outbox')
                   PROVE  outbox'[i][2] \in Registry
                          /\ StartsWith(outbox'[i][2], outbox'[i][1])
        OBVIOUS
      <4>1. CASE i = Len(outbox) + 1
        BY <2>2, <3>2, <3>3, <4>1
      <4>2. CASE i \in 1..Len(outbox)
        BY <3>3, <4>2 DEF Inv, SentToNamedPeer
      <4> QED
        BY <3>3, <3>4, <4>1, <4>2
    <3> QED
      BY <3>3, <3>5 DEF Inv, SentToNamedPeer
  <2>3. CASE ~sent
    BY <2>1, <2>3 DEF SendCmd, Inv, SentToNamedPeer
  <2> QED
    BY <2>2, <2>3
<1>4. CASE UNCHANGED cvars
  BY <1>4 DEF cvars, Inv, SentToNamedPeer
<1> QED
  BY <1>1, <1>2, <1>3, <1>4 DEF Next

(* bmp send never reports a message sent to a peer other than one whose    *)
(* id extends the recipient argument, for every registry and id length.   *)
THEOREM SendGoesToNamedPeer == CliSpec => []SentToNamedPeer
<1>1. Inv => SentToNamedPeer
  BY DEF Inv
<1> QED
  BY InitInv, NextInv, <1>1, PTL DEF CliSpec
=============================================================================
