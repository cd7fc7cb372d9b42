-------------------------------- MODULE MC_Cli --------------------------------
EXTENDS Cli

(* Three listed peers: "0" names two of them, "1" one, "" all three.       *)
MCRegistry == {<<0, 0>>, <<0, 1>>, <<1, 0>>}
=============================================================================
