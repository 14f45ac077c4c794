---------------------------- MODULE MCGptpBridge ----------------------------
(***************************************************************************)
(* An instance of GptpBridge for TLC: this clock has identity 1, all ones  *)
(* is 2, and the neighbour is 0.                                           *)
(***************************************************************************)
EXTENDS GptpBridge, TLC

Announce(root, steps, source, trace) ==
  [root |-> root, steps |-> steps, source |-> source, pathTrace |-> trace]

(* A better grandmaster, heard on either port, and the neighbour's syncs. *)
OneBetter == { Announce(0, 0, 0, {0}) }

OneSync == { [source |-> 0, seq |-> 0] }

Configured  == [p \in Ports |-> 3]
MCSelfRoots == {1}
MCNoGmRoots == {2}
EveryTick   == [p \in Ports |-> {1}]

=============================================================================
