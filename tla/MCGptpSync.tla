----------------------------- MODULE MCGptpSync -----------------------------
(***************************************************************************)
(* Instances of GptpSync for TLC.                                          *)
(***************************************************************************)
EXTENDS GptpSync, TLC

Sync(source, seq) == [source |-> source, seq |-> seq]

(* Two neighbours; b's number is also one a sends. *)
TwoNeighbours == {"a", "b"}
ThreeSyncs == { Sync("a", 0), Sync("a", 1), Sync("b", 1) }

OneNeighbour == {"a"}
TwoSyncs == { Sync("a", 0), Sync("a", 1) }

OneOrTwo == {1, 2}

=============================================================================
