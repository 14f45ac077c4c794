---------------------------- MODULE MCGptpRoles ----------------------------
(***************************************************************************)
(* Instances of GptpRoles for TLC: two ports, four system identities of    *)
(* which 3 is all ones, a neighbour on each side of this clock in the      *)
(* source order.  This system is identity 2 where LessAndFar is used (both  *)
(* are better) and identity 1 elsewhere.                                   *)
(***************************************************************************)
EXTENDS GptpRoles, TLC

Announce(root, steps, source, trace) ==
  [root |-> root, steps |-> steps, source |-> source, pathTrace |-> trace]

(* A grandmaster over one hop, and a better one from too far away: that     *)
(* qualifies nowhere, but a reused buffer may hold it.                      *)
LessAndFar == { Announce(1, 1, 0, {0, 2}), Announce(0, 3, 2, {2}) }

(* A better grandmaster, and the same from too far away. *)
NearAndFar == { Announce(0, 0, 2, {2}), Announce(0, 3, 2, {2}) }

OneBetter == { Announce(0, 0, 2, {2}) }

Configured == [p \in Ports |-> 3]
OnlyFirst  == [p \in Ports |-> IF p = 0 THEN 3 ELSE 0]

(* A negative logarithm, or one of 32 and more, makes 0 ticks of an interval. *)
AsBooted    == [p \in Ports |-> {8}]
ZeroOnFirst == [p \in Ports |-> IF p = 0 THEN {0, 8} ELSE {8}]

MCSelfRoots == {1}
SelfIsTwo   == {2}
MCNoGmRoots == {3}
NotCapable == {1, 3}      \* this system has priority1 = 255 too

=============================================================================
