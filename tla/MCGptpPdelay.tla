---------------------------- MODULE MCGptpPdelay ----------------------------
(***************************************************************************)
(* Instances of GptpPdelay for TLC.                                        *)
(***************************************************************************)
EXTENDS GptpPdelay, TLC

Message(id, seq, own) == [id |-> id, seq |-> seq, own |-> own]

(* What a neighbour that copies the request's port number answers: the      *)
(* number counts from 1, and the sequence id is read with the two octets    *)
(* that follow it, so neither is ever the machine's own.                    *)
Foreign == { Message(NumPorts, 0, FALSE) }

(* Answers to two requests of port 0, one of them sent by this system, and  *)
(* an answer to nobody. *)
Own == { Message(0, 1, FALSE), Message(0, 3, TRUE), Message(1, 1, FALSE) }
OwnFollowUps == { Message(0, 1, FALSE), Message(0, 3, FALSE) }

Signal(log, ratio, delay) == [log |-> log, ratio |-> ratio, delay |-> delay]

OneSlower   == { Signal(1, TRUE, TRUE) }
Slower      == { Signal(1, TRUE, TRUE), Signal(KeepInterval, TRUE, FALSE) }

NoMessages == {}

=============================================================================
