-------------------------- MODULE StreamReservation --------------------------
(***************************************************************************)
(* What MSRP (src/msrp) does for its neighbours, whatever its tables,      *)
(* frames and timers: an attribute registered on a port is, in one step,   *)
(* reserved for and declared towards its destination; nothing is withdrawn *)
(* but all registrations and declarations by a restart, which keeps the    *)
(* reservations.  Msrp implements it.                                      *)
(***************************************************************************)
EXTENDS Naturals

CONSTANTS
  Ports,
  NoPort,        \* the pointer to no port
  PortPointer,   \* per port: the port its participant takes for its own
  Streams

VARIABLES
  registered,    \* the attributes registered, each with its port
  declared,      \* the attributes declared
  reserved,      \* the reservations
  working        \* the program still is

vars == <<registered, declared, reserved, working>>

Types == {"TALKER_ADVERTISE", "TALKER_FAILED", "LISTENER"}

Attribute == [port : Ports, stream : Streams, type : Types]

At(a, port) == [port |-> port, stream |-> a.stream, type |-> a.type]

(* A talker is declared everywhere but at its own port, a listener only     *)
(* towards the ports its talker has been reserved for.                      *)
Towards(a) ==
  {q \in Ports \ {PortPointer[a.port]} :
     a.type = "LISTENER" =>
       [port |-> q, stream |-> a.stream, type |-> "TALKER_ADVERTISE"] \in reserved}

Register(a) ==
  /\ working /\ UNCHANGED working
  /\ registered' = registered \cup {a}
  /\ reserved' = reserved \cup {At(a, PortPointer[a.port])}
  /\ declared' = declared \cup {At(a, q) : q \in Towards(a)}

Restart ==
  /\ working
  /\ registered' = {} /\ declared' = {}
  /\ UNCHANGED <<reserved, working>>

(* The program runs over one of its tables. *)
Break ==
  /\ working' = FALSE
  /\ UNCHANGED <<registered, declared, reserved>>

Init ==
  /\ registered = {} /\ declared = {}
  /\ reserved = {}
  /\ working = TRUE

Next ==
  \/ Break
  \/ Restart
  \/ \E a \in Attribute : Register(a)

Spec == Init /\ [][Next]_vars

=============================================================================
