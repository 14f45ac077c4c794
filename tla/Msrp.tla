-------------------------------- MODULE Msrp --------------------------------
(***************************************************************************)
(* MSRP (src/msrp): attributes that neighbours declare are registered,     *)
(* reserved for, and declared on the other ports; a participant per port   *)
(* with its attributes and its timers.                                     *)
(*                                                                         *)
(* MrpTablesProofs shows what the tables leave unreachable, and so out of  *)
(* this module: leave-all, the messages a declaration is sent with, and    *)
(* the release of reservations.                                            *)
(***************************************************************************)
EXTENDS MrpTables, FiniteSets

CONSTANTS
  NumPorts,          \* VTSS_MSRP_MAX_PORTS + VTSS_MSRP_MAX_APORTS
  MachineSlots,      \* machines[24]
  StreamSlots,       \* stream_info_vars[5]
  ReservationSlots,  \* reservations_info_ptr[30]
  JoinPeriod,        \* MRP_JOINTIMER_PERIOD_CENTISECONDS
  Streams,           \* stream identities that an entry of stream_info_vars may be given
  ZeroStream,        \* the identity that an unused entry holds
  Offers,            \* the streams that may arrive, each with the type of attribute it arrives with
  FallOff,           \* what a function without a return statement delivers
  NullPointToPoint   \* what reading point_to_point through NULL delivers

VARIABLES
  machine,      \* per port: the machines in use, in the order of their slots
  part,         \* per port: the rest of vtss_mrp_participant_t
  streams,      \* the identities in stream_info_vars
  reservation,  \* the entries of reservations_info_ptr in use
  frame,        \* the frame being received
  defined       \* the program has not left what C defines for memory it does not own

vars == <<machine, part, streams, reservation, frame, defined>>

Ports     == 0..(NumPorts - 1)
Slots     == 1..MachineSlots
NULL      == 0                   \* no slot
Elsewhere == MachineSlots + 1    \* memory that is no slot of this port
NoPort    == NumPorts            \* no port

Types == {"TALKER_ADVERTISE", "TALKER_FAILED", "LISTENER"}

ASSUME MsrpAssumption ==
  /\ NumPorts \in Nat \ {0} /\ JoinPeriod \in Nat
  /\ MachineSlots \in Nat /\ StreamSlots \in Nat /\ ReservationSlots \in Nat
  /\ Offers \subseteq (Streams \cup {ZeroStream}) \X Types
  /\ FallOff \subseteq Slots \cup {NULL, Elsewhere} /\ NullPointToPoint \in BOOLEAN

MachineType ==
  [ dir    : {"REG", "DEC"},              \* attr_dir
    stream : Streams, type : Types,       \* attribute_info, attribute_type
    reg    : RegStates \cup {Invalid},    \* reg_state, of registered attributes
    app    : AppStates \cup {Invalid} ]   \* app_state, of declared ones

(* leaveall_timer's timeout and that of the leave timer play no part: the   *)
(* first never runs, the second is always 0.                                *)
PartType ==
  [ join : BOOLEAN, joinLeft : 0..JoinPeriod,   \* join_timer_running
    leave : BOOLEAN,                            \* leave_timer_running
    sendPtr : BOOLEAN ]                         \* send_ptr is not NULL

Reservation == [port : Ports \cup {NoPort}, stream : Streams, type : Types]

(* slot: pAttribute, the attribute of the message before *)
FrameType == [port : Ports, slot : Slots \cup {NULL, Elsewhere}]
NoFrame   == [port |-> NoPort, slot |-> NULL]

Elements(s) == {s[i] : i \in DOMAIN s}

(* The states and values each variable ranges over. *)
TypeOK ==
  /\ machine \in [Ports -> Seq(MachineType)]
  /\ \A p \in Ports : Len(machine[p]) <= MachineSlots
  /\ part \in [Ports -> PartType]
  /\ streams \subseteq Streams
  /\ reservation \in Seq(Reservation) /\ Len(reservation) <= ReservationSlots
  /\ frame \in FrameType \cup {NoFrame}
  /\ defined \in BOOLEAN

----------------------------------------------------------------------------
(* msrp_sw_init sets the port of the first participant only, over and over. *)
PortOf(p) == IF p = 0 THEN NumPorts - 1 ELSE NoPort

(* The field of a port is never set. *)
PointToPoint(p) == PortOf(p) = NoPort /\ NullPointToPoint

(* An index beyond a table, a NULL written through: what follows is not     *)
(* described.                                                               *)
Overrun ==
  /\ defined' = FALSE
  /\ UNCHANGED <<machine, part, streams, reservation, frame>>

(* Mutant: every request starts the timer anew. *)
RequestRestarts(r) == [r EXCEPT !.join = TRUE, !.joinLeft = JoinPeriod]

(* mrp_req_tx_opportunity *)
RequestTx(r) == IF r.join THEN r ELSE [r EXCEPT !.join = TRUE, !.joinLeft = JoinPeriod]

----------------------------------------------------------------------------
(* mad_attr_event: the applicant.                                          *)
Moves(p, m, e) ==
  /\ HasCell(ApplicantTable, m.app, e)
  /\ ~(m.app \in {"VO", "VP"} /\ e = MRP_EVENT_R_JOIN_IN /\ PointToPoint(p))
  /\ ~(m.app = "AA" /\ e = MRP_EVENT_R_IN /\ ~PointToPoint(p))

NextApp(m, e) ==
  IF m.app = "AN" /\ e = MRP_EVENT_TX /\ m.reg # "IN"
  THEN "AA" ELSE ApplicantTable[m.app][e].state

AfterEvent(p, m, e) == IF Moves(p, m, e) THEN [m EXCEPT !.app = NextApp(m, e)] ELSE m

Asks(p, m, e) == Moves(p, m, e) /\ ApplicantTable[m.app][e].request

AskedIf(asks, r) == IF asks THEN RequestTx(r) ELSE r

(* A known attribute that was declared and gets an event. *)
ApplicantEvent(ms, p, i, e) ==
  /\ machine' = [ms EXCEPT ![p][i] = AfterEvent(p, @, e)]
  /\ part' = [part EXCEPT ![p] = AskedIf(Asks(p, ms[p][i], e), @)]
  /\ UNCHANGED <<reservation, defined>>

----------------------------------------------------------------------------
(* mad_attr_event: the registrar.                                          *)
KeyOf(m, port) == [port |-> port, stream |-> m.stream, type |-> m.type]

(* Mutant: a reservation is made without looking for one. *)
AddReservation(key) == Append(reservation, key)

(* Mutant: a listener is not reserved for. *)
TalkersOnly(key) ==
  IF key.type = "LISTENER" \/ key \in Elements(reservation)
  THEN reservation ELSE Append(reservation, key)

(* msrp_mad_join_ind: find a reservation or make one *)
Reserve(key) ==
  IF key \in Elements(reservation) THEN reservation ELSE Append(reservation, key)

(* Mutant: the last port is left out. *)
AllButLastPort(p, m) == {q \in Ports : q # PortOf(p) /\ q # NumPorts - 1}

(* Mutant: a listener is declared on every port. *)
TargetsOfTalker(p, m) == {q \in Ports : q # PortOf(p)}

(* msrp_map_join_propagate: the ports an attribute is declared on. *)
Targets(p, m) ==
  {q \in Ports :
     /\ q # PortOf(p)
     /\ m.type = "LISTENER" =>
          [port |-> q, stream |-> m.stream, type |-> "TALKER_ADVERTISE"]
            \in Elements(reservation)}

(* get_attribute_app, then msrp_mad_join_req: NEW or JOIN in state VO *)
Declaration(q, m, isNew) ==
  AfterEvent(q, [dir |-> "DEC", stream |-> m.stream, type |-> m.type,
                 reg |-> Invalid, app |-> "VO"],
             IF isNew THEN MRP_EVENT_NEW ELSE MRP_EVENT_JOIN)

(* Mutant: nobody looks where the machines end. *)
NoRoomToReserve(ms, p, i) ==
  Len(Reserve(KeyOf(ms[p][i], PortOf(p)))) > ReservationSlots

(* The scans for a free entry end behind the tables. *)
NoRoom(ms, p, i) ==
  LET m == ms[p][i]
  IN  \/ Len(Reserve(KeyOf(m, PortOf(p)))) > ReservationSlots
      \/ \E q \in Targets(p, m) : Len(ms[q]) = MachineSlots

JoinIndication(ms, p, i, cell) ==
  LET m == ms[p][i]
      registered(q) == IF q = p THEN [ms[q] EXCEPT ![i].reg = cell.state] ELSE ms[q]
  IN  /\ ~NoRoom(ms, p, i)
      /\ reservation' = Reserve(KeyOf(m, PortOf(p)))
      /\ machine' = [q \in Ports |->
           IF q \in Targets(p, m)
           THEN Append(registered(q), Declaration(q, m, cell.indicate = "NEW"))
           ELSE registered(q)]
      /\ part' = [q \in Ports |-> AskedIf(q \in Targets(p, m), part[q])]
      /\ UNCHANGED defined

(* Mutant: a message that only moves the registrar is not registered anew. *)
Forget(m, cell) == [m EXCEPT !.reg = "MT"]

Registered(m, cell) == [m EXCEPT !.reg = cell.state]

StayOrLeave(ms, p, i, cell) ==
  /\ machine' = [ms EXCEPT ![p][i] = Registered(@, cell)]
  /\ part' = [part EXCEPT ![p].leave = @ \/ cell.leaveTimer]
  /\ UNCHANGED <<reservation, defined>>

RegistrarEvent(ms, p, i, e) ==
  LET cell == RegistrarTable[ms[p][i].reg][e]
  IN  \/ cell.indicate \in {"NEW", "JOIN"} /\ JoinIndication(ms, p, i, cell)
      \/ cell.indicate = "None" /\ StayOrLeave(ms, p, i, cell)

NoEffect(ms) == machine' = ms /\ UNCHANGED <<part, reservation, defined>>

(* decode_threepacked divides a signed char: what arrives may be negative.  *)
(* From -5 to -1 all find the same, before the row: the zeros that end the  *)
(* row before or, in the row of zero, what lies before the table.           *)
Negative == -1

Arriving == WireEvents \cup {Negative}

(* A slot that is not in use holds zeros: both states are invalid. *)
AttrEvent(ms, p, i, e) ==
  \/ (i \notin DOMAIN ms[p] \/ e = Negative) /\ NoEffect(ms)
  \/ /\ i \in DOMAIN ms[p] /\ ms[p][i].dir = "DEC" /\ e \in WireEvents
     /\ ApplicantEvent(ms, p, i, e)
  \/ /\ i \in DOMAIN ms[p] /\ ms[p][i].dir = "REG" /\ e \in WireEvents
     /\ IF HasCell(RegistrarTable, ms[p][i].reg, e)
        THEN RegistrarEvent(ms, p, i, e) ELSE NoEffect(ms)

(* The join indication or its propagation needs a slot there is not, the    *)
(* event a column, or the attribute is none of the port's.                  *)
EventOverruns(ms, p, i, e) ==
  \/ i = Elsewhere \/ e = Negative
  \/ /\ i \in DOMAIN ms[p] /\ ms[p][i].dir = "REG"
     /\ HasCell(RegistrarTable, ms[p][i].reg, e)
     /\ RegistrarTable[ms[p][i].reg][e].indicate \in {"NEW", "JOIN"}
     /\ NoRoom(ms, p, i)

----------------------------------------------------------------------------
(* vtss_msrp_receive.  A frame carries any number of messages.             *)
BeginFrame(p) ==
  /\ defined /\ frame = NoFrame
  /\ frame' = [port |-> p, slot |-> NULL]
  /\ UNCHANGED <<machine, part, streams, reservation, defined>>

InFrame == defined /\ frame # NoFrame

WithRegistrar(p, stream, type) ==
  [machine EXCEPT ![p] = Append(@, [dir |-> "REG", stream |-> stream, type |-> type,
                                    reg |-> "MT", app |-> Invalid])]

(* vtss_msrp_find_stream does not ask whether an entry is in use: the zero  *)
(* identity is found as long as one is not, and perhaps behind the table.   *)
IsNew(stream) ==
  stream \notin streams /\ (stream = ZeroStream => Cardinality(streams) = StreamSlots)

IsFound(stream) == stream \in streams \cup {ZeroStream}

(* vtss_msrp_allocate_stream, get_attribute_reg, mad_attr_event *)
ReceiveNewStream(stream, type, e) ==
  LET p  == frame.port
      i  == Len(machine[p]) + 1
      ms == WithRegistrar(p, stream, type)
      full == Cardinality(streams) = StreamSlots \/ i > MachineSlots
  IN  /\ InFrame /\ IsNew(stream)
      /\ \/ (full \/ EventOverruns(ms, p, i, e)) /\ Overrun
         \/ /\ ~full /\ AttrEvent(ms, p, i, e)
            /\ streams' = streams \cup {stream}
            /\ frame' = [frame EXCEPT !.slot = i]

(* find_attribute_by_existing_stream_info compares the address of a field   *)
(* with a number, finds nothing, and returns nothing: which known stream    *)
(* was received makes no difference.                                        *)
ReceiveKnownStream(e) ==
  /\ InFrame /\ \E o \in Offers : IsFound(o[1])
  /\ \E i \in FallOff :
       \/ EventOverruns(machine, frame.port, i, e) /\ Overrun
       \/ /\ i # NULL /\ AttrEvent(machine, frame.port, i, e)
          /\ frame' = [frame EXCEPT !.slot = i] /\ UNCHANGED streams
       \/ /\ i = NULL
          /\ frame' = [frame EXCEPT !.slot = NULL]
          /\ UNCHANGED <<machine, part, streams, reservation, defined>>

(* The event of a domain goes to the attribute of the message before; at    *)
(* the start of a frame through NULL.                                       *)
ReceiveDomain(e) ==
  /\ InFrame
  /\ \/ (frame.slot = NULL \/ EventOverruns(machine, frame.port, frame.slot, e)) /\ Overrun
     \/ frame.slot = NULL /\ UNCHANGED vars
     \/ /\ frame.slot # NULL /\ AttrEvent(machine, frame.port, frame.slot, e)
        /\ UNCHANGED <<streams, frame>>

(* mad_machine_active.  It compares the state of a registered attribute     *)
(* with the message Empty, the number of the state L2.                      *)
Active(m) == IF m.dir = "DEC" THEN m.app # "VO" ELSE m.reg # "L2"

(* mad_attrtype_event and mad_event, which never find the PDU full *)
EventForAll(p, types, e) ==
  [i \in DOMAIN machine[p] |->
     IF Active(machine[p][i]) /\ machine[p][i].type \in types
     THEN AfterEvent(p, machine[p][i], e) ELSE machine[p][i]]

SomeAsks(p, types, e) ==
  \E m \in Elements(machine[p]) : Active(m) /\ m.type \in types /\ Asks(p, m, e)

ReceiveLeaveAll(type) ==
  LET p == frame.port
  IN  /\ InFrame
      /\ machine' = [machine EXCEPT ![p] = EventForAll(p, {type}, MRP_EVENT_R_LA)]
      /\ part' = [part EXCEPT ![p] = AskedIf(SomeAsks(p, {type}, MRP_EVENT_R_LA), @)]
      /\ UNCHANGED <<streams, reservation, frame, defined>>

EndFrame ==
  /\ InFrame
  /\ frame' = NoFrame
  /\ UNCHANGED <<machine, part, streams, reservation, defined>>

----------------------------------------------------------------------------
(* vtss_msrp_more_work and vtss_msrp_tick.                                 *)
Opportunity(p) == part[p].join /\ part[p].joinLeft = 0 /\ ~PointToPoint(p)

(* The leave timer has expired when it starts; no table has a column for    *)
(* its event.                                                               *)
Worked(p) ==
  LET r == [part[p] EXCEPT !.leave = FALSE]
  IN  CASE r.join /\ r.joinLeft = 0 ->
             LET stopped == [r EXCEPT !.join = FALSE, !.sendPtr = @ \/ Opportunity(p)]
             IN  AskedIf(Opportunity(p) /\ SomeAsks(p, Types, MRP_EVENT_TX), stopped)
        [] ~r.join /\ ~PointToPoint(p) -> RequestTx(r)
        [] OTHER -> r

(* The first PDU of a participant is padded from NULL to the end of its     *)
(* header: the processor traps, memory is overwritten, or, where NULL does  *)
(* not compare below the buffer, nothing happens.                           *)
Work ==
  /\ machine' = [p \in Ports |->
       IF Opportunity(p) THEN EventForAll(p, Types, MRP_EVENT_TX) ELSE machine[p]]
  /\ defined' \in IF \E p \in Ports : Opportunity(p) /\ ~part[p].sendPtr
                  THEN BOOLEAN ELSE {TRUE}
  /\ UNCHANGED <<streams, reservation, frame>>

MoreWork ==
  /\ defined /\ frame = NoFrame
  /\ Work
  /\ part' = [p \in Ports |-> Worked(p)]

(* Mutant: a tick leaves the timer. *)
NotCountedDown(r) == r

CountedDown(r) == IF r.join /\ r.joinLeft > 0 THEN [r EXCEPT !.joinLeft = @ - 1] ELSE r

Tick ==
  /\ defined /\ frame = NoFrame
  /\ Work
  /\ part' = [p \in Ports |-> CountedDown(Worked(p))]

----------------------------------------------------------------------------
(* initialize_participant asks for an opportunity for the domain. *)
BootPart == [join |-> TRUE, joinLeft |-> JoinPeriod, leave |-> FALSE, sendPtr |-> FALSE]

(* vtss_msrp_deinit: msrp_sw_init.  Streams and reservations are not in the *)
(* structure it clears.                                                     *)
Deinit ==
  /\ defined /\ frame = NoFrame
  /\ machine' = [p \in Ports |-> <<>>]
  /\ part' = [p \in Ports |-> BootPart]
  /\ UNCHANGED <<streams, reservation, frame, defined>>

Init ==
  /\ machine = [p \in Ports |-> <<>>]
  /\ part = [p \in Ports |-> BootPart]
  /\ streams = {} /\ reservation = <<>>
  /\ frame = NoFrame
  /\ defined = TRUE

Next ==
  \/ \E p \in Ports : BeginFrame(p)
  \/ \E o \in Offers, e \in Arriving : ReceiveNewStream(o[1], o[2], e)
  \/ \E e \in Arriving : ReceiveKnownStream(e) \/ ReceiveDomain(e)
  \/ \E type \in Types : ReceiveLeaveAll(type)
  \/ EndFrame
  \/ MoreWork
  \/ Tick
  \/ Deinit

(* The OS calls the tick once a second, between two frames. *)
Spec == Init /\ [][Next]_vars /\ SF_vars(Tick) /\ WF_vars(EndFrame)

----------------------------------------------------------------------------
(***************************************************************************)
(* Properties.                                                             *)
(***************************************************************************)
IsRegistered(m) == m.dir = "REG" /\ m.reg # "MT"

(* Whatever has been registered on a port is reserved for, also while it is *)
(* being left, and after any number of restarts, that keep the reservations.*)
RegisteredIsReserved ==
  \A p \in Ports : \A m \in Elements(machine[p]) :
    IsRegistered(m) => KeyOf(m, PortOf(p)) \in Elements(reservation)

(* A talker that is registered on a port is declared on all others that the *)
(* propagation can tell from it, however its registrar moved since.         *)
RegisteredIsPropagated ==
  \A p \in Ports : \A m \in Elements(machine[p]) :
    IsRegistered(m) /\ m.type # "LISTENER" =>
      \A q \in Ports \ {PortOf(p)} : \E d \in Elements(machine[q]) :
        d.dir = "DEC" /\ d.stream = m.stream /\ d.type = m.type

(* Nothing is declared on any port that is not registered on some port.     *)
DeclaredIsRegistered ==
  \A q \in Ports : \A d \in Elements(machine[q]) :
    d.dir = "DEC" =>
      \E p \in Ports : \E m \in Elements(machine[p]) :
        IsRegistered(m) /\ m.stream = d.stream /\ m.type = d.type

(* The reservations never run out: whenever an attribute of a known stream  *)
(* has no reservation there is room for one.  Rests on reservations being   *)
(* found again, and on the port pointers of the participants.               *)
ReservationsFit ==
  \A stream \in streams, type \in Types, port \in {NoPort, NumPorts - 1} :
    \/ [port |-> port, stream |-> stream, type |-> type] \in Elements(reservation)
    \/ Len(reservation) < ReservationSlots

(* Msrp is a StreamReservation: reservation and declarations come in the    *)
(* step that registers and in no other, whatever the order of messages in a *)
(* frame, whichever attribute an event goes to, wherever a table ends; and  *)
(* what is registered or declared leaves only with a restart.               *)
Promises(Kind(_)) ==
  UNION {{[port |-> p, stream |-> m.stream, type |-> m.type] :
            m \in {n \in Elements(machine[p]) : Kind(n)}} : p \in Ports}

IsDeclared(m) == m.dir = "DEC"

Reserving == INSTANCE StreamReservation WITH
  PortPointer <- [p \in Ports |-> PortOf(p)],
  registered  <- Promises(IsRegistered),
  declared    <- Promises(IsDeclared),
  reserved    <- Elements(reservation),
  working     <- defined

ImplementsReservation == Reserving!Spec

(* Between two frames a tick always gets a timer on, or starts it, unless   *)
(* the program is broken; and a frame that is being received can be ended.  *)
Ready ==
  defined /\ frame = NoFrame /\ \E p \in Ports : ~PointToPoint(p) /\ ~Opportunity(p)

FairStepsMove ==
  /\ Ready => ENABLED <<Tick>>_vars
  /\ InFrame => ENABLED <<EndFrame>>_vars

(* On a shared medium opportunities to transmit never end: requests cannot  *)
(* put off the timer, and neither can anything that is received.            *)
KeepsOffering ==
  <>[][~Deinit]_vars =>
    \A p \in Ports : ~PointToPoint(p) => []<>(~defined \/ Opportunity(p))

(* vtss_msrp.c:1889 and 1995: "Propagate to all ports except self".  What a *)
(* port declares, another port has registered.                              *)
PropagatedExceptToSelf ==
  \A q \in Ports : \A d \in Elements(machine[q]) :
    d.dir = "DEC" =>
      \E p \in Ports \ {q} : \E m \in Elements(machine[p]) :
        IsRegistered(m) /\ m.stream = d.stream /\ m.type = d.type

=============================================================================
