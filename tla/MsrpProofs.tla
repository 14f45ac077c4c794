----------------------------- MODULE MsrpProofs -----------------------------
(***************************************************************************)
(* Theorems about Msrp: its type, that it implements StreamReservation,    *)
(* and its invariants, for every value of the constants.                   *)
(***************************************************************************)
EXTENDS Msrp, MrpTablesProofs, SequenceTheorems, FiniteSetTheorems

(* The machines of all ports. *)
Machines ==
  {ms \in [Ports -> Seq(MachineType)] : \A p \in Ports : Len(ms[p]) <= MachineSlots}

(* m and n differ in nothing but the state of the applicant and how a       *)
(* registration is doing.                                                   *)
Similar(m, n) ==
  /\ n.dir = m.dir /\ n.stream = m.stream /\ n.type = m.type
  /\ n.reg = "MT" <=> m.reg = "MT"

(* Machine by machine. *)
SimilarMachines(ms, ns) ==
  \A p \in Ports : /\ DOMAIN ns[p] = DOMAIN ms[p]
                   /\ \A i \in DOMAIN ms[p] : Similar(ms[p][i], ns[p][i])

----------------------------------------------------------------------------
(***************************************************************************)
(* Machines and sequences of them.                                         *)
(***************************************************************************)
LEMMA PortTypes ==
  /\ \A p \in Ports : PortOf(p) \in {NoPort, NumPorts - 1}
  /\ NumPorts - 1 \in Ports /\ NoPort \notin Ports
  /\ \A p \in Ports : PointToPoint(p) \in BOOLEAN
BY MsrpAssumption DEF Ports, PortOf, NoPort, PointToPoint

LEMMA MachinesAt ==
  ASSUME NEW ms \in Machines, NEW p \in Ports
  PROVE  /\ ms[p] \in Seq(MachineType) /\ Len(ms[p]) \in Nat
         /\ Len(ms[p]) <= MachineSlots
         /\ DOMAIN ms[p] = 1..Len(ms[p])
         /\ DOMAIN ms[p] \subseteq Slots
         /\ \A i \in DOMAIN ms[p] : ms[p][i] \in MachineType
<1>1. ms[p] \in Seq(MachineType) /\ Len(ms[p]) <= MachineSlots
  BY DEF Machines
<1>2. Len(ms[p]) \in Nat /\ DOMAIN ms[p] = 1..Len(ms[p])
  BY <1>1, LenProperties
<1>3. \A i \in DOMAIN ms[p] : ms[p][i] \in MachineType
  BY <1>1, <1>2, ElementOfSeq
<1> QED BY <1>1, <1>2, <1>3, MsrpAssumption DEF Slots

(* One machine is replaced. *)
LEMMA Replaced ==
  ASSUME NEW ms \in Machines, NEW p \in Ports, NEW i \in DOMAIN ms[p], NEW n \in MachineType
  PROVE  LET ns == [ms EXCEPT ![p] = [ms[p] EXCEPT ![i] = n]]
         IN  /\ ns \in Machines
             /\ \A q \in Ports : /\ DOMAIN ns[q] = DOMAIN ms[q]
                                 /\ \A j \in DOMAIN ms[q] :
                                      ns[q][j] = IF q = p /\ j = i THEN n ELSE ms[q][j]
<1> DEFINE s == [ms[p] EXCEPT ![i] = n]
           ns == [ms EXCEPT ![p] = s]
<1>1. ms[p] \in Seq(MachineType) /\ i \in 1..Len(ms[p]) /\ DOMAIN ms[p] = 1..Len(ms[p])
  BY MachinesAt
<1>2. /\ s \in Seq(MachineType) /\ Len(s) = Len(ms[p])
      /\ \A j \in 1..Len(ms[p]) : s[j] = IF j = i THEN n ELSE ms[p][j]
  BY <1>1, ExceptSeq
<1>3. DOMAIN s = DOMAIN ms[p]
  BY <1>1, <1>2, LenProperties
<1> HIDE DEF s
<1>4. ns \in Machines
  BY <1>2 DEF Machines
<1>5. \A q \in Ports : ns[q] = IF q = p THEN s ELSE ms[q]
  BY DEF Machines
<1> HIDE DEF ns
<1>6. \A q \in Ports : /\ DOMAIN ns[q] = DOMAIN ms[q]
                       /\ \A j \in DOMAIN ms[q] :
                            ns[q][j] = IF q = p /\ j = i THEN n ELSE ms[q][j]
  BY <1>1, <1>2, <1>3, <1>5
<1> QED BY <1>4, <1>6 DEF ns, s

LEMMA ReplacedBySimilar ==
  ASSUME NEW ms \in Machines, NEW p \in Ports, NEW i \in DOMAIN ms[p], NEW n \in MachineType,
         Similar(ms[p][i], n)
  PROVE  LET ns == [ms EXCEPT ![p] = [ms[p] EXCEPT ![i] = n]]
         IN  ns \in Machines /\ SimilarMachines(ms, ns)
<1> DEFINE ns == [ms EXCEPT ![p] = [ms[p] EXCEPT ![i] = n]]
<1>1. /\ ns \in Machines
      /\ \A q \in Ports : /\ DOMAIN ns[q] = DOMAIN ms[q]
                          /\ \A j \in DOMAIN ms[q] :
                               ns[q][j] = IF q = p /\ j = i THEN n ELSE ms[q][j]
  BY Replaced
<1> HIDE DEF ns
<1>2. SimilarMachines(ms, ns)
  BY <1>1 DEF SimilarMachines, Similar
<1> QED BY <1>1, <1>2 DEF ns

(* One machine is appended. *)
LEMMA Appended ==
  ASSUME NEW s \in Seq(MachineType), NEW n \in MachineType
  PROVE  /\ Append(s, n) \in Seq(MachineType)
         /\ Len(Append(s, n)) = Len(s) + 1 /\ Len(s) \in Nat
         /\ DOMAIN Append(s, n) = DOMAIN s \cup {Len(s) + 1}
         /\ \A i \in DOMAIN s : Append(s, n)[i] = s[i]
         /\ Append(s, n)[Len(s) + 1] = n
<1>1. /\ Append(s, n) \in Seq(MachineType) /\ Len(Append(s, n)) = Len(s) + 1
      /\ Len(s) \in Nat /\ DOMAIN s = 1..Len(s)
  BY LenProperties, AppendProperties
<1>2. DOMAIN Append(s, n) = 1..(Len(s) + 1)
  BY <1>1, LenProperties
<1>3. /\ \A i \in 1..Len(s) : Append(s, n)[i] = s[i]
      /\ Append(s, n)[Len(s) + 1] = n
  BY <1>1, AppendProperties
<1>4. DOMAIN Append(s, n) = DOMAIN s \cup {Len(s) + 1}
  BY <1>1, <1>2
<1> QED BY <1>1, <1>3, <1>4

----------------------------------------------------------------------------
(***************************************************************************)
(* What an event does to one applicant, and to the timer of its port.      *)
(***************************************************************************)
LEMMA Requested ==
  ASSUME NEW r \in PartType, NEW asks \in BOOLEAN
  PROVE  AskedIf(asks, r) \in PartType
<1>1. JoinPeriod \in 0..JoinPeriod
  BY MsrpAssumption
<1>2. [r EXCEPT !.join = TRUE, !.joinLeft = JoinPeriod] \in PartType
  BY <1>1, Zenon DEF PartType
<1> QED BY <1>2, Zenon DEF AskedIf, RequestTx

LEMMA EventKinds ==
  /\ WireEvents \subseteq Events
  /\ {MRP_EVENT_NEW, MRP_EVENT_JOIN, MRP_EVENT_R_LA, MRP_EVENT_TX} \subseteq Events
BY DEF Events, WireEvents, MRP_EVENT_NEW, MRP_EVENT_JOIN, MRP_EVENT_R_LA, MRP_EVENT_TX

LEMMA AppAfterEvent ==
  ASSUME NEW p \in Ports, NEW m \in MachineType, NEW e \in Events
  PROVE  /\ AfterEvent(p, m, e) \in MachineType
         /\ Similar(m, AfterEvent(p, m, e))
         /\ Asks(p, m, e) \in BOOLEAN
<1>1. CASE Moves(p, m, e)
  <2>1. m.app \in AppStates /\ HasCell(ApplicantTable, m.app, e)
    BY <1>1 DEF Moves, HasCell, ApplicantTable, AppStates
  <2>2. /\ ApplicantTable[m.app][e].state \in AppStates
        /\ ApplicantTable[m.app][e].request \in BOOLEAN
    BY <2>1, ApplicantCell
  <2>3. NextApp(m, e) \in AppStates
    BY <2>2 DEF NextApp, AppStates
  <2>4. AfterEvent(p, m, e) = [m EXCEPT !.app = NextApp(m, e)]
    BY <1>1 DEF AfterEvent
  <2>5. AfterEvent(p, m, e) \in MachineType /\ Similar(m, AfterEvent(p, m, e))
    BY <2>3, <2>4 DEF MachineType, Similar
  <2>6. Asks(p, m, e) \in BOOLEAN
    BY <2>2 DEF Asks
  <2> QED BY <2>5, <2>6
<1>2. CASE ~Moves(p, m, e)
  BY <1>2 DEF AfterEvent, Asks, Similar
<1> QED BY <1>1, <1>2

(* A state, of the variables an attribute's event may change. *)
EventType ==
  /\ machine \in Machines /\ part \in [Ports -> PartType]
  /\ reservation \in Seq(Reservation) /\ Len(reservation) <= ReservationSlots
  /\ defined \in BOOLEAN

(* An event that registers nothing: no reservation, no declaration.        *)
Quiet(ms) ==
  /\ SimilarMachines(ms, machine')
  /\ UNCHANGED <<reservation, defined>>

LEMMA SimilarToItself ==
  ASSUME NEW ms PROVE SimilarMachines(ms, ms)
BY DEF SimilarMachines, Similar

LEMMA ApplicantEventEffect ==
  ASSUME EventType, NEW ms \in Machines, NEW p \in Ports, NEW i \in DOMAIN ms[p],
         NEW e \in Events, ApplicantEvent(ms, p, i, e)
  PROVE  EventType' /\ Quiet(ms)
<1>1. ms[p][i] \in MachineType
  BY MachinesAt
<1>2. /\ AfterEvent(p, ms[p][i], e) \in MachineType
      /\ Similar(ms[p][i], AfterEvent(p, ms[p][i], e))
      /\ Asks(p, ms[p][i], e) \in BOOLEAN
  BY <1>1, AppAfterEvent
<1>3. machine' = [ms EXCEPT ![p] = [ms[p] EXCEPT ![i] = AfterEvent(p, ms[p][i], e)]]
  BY DEF ApplicantEvent, Machines
<1>4. machine' \in Machines /\ SimilarMachines(ms, machine')
  BY <1>2, <1>3, ReplacedBySimilar
<1>5. part[p] \in PartType /\ part' = [part EXCEPT ![p] = AskedIf(Asks(p, ms[p][i], e), part[p])]
  BY DEF ApplicantEvent, EventType
<1>6. part' \in [Ports -> PartType]
  BY <1>2, <1>5, Requested DEF EventType
<1>7. UNCHANGED <<reservation, defined>>
  BY DEF ApplicantEvent
<1> QED BY <1>4, <1>6, <1>7 DEF EventType, Quiet

----------------------------------------------------------------------------
(***************************************************************************)
(* What an event does to one registrar.                                    *)
(***************************************************************************)
LEMMA Added ==
  ASSUME NEW S, NEW s \in Seq(S), NEW x \in S
  PROVE  /\ Elements(Append(s, x)) = Elements(s) \cup {x}
         /\ Elements(s) \subseteq S
<1>1. /\ Append(s, x) \in Seq(S) /\ Len(Append(s, x)) = Len(s) + 1
      /\ \A i \in 1..Len(s) : Append(s, x)[i] = s[i]
      /\ Append(s, x)[Len(s) + 1] = x
      /\ Len(s) \in Nat /\ DOMAIN s = 1..Len(s)
  BY LenProperties, AppendProperties
<1>2. DOMAIN Append(s, x) = 1..(Len(s) + 1)
  BY <1>1, LenProperties
<1>3. \A i \in 1..Len(s) : s[i] \in S
  BY ElementOfSeq
<1>4. Elements(Append(s, x)) = Elements(s) \cup {x}
  BY <1>1, <1>2 DEF Elements
<1> QED BY <1>1, <1>3, <1>4 DEF Elements

LEMMA Reserved ==
  ASSUME EventType, NEW key \in Reservation
  PROVE  /\ Reserve(key) \in Seq(Reservation)
         /\ Elements(Reserve(key)) = Elements(reservation) \cup {key}
<1>1. CASE key \in Elements(reservation)
  BY <1>1 DEF Reserve, EventType
<1>2. CASE key \notin Elements(reservation)
  BY <1>2, Added, AppendProperties DEF Reserve, EventType
<1> QED BY <1>1, <1>2

(* The machine i of port p becomes registered: it is reserved for, and      *)
(* declared on the targets.                                                 *)
Joined(ms, p, i) ==
  LET m == ms[p][i]
  IN  /\ m.dir = "REG"
      /\ \A q \in Ports : DOMAIN machine'[q] = DOMAIN ms[q] \cup
           (IF q \in Targets(p, m) THEN {Len(ms[q]) + 1} ELSE {})
      /\ \A q \in Ports : \A j \in DOMAIN ms[q] : q # p \/ j # i => machine'[q][j] = ms[q][j]
      /\ machine'[p][i] = [m EXCEPT !.reg = "IN"]
      /\ \A q \in Targets(p, m) :
           Similar([m EXCEPT !.dir = "DEC", !.reg = Invalid], machine'[q][Len(ms[q]) + 1])
      /\ reservation' = Reserve(KeyOf(m, PortOf(p)))
      /\ Elements(reservation') = Elements(reservation) \cup {KeyOf(m, PortOf(p))}
      /\ defined' = defined

LEMMA DeclarationType ==
  ASSUME NEW q \in Ports, NEW m \in MachineType, NEW isNew \in BOOLEAN
  PROVE  /\ Declaration(q, m, isNew) \in MachineType
         /\ Similar([m EXCEPT !.dir = "DEC", !.reg = Invalid], Declaration(q, m, isNew))
<1> DEFINE d == [dir |-> "DEC", stream |-> m.stream, type |-> m.type,
                 reg |-> Invalid, app |-> "VO"]
           e == IF isNew THEN MRP_EVENT_NEW ELSE MRP_EVENT_JOIN
<1>1. d \in MachineType /\ Similar([m EXCEPT !.dir = "DEC", !.reg = Invalid], d)
  BY DEF MachineType, AppStates, Similar
<1>2. e \in Events
  BY EventKinds
<1> HIDE DEF d, e
<1>3. AfterEvent(q, d, e) \in MachineType /\ Similar(d, AfterEvent(q, d, e))
  BY <1>1, <1>2, AppAfterEvent
<1>4. Declaration(q, m, isNew) = AfterEvent(q, d, e)
  BY DEF Declaration, d, e
<1> QED BY <1>1, <1>3, <1>4 DEF Similar

LEMMA JoinIndicationEffect ==
  ASSUME EventType, NEW ms \in Machines, NEW p \in Ports, NEW i \in DOMAIN ms[p],
         ms[p][i].dir = "REG", NEW cell, cell.state = "IN",
         JoinIndication(ms, p, i, cell)
  PROVE  EventType' /\ Joined(ms, p, i)
<1> DEFINE m == ms[p][i]
           n == [m EXCEPT !.reg = "IN"]
           rs == [ms EXCEPT ![p] = [ms[p] EXCEPT ![i] = n]]
           T == Targets(p, m)
           D(q) == Declaration(q, m, cell.indicate = "NEW")
<1>1. m \in MachineType /\ n \in MachineType
  BY MachinesAt DEF MachineType, RegStates
<1>2. T \subseteq Ports
  BY DEF Targets
<1>3. /\ rs \in Machines
      /\ \A q \in Ports : /\ DOMAIN rs[q] = DOMAIN ms[q]
                          /\ \A j \in DOMAIN ms[q] :
                               rs[q][j] = IF q = p /\ j = i THEN n ELSE ms[q][j]
  BY <1>1, Replaced
<1>4. \A q \in Ports : rs[q] = IF q = p THEN [ms[q] EXCEPT ![i].reg = cell.state] ELSE ms[q]
  BY DEF Machines
<1>5. machine' = [q \in Ports |-> IF q \in T THEN Append(rs[q], D(q)) ELSE rs[q]]
  BY <1>4 DEF JoinIndication
<1>6. \A q \in Ports : /\ D(q) \in MachineType
                       /\ Similar([m EXCEPT !.dir = "DEC", !.reg = Invalid], D(q))
  BY <1>1, DeclarationType
<1>7. \A q \in T : Len(ms[q]) # MachineSlots
  BY DEF JoinIndication, NoRoom
<1>8. \A q \in Ports : /\ Len(rs[q]) = Len(ms[q]) /\ Len(ms[q]) \in Nat
                       /\ rs[q] \in Seq(MachineType)
                       /\ Len(ms[q]) <= MachineSlots
  <2> TAKE q \in Ports
  <2>1. /\ DOMAIN rs[q] = 1..Len(rs[q]) /\ Len(rs[q]) \in Nat
        /\ rs[q] \in Seq(MachineType)
    BY <1>3, MachinesAt
  <2>2. /\ DOMAIN ms[q] = 1..Len(ms[q]) /\ Len(ms[q]) \in Nat
        /\ Len(ms[q]) <= MachineSlots
    BY MachinesAt
  <2> HIDE DEF rs
  <2>3. DOMAIN rs[q] = DOMAIN ms[q]
    BY <1>3
  <2> QED BY <2>1, <2>2, <2>3
<1>9. reservation' \in Seq(Reservation) /\ Len(reservation') <= ReservationSlots
      /\ reservation' = Reserve(KeyOf(m, PortOf(p)))
      /\ Elements(reservation') = Elements(reservation) \cup {KeyOf(m, PortOf(p))}
  <2>1. KeyOf(m, PortOf(p)) \in Reservation
    BY <1>1, PortTypes DEF KeyOf, Reservation, MachineType
  <2>2. reservation' = Reserve(KeyOf(m, PortOf(p)))
    BY DEF JoinIndication
  <2>3. /\ Reserve(KeyOf(m, PortOf(p))) \in Seq(Reservation)
        /\ Elements(Reserve(KeyOf(m, PortOf(p)))) = Elements(reservation) \cup {KeyOf(m, PortOf(p))}
    BY <2>1, Reserved
  <2>4. ~(Len(Reserve(KeyOf(m, PortOf(p)))) > ReservationSlots)
    BY DEF JoinIndication, NoRoom
  <2>5. Len(Reserve(KeyOf(m, PortOf(p)))) \in Nat
    BY <2>3, LenProperties
  <2> QED BY <2>2, <2>3, <2>4, <2>5, MsrpAssumption
<1>10. part' \in [Ports -> PartType]
  <2>1. part' = [q \in Ports |-> AskedIf(q \in T, part[q])]
    BY DEF JoinIndication
  <2>2. ASSUME NEW q \in Ports PROVE AskedIf(q \in T, part[q]) \in PartType
    <3> DEFINE asks == q \in T
    <3>1. part[q] \in PartType /\ asks \in BOOLEAN
      BY DEF EventType
    <3> HIDE DEF asks
    <3>2. AskedIf(asks, part[q]) \in PartType
      BY <3>1, Requested
    <3> QED BY <3>2 DEF asks
  <2> QED BY <2>1, <2>2
<1>11. defined' = defined
  BY DEF JoinIndication
<1> HIDE DEF rs, n, T, D
<1>12. \A q \in T :
         /\ machine'[q] \in Seq(MachineType) /\ Len(machine'[q]) = Len(ms[q]) + 1
         /\ DOMAIN machine'[q] = DOMAIN ms[q] \cup {Len(ms[q]) + 1}
         /\ \A j \in DOMAIN ms[q] : machine'[q][j] = rs[q][j]
         /\ machine'[q][Len(ms[q]) + 1] = D(q)
  <2> TAKE q \in T
  <2>1. rs[q] \in Seq(MachineType) /\ D(q) \in MachineType
        /\ Len(rs[q]) = Len(ms[q]) /\ DOMAIN rs[q] = DOMAIN ms[q]
    BY <1>2, <1>3, <1>6, <1>8
  <2>2. machine'[q] = Append(rs[q], D(q))
    BY <1>2, <1>5
  <2>3. /\ Append(rs[q], D(q)) \in Seq(MachineType)
        /\ Len(Append(rs[q], D(q))) = Len(rs[q]) + 1
        /\ DOMAIN Append(rs[q], D(q)) = DOMAIN rs[q] \cup {Len(rs[q]) + 1}
        /\ \A j \in DOMAIN rs[q] : Append(rs[q], D(q))[j] = rs[q][j]
        /\ Append(rs[q], D(q))[Len(rs[q]) + 1] = D(q)
    BY <2>1, Appended
  <2> QED BY <2>1, <2>2, <2>3
<1>13. \A q \in Ports \ T : machine'[q] = rs[q]
  BY <1>5
<1>14. machine' \in Machines
  <2>1. \A q \in Ports : machine'[q] \in Seq(MachineType) /\ Len(machine'[q]) <= MachineSlots
    BY <1>7, <1>8, <1>12, <1>13, MsrpAssumption
  <2>2. machine' = [q \in Ports |-> machine'[q]]
    BY <1>5
  <2> QED BY <2>1, <2>2 DEF Machines
<1>15. Joined(ms, p, i)
  <2>1. \A q \in Ports : DOMAIN machine'[q] = DOMAIN ms[q] \cup
           (IF q \in T THEN {Len(ms[q]) + 1} ELSE {})
    BY <1>3, <1>12, <1>13
  <2>2. \A q \in Ports : \A j \in DOMAIN ms[q] :
          machine'[q][j] = IF q = p /\ j = i THEN n ELSE ms[q][j]
    BY <1>3, <1>12, <1>13
  <2>3. \A q \in T : Similar([m EXCEPT !.dir = "DEC", !.reg = Invalid],
                             machine'[q][Len(ms[q]) + 1])
    BY <1>2, <1>6, <1>12
  <2> QED BY <1>9, <1>11, <2>1, <2>2, <2>3 DEF Joined, n, T
<1> QED BY <1>9, <1>10, <1>11, <1>14, <1>15 DEF EventType

LEMMA StayOrLeaveEffect ==
  ASSUME EventType, NEW ms \in Machines, NEW p \in Ports, NEW i \in DOMAIN ms[p],
         NEW cell, cell.state \in RegStates, cell.leaveTimer \in BOOLEAN,
         cell.state = "MT" <=> ms[p][i].reg = "MT",
         StayOrLeave(ms, p, i, cell)
  PROVE  EventType' /\ Quiet(ms)
<1> DEFINE n == Registered(ms[p][i], cell)
<1>1. ms[p][i] \in MachineType
  BY MachinesAt
<1>2. n \in MachineType /\ Similar(ms[p][i], n)
  BY <1>1 DEF MachineType, Registered, Similar
<1>3. machine' = [ms EXCEPT ![p] = [ms[p] EXCEPT ![i] = n]]
  BY DEF StayOrLeave, Machines
<1>4. machine' \in Machines /\ SimilarMachines(ms, machine')
  BY <1>2, <1>3, ReplacedBySimilar
<1>5. part' = [part EXCEPT ![p].leave = part[p].leave \/ cell.leaveTimer] /\ part[p] \in PartType
  BY DEF StayOrLeave, EventType
<1>6. [part[p] EXCEPT !.leave = part[p].leave \/ cell.leaveTimer] \in PartType
  BY <1>5, Zenon DEF PartType
<1>7. part' \in [Ports -> PartType]
  BY <1>5, <1>6, Zenon DEF EventType
<1>8. UNCHANGED <<reservation, defined>>
  BY DEF StayOrLeave
<1> QED BY <1>4, <1>7, <1>8 DEF EventType, Quiet

LEMMA RegistrarEventEffect ==
  ASSUME EventType, NEW ms \in Machines, NEW p \in Ports, NEW i \in DOMAIN ms[p],
         ms[p][i].dir = "REG", NEW e \in Events,
         HasCell(RegistrarTable, ms[p][i].reg, e), RegistrarEvent(ms, p, i, e)
  PROVE  EventType' /\ (Quiet(ms) \/ Joined(ms, p, i))
<1> DEFINE s == ms[p][i].reg
           cell == RegistrarTable[s][e]
<1>1. s \in RegStates
  BY DEF HasCell, RegistrarTable, RegStates
<1>2. \/ cell = Reg("IN", "NEW") \/ cell = Reg("IN", "JOIN")
      \/ cell = Reg("IN", "None") /\ s # "MT"
      \/ cell = Reg(s, "None")
      \/ cell = RegTimed("LV") /\ s = "IN"
  BY <1>1, RegistrarCell
<1>3. \/ cell.indicate \in {"NEW", "JOIN"} /\ JoinIndication(ms, p, i, cell)
      \/ cell.indicate = "None" /\ StayOrLeave(ms, p, i, cell)
  BY DEF RegistrarEvent
<1> HIDE DEF cell
<1>4. CASE cell.indicate \in {"NEW", "JOIN"} /\ JoinIndication(ms, p, i, cell)
  <2>1. cell.state = "IN"
    BY <1>2, <1>4 DEF Reg, RegTimed
  <2> QED BY <1>4, <2>1, JoinIndicationEffect
<1>5. CASE cell.indicate = "None" /\ StayOrLeave(ms, p, i, cell)
  <2>1. cell.state \in RegStates /\ (cell.state = "MT" <=> s = "MT")
    BY <1>1, <1>2, <1>5 DEF Reg, RegTimed, RegStates
  <2>2. cell.leaveTimer \in BOOLEAN
    <3>1. \A x, y : Reg(x, y).leaveTimer = FALSE /\ RegTimed(x).leaveTimer = TRUE
      BY DEF Reg, RegTimed
    <3> QED BY <1>2, <3>1, Zenon
  <2> QED BY <1>5, <2>1, <2>2, StayOrLeaveEffect
<1> QED BY <1>3, <1>4, <1>5

(* An event keeps the type; it registers nothing, or one machine that is    *)
(* there.                                                                   *)
LEMMA AttrEventEffect ==
  ASSUME EventType, NEW ms \in Machines, NEW p \in Ports, NEW i, NEW e \in Arriving,
         AttrEvent(ms, p, i, e)
  PROVE  EventType' /\ (Quiet(ms) \/ (i \in DOMAIN ms[p] /\ Joined(ms, p, i)))
<1>1. CASE NoEffect(ms)
  BY <1>1, SimilarToItself DEF NoEffect, Quiet, EventType
<1>2. CASE i \in DOMAIN ms[p] /\ e \in WireEvents /\ ApplicantEvent(ms, p, i, e)
  BY <1>2, EventKinds, ApplicantEventEffect
<1>3. CASE /\ i \in DOMAIN ms[p] /\ ms[p][i].dir = "REG" /\ e \in WireEvents
           /\ HasCell(RegistrarTable, ms[p][i].reg, e) /\ RegistrarEvent(ms, p, i, e)
  BY <1>3, EventKinds, RegistrarEventEffect
<1> QED BY <1>1, <1>2, <1>3 DEF AttrEvent

----------------------------------------------------------------------------
(***************************************************************************)
(* What each action does.                                                  *)
(***************************************************************************)
Attribute == [port : Ports, stream : Streams, type : Types]

(* m is a machine for the stream and the type of a. *)
Names(m, a) == m.stream = a.stream /\ m.type = a.type

Registers(ms, a) ==
  \E i \in DOMAIN ms[a.port] : IsRegistered(ms[a.port][i]) /\ Names(ms[a.port][i], a)

Declares(ms, a) ==
  \E i \in DOMAIN ms[a.port] : IsDeclared(ms[a.port][i]) /\ Names(ms[a.port][i], a)

Same(ms, ns) ==
  \A a \in Attribute : /\ Registers(ns, a) <=> Registers(ms, a)
                       /\ Declares(ns, a) <=> Declares(ms, a)

AttributeOf(p, m) == [port |-> p, stream |-> m.stream, type |-> m.type]

(* What a join makes of the attributes ms registers and declares. *)
RegistersAlso(ms, a) ==
  \A b \in Attribute :
    /\ Registers(machine', b) <=> Registers(ms, b) \/ b = a
    /\ Declares(machine', b) <=>
         Declares(ms, b) \/ (b.port \in Targets(a.port, a) /\ Names(a, b))

LEMMA SimilarIsSame ==
  ASSUME NEW ms \in Machines, NEW ns, SimilarMachines(ms, ns)
  PROVE  Same(ms, ns)
<1> SUFFICES ASSUME NEW a \in Attribute
             PROVE  /\ Registers(ns, a) <=> Registers(ms, a)
                    /\ Declares(ns, a) <=> Declares(ms, a)
  BY DEF Same
<1>1. a.port \in Ports
  BY DEF Attribute
<1>2. /\ DOMAIN ns[a.port] = DOMAIN ms[a.port]
      /\ \A i \in DOMAIN ms[a.port] : Similar(ms[a.port][i], ns[a.port][i])
  BY <1>1 DEF SimilarMachines
<1> QED BY <1>2 DEF Registers, Declares, IsRegistered, IsDeclared, Names, Similar

LEMMA JoinedRegisters ==
  ASSUME NEW ms \in Machines, NEW p \in Ports, NEW i \in DOMAIN ms[p], Joined(ms, p, i)
  PROVE  /\ AttributeOf(p, ms[p][i]) \in Attribute
         /\ RegistersAlso(ms, AttributeOf(p, ms[p][i]))
<1> DEFINE m == ms[p][i]
           a == AttributeOf(p, m)
           T == Targets(p, m)
<1>1. m \in MachineType /\ m.dir = "REG"
  BY MachinesAt DEF Joined
<1>2. /\ a \in Attribute /\ a.port = p /\ a.stream = m.stream /\ a.type = m.type
      /\ \A b \in Attribute : Names(m, b) /\ b.port = p => b = a
  BY <1>1 DEF AttributeOf, Attribute, MachineType, Names
<1>3. Targets(a.port, a) = T /\ \A b \in Attribute : Names(a, b) <=> Names(m, b)
  BY <1>2 DEF Targets, Names
<1>4. \A q \in Ports : /\ DOMAIN ms[q] = 1..Len(ms[q]) /\ Len(ms[q]) \in Nat
                       /\ \A j \in DOMAIN ms[q] : ms[q][j] \in MachineType
  BY MachinesAt
<1>5. /\ \A q \in Ports : DOMAIN machine'[q] = DOMAIN ms[q] \cup
           (IF q \in T THEN {Len(ms[q]) + 1} ELSE {})
      /\ \A q \in Ports : \A j \in DOMAIN ms[q] : q # p \/ j # i => machine'[q][j] = ms[q][j]
      /\ machine'[p][i] = [m EXCEPT !.reg = "IN"]
      /\ \A q \in T :
           Similar([m EXCEPT !.dir = "DEC", !.reg = Invalid], machine'[q][Len(ms[q]) + 1])
  BY DEF Joined
<1> DEFINE n == machine'[p][i]
           d(q) == machine'[q][Len(ms[q]) + 1]
<1>6. n.dir = "REG" /\ n.reg = "IN" /\ n.stream = m.stream /\ n.type = m.type
  BY <1>1, <1>5 DEF MachineType
<1>7. \A q \in T : d(q).dir = "DEC" /\ d(q).stream = m.stream /\ d(q).type = m.type
  BY <1>1, <1>5 DEF Similar, MachineType
<1>8. ASSUME NEW b \in Attribute
      PROVE  /\ Registers(machine', b) <=> Registers(ms, b) \/ b = a
             /\ Declares(machine', b) <=> Declares(ms, b) \/ (b.port \in T /\ Names(m, b))
  <2> DEFINE q == b.port
  <2>1. q \in Ports
    BY DEF Attribute
  <2>2. /\ DOMAIN machine'[q] = DOMAIN ms[q] \cup (IF q \in T THEN {Len(ms[q]) + 1} ELSE {})
        /\ \A j \in DOMAIN ms[q] : q # p \/ j # i => machine'[q][j] = ms[q][j]
    BY <1>5, <2>1
  <2>3. ASSUME Registers(machine', b) PROVE Registers(ms, b) \/ b = a
    <3>1. PICK j \in DOMAIN machine'[q] :
            IsRegistered(machine'[q][j]) /\ Names(machine'[q][j], b)
      BY <2>3 DEF Registers
    <3>2. CASE q \in T /\ j = Len(ms[q]) + 1
      BY <1>7, <3>1, <3>2 DEF IsRegistered
    <3>3. CASE q = p /\ j = i
      BY <1>2, <1>6, <3>1, <3>3 DEF Names
    <3>4. CASE j \in DOMAIN ms[q] /\ (q # p \/ j # i)
      BY <2>2, <3>1, <3>4 DEF Registers
    <3> QED BY <2>2, <3>1, <3>2, <3>3, <3>4
  <2>4. ASSUME Registers(ms, b) \/ b = a PROVE Registers(machine', b)
    <3>1. CASE b = a
      <4>1. q = p /\ i \in DOMAIN machine'[q] /\ IsRegistered(n) /\ Names(n, b)
        BY <1>2, <1>6, <2>2, <3>1 DEF IsRegistered, Names
      <4> QED BY <4>1 DEF Registers
    <3>2. CASE Registers(ms, b) /\ b # a
      <4>1. PICK j \in DOMAIN ms[q] : IsRegistered(ms[q][j]) /\ Names(ms[q][j], b)
        BY <3>2 DEF Registers
      <4>2. q # p \/ j # i
        BY <1>2, <3>2, <4>1
      <4> QED BY <2>2, <4>1, <4>2 DEF Registers
    <3> QED BY <2>4, <3>1, <3>2
  <2>5. ASSUME Declares(machine', b) PROVE Declares(ms, b) \/ (q \in T /\ Names(m, b))
    <3>1. PICK j \in DOMAIN machine'[q] :
            IsDeclared(machine'[q][j]) /\ Names(machine'[q][j], b)
      BY <2>5 DEF Declares
    <3>2. CASE q \in T /\ j = Len(ms[q]) + 1
      BY <1>7, <3>1, <3>2 DEF Names
    <3>3. CASE q = p /\ j = i
      BY <1>6, <3>1, <3>3 DEF IsDeclared
    <3>4. CASE j \in DOMAIN ms[q] /\ (q # p \/ j # i)
      BY <2>2, <3>1, <3>4 DEF Declares
    <3> QED BY <2>2, <3>1, <3>2, <3>3, <3>4
  <2>6. ASSUME Declares(ms, b) \/ (q \in T /\ Names(m, b)) PROVE Declares(machine', b)
    <3>1. CASE q \in T /\ Names(m, b)
      BY <1>7, <2>2, <3>1 DEF Declares, IsDeclared, Names
    <3>2. CASE Declares(ms, b)
      <4>1. PICK j \in DOMAIN ms[q] : IsDeclared(ms[q][j]) /\ Names(ms[q][j], b)
        BY <3>2 DEF Declares
      <4>2. q # p \/ j # i
        BY <1>1, <4>1 DEF IsDeclared
      <4> QED BY <2>2, <4>1, <4>2 DEF Declares
    <3> QED BY <2>6, <3>1, <3>2
  <2> QED BY <2>3, <2>4, <2>5, <2>6
<1> QED BY <1>2, <1>3, <1>8 DEF RegistersAlso

LEMMA WithRegistrarEffect ==
  ASSUME EventType, NEW p \in Ports, NEW stream \in Streams, NEW type \in Types,
         Len(machine[p]) + 1 <= MachineSlots
  PROVE  /\ WithRegistrar(p, stream, type) \in Machines
         /\ Same(machine, WithRegistrar(p, stream, type))
         /\ \A q \in Ports : \A j \in DOMAIN WithRegistrar(p, stream, type)[q] :
              \/ j \in DOMAIN machine[q] /\ WithRegistrar(p, stream, type)[q][j] = machine[q][j]
              \/ WithRegistrar(p, stream, type)[q][j].stream = stream
<1> DEFINE n == [dir |-> "REG", stream |-> stream, type |-> type, reg |-> "MT", app |-> Invalid]
           ns == [machine EXCEPT ![p] = Append(machine[p], n)]
<1>1. WithRegistrar(p, stream, type) = ns
  BY DEF WithRegistrar, EventType, Machines
<1>2. /\ n \in MachineType /\ ~IsRegistered(n) /\ ~IsDeclared(n) /\ n.stream = stream
  BY DEF MachineType, RegStates, IsRegistered, IsDeclared
<1> HIDE DEF n
<1>3. machine \in Machines /\ machine[p] \in Seq(MachineType)
  BY MachinesAt DEF EventType
<1>4. /\ Append(machine[p], n) \in Seq(MachineType)
      /\ Len(Append(machine[p], n)) = Len(machine[p]) + 1 /\ Len(machine[p]) \in Nat
      /\ DOMAIN Append(machine[p], n) = DOMAIN machine[p] \cup {Len(machine[p]) + 1}
      /\ \A i \in DOMAIN machine[p] : Append(machine[p], n)[i] = machine[p][i]
      /\ Append(machine[p], n)[Len(machine[p]) + 1] = n
  BY <1>2, <1>3, Appended
<1>5. ns \in Machines
  BY <1>3, <1>4 DEF Machines
<1>6. /\ ns[p] = Append(machine[p], n)
      /\ \A q \in Ports \ {p} : ns[q] = machine[q]
  BY <1>3 DEF Machines
<1> HIDE DEF ns
<1>7. ASSUME NEW a \in Attribute
      PROVE  /\ Registers(ns, a) <=> Registers(machine, a)
             /\ Declares(ns, a) <=> Declares(machine, a)
  <2>1. CASE a.port # p
    BY <1>6, <2>1 DEF Registers, Declares, Attribute
  <2>2. CASE a.port = p
    <3>1. /\ DOMAIN ns[p] = DOMAIN machine[p] \cup {Len(machine[p]) + 1}
          /\ \A i \in DOMAIN machine[p] : ns[p][i] = machine[p][i]
          /\ ~IsRegistered(ns[p][Len(machine[p]) + 1])
          /\ ~IsDeclared(ns[p][Len(machine[p]) + 1])
      BY <1>2, <1>4, <1>6, ZenonT(30)
    <3>2. Registers(ns, a) <=> Registers(machine, a)
      BY <2>2, <3>1, ZenonT(30) DEF Registers
    <3>3. Declares(ns, a) <=> Declares(machine, a)
      BY <2>2, <3>1, ZenonT(30) DEF Declares
    <3> QED BY <3>2, <3>3
  <2> QED BY <2>1, <2>2
<1>8. \A q \in Ports : \A j \in DOMAIN ns[q] :
        (j \in DOMAIN machine[q] /\ ns[q][j] = machine[q][j]) \/ ns[q][j].stream = stream
  BY <1>2, <1>4, <1>6
<1> QED BY <1>1, <1>5, <1>7, <1>8 DEF Same

----------------------------------------------------------------------------
(***************************************************************************)
(* Every step keeps what is registered, registers one attribute, or is a   *)
(* restart.                                                                *)
(***************************************************************************)
(* The machines of ms belong to streams of S. *)
OfStreams(ms, S) == \A q \in Ports : \A j \in DOMAIN ms[q] : ms[q][j].stream \in S

StreamsKnown == OfStreams(machine, streams)

Keeps ==
  /\ Same(machine, machine') /\ reservation' = reservation
  /\ defined' = defined \/ defined' = FALSE

RegistersOne(a) ==
  /\ RegistersAlso(machine, a)
  /\ reservation' = Reserve(KeyOf(a, PortOf(a.port)))
  /\ Elements(reservation') = Elements(reservation) \cup {KeyOf(a, PortOf(a.port))}
  /\ defined' = defined

Restarts ==
  /\ \A a \in Attribute : ~Registers(machine', a) /\ ~Declares(machine', a)
  /\ UNCHANGED <<reservation, defined>>

LEMMA TypeOfEvents ==
  TypeOK <=> EventType /\ streams \subseteq Streams /\ frame \in FrameType \cup {NoFrame}
BY Zenon DEF TypeOK, EventType, Machines

LEMMA QuietStep ==
  ASSUME NEW ms \in Machines, Same(machine, ms), NEW S, OfStreams(ms, S), Quiet(ms)
  PROVE  Keeps /\ OfStreams(machine', S)
<1>1. Same(ms, machine')
  BY SimilarIsSame DEF Quiet
<1>2. Same(machine, machine')
  BY <1>1 DEF Same
<1>3. OfStreams(machine', S)
  BY DEF Quiet, SimilarMachines, Similar, OfStreams
<1> QED BY <1>2, <1>3 DEF Keeps, Quiet

LEMMA JoinedStep ==
  ASSUME NEW ms \in Machines, Same(machine, ms), NEW S, OfStreams(ms, S),
         NEW p \in Ports, NEW i \in DOMAIN ms[p], Joined(ms, p, i)
  PROVE  /\ \E a \in Attribute : a.stream \in S /\ RegistersOne(a)
         /\ OfStreams(machine', S)
<1> DEFINE m == ms[p][i]
           a == AttributeOf(p, m)
<1>1. a \in Attribute /\ RegistersAlso(ms, a)
  BY JoinedRegisters
<1>2. RegistersAlso(machine, a)
  BY <1>1 DEF RegistersAlso, Same
<1>3. /\ KeyOf(m, PortOf(p)) = KeyOf(a, PortOf(a.port))
      /\ a.stream \in S /\ a.stream = m.stream
  BY DEF KeyOf, AttributeOf, OfStreams
<1>4. RegistersOne(a)
  BY <1>2, <1>3 DEF RegistersOne, Joined
<1>5. OfStreams(machine', S)
  <2> SUFFICES ASSUME NEW q \in Ports, NEW j \in DOMAIN machine'[q]
               PROVE  machine'[q][j].stream \in S
    BY DEF OfStreams
  <2>1. m \in MachineType
    BY MachinesAt
  <2>2. CASE q = p /\ j = i
    BY <1>3, <2>1, <2>2 DEF Joined, MachineType
  <2>3. CASE j \in DOMAIN ms[q] /\ (q # p \/ j # i)
    BY <2>3 DEF Joined, OfStreams
  <2>4. CASE j \notin DOMAIN ms[q]
    <3>1. q \in Targets(p, m) /\ j = Len(ms[q]) + 1
      BY <2>4 DEF Joined
    <3>2. machine'[q][j].stream = m.stream
      BY <2>1, <3>1 DEF Joined, Similar, MachineType
    <3> QED BY <1>3, <3>2
  <2> QED BY <2>2, <2>3, <2>4
<1> QED BY <1>1, <1>3, <1>4, <1>5

LEMMA EventStep ==
  ASSUME EventType, NEW ms \in Machines, Same(machine, ms), NEW S, OfStreams(ms, S),
         NEW p \in Ports, NEW i, NEW e \in Arriving, AttrEvent(ms, p, i, e)
  PROVE  /\ EventType' /\ OfStreams(machine', S)
         /\ Keeps \/ \E a \in Attribute : a.stream \in S /\ RegistersOne(a)
<1>1. EventType' /\ (Quiet(ms) \/ (i \in DOMAIN ms[p] /\ Joined(ms, p, i)))
  BY AttrEventEffect
<1> QED BY <1>1, QuietStep, JoinedStep

(* What happens to all attributes of a port at once, and to its timers. *)
LEMMA EventForAllEffect ==
  ASSUME EventType, NEW p \in Ports, NEW types, NEW e \in Events
  PROVE  /\ EventForAll(p, types, e) \in Seq(MachineType)
         /\ Len(EventForAll(p, types, e)) = Len(machine[p])
         /\ DOMAIN EventForAll(p, types, e) = DOMAIN machine[p]
         /\ \A i \in DOMAIN machine[p] : Similar(machine[p][i], EventForAll(p, types, e)[i])
<1> DEFINE s == EventForAll(p, types, e)
<1>1. /\ DOMAIN machine[p] = 1..Len(machine[p]) /\ Len(machine[p]) \in Nat
      /\ \A i \in DOMAIN machine[p] : machine[p][i] \in MachineType
  BY MachinesAt DEF EventType
<1>2. /\ DOMAIN s = 1..Len(machine[p])
      /\ \A i \in DOMAIN machine[p] : s[i] \in {machine[p][i], AfterEvent(p, machine[p][i], e)}
      /\ s = [i \in 1..Len(machine[p]) |-> s[i]]
  BY <1>1 DEF EventForAll
<1> HIDE DEF s
<1>3. \A i \in DOMAIN machine[p] : s[i] \in MachineType /\ Similar(machine[p][i], s[i])
  <2> TAKE i \in DOMAIN machine[p]
  <2>1. machine[p][i] \in MachineType /\ s[i] \in {machine[p][i], AfterEvent(p, machine[p][i], e)}
    BY <1>1, <1>2
  <2>2. /\ AfterEvent(p, machine[p][i], e) \in MachineType
        /\ Similar(machine[p][i], AfterEvent(p, machine[p][i], e))
    BY <2>1, AppAfterEvent
  <2>3. Similar(machine[p][i], machine[p][i])
    BY DEF Similar
  <2> QED BY <2>1, <2>2, <2>3
<1>4. s \in Seq(MachineType)
  <2>1. s \in [1..Len(machine[p]) -> MachineType]
    BY <1>1, <1>2, <1>3
  <2>2. Seq(MachineType) = UNION {[1..n -> MachineType] : n \in Nat}
    BY SeqDef
  <2> QED BY <1>1, <2>1, <2>2
<1>5. Len(s) = Len(machine[p])
  BY <1>1, <1>2, <1>4, LenProperties
<1> QED BY <1>1, <1>2, <1>3, <1>4, <1>5 DEF s

LEMMA SomeAsksType ==
  ASSUME NEW p, NEW types, NEW e
  PROVE  SomeAsks(p, types, e) \in BOOLEAN
BY DEF SomeAsks

LEMMA WorkedType ==
  ASSUME EventType, NEW p \in Ports
  PROVE  Worked(p) \in PartType /\ CountedDown(Worked(p)) \in PartType
<1>1. part[p] \in PartType
  BY DEF EventType
<1>2. [part[p] EXCEPT !.leave = FALSE] \in PartType
  BY <1>1 DEF PartType
<1> DEFINE r == [part[p] EXCEPT !.leave = FALSE]
           stopped == [r EXCEPT !.join = FALSE, !.sendPtr = r.sendPtr \/ Opportunity(p)]
           asks == Opportunity(p) /\ SomeAsks(p, Types, MRP_EVENT_TX)
<1> HIDE DEF r
<1>3. r \in PartType
  BY <1>2 DEF r
<1>4. stopped \in PartType /\ asks \in BOOLEAN
  BY <1>3, Zenon DEF PartType
<1>5. RequestTx(r) \in PartType /\ AskedIf(asks, stopped) \in PartType
  <2> HIDE DEF stopped, asks
  <2>1. AskedIf(TRUE, r) \in PartType /\ AskedIf(asks, stopped) \in PartType
    BY <1>3, <1>4, Requested
  <2> QED BY <2>1 DEF AskedIf
<1>6. Worked(p) \in {AskedIf(asks, stopped), RequestTx(r), r}
  BY DEF Worked, r
<1>7. Worked(p) \in PartType
  BY <1>3, <1>5, <1>6
<1>8. ASSUME NEW t \in PartType PROVE CountedDown(t) \in PartType
  <2>1. t.joinLeft \in 0..JoinPeriod
    BY DEF PartType
  <2>2. t.joinLeft > 0 => t.joinLeft - 1 \in 0..JoinPeriod
    BY <2>1, MsrpAssumption
  <2>3. t.joinLeft > 0 => [t EXCEPT !.joinLeft = t.joinLeft - 1] \in PartType
    BY <2>2 DEF PartType
  <2> QED BY <2>3 DEF CountedDown
<1> QED BY <1>7, <1>8

(* A step of the timers: what an opportunity to transmit does to the        *)
(* applicants.                                                              *)
LEMMA WorkEffect ==
  ASSUME EventType, Work
  PROVE  /\ machine' \in Machines /\ SimilarMachines(machine, machine')
         /\ UNCHANGED <<streams, reservation, frame>> /\ defined' \in BOOLEAN
<1> DEFINE sent(p) == EventForAll(p, Types, MRP_EVENT_TX)
<1>1. /\ machine' = [p \in Ports |-> IF Opportunity(p) THEN sent(p) ELSE machine[p]]
      /\ UNCHANGED <<streams, reservation, frame>> /\ defined' \in BOOLEAN
  BY DEF Work
<1>2. \A p \in Ports : /\ sent(p) \in Seq(MachineType) /\ Len(sent(p)) = Len(machine[p])
                       /\ DOMAIN sent(p) = DOMAIN machine[p]
                       /\ \A i \in DOMAIN machine[p] : Similar(machine[p][i], sent(p)[i])
  BY EventKinds, EventForAllEffect
<1>3. \A p \in Ports : machine[p] \in Seq(MachineType) /\ Len(machine[p]) <= MachineSlots
  BY DEF EventType, Machines
<1> HIDE DEF sent
<1>4. machine' \in Machines
  BY <1>1, <1>2, <1>3 DEF Machines
<1>5. SimilarMachines(machine, machine')
  BY <1>1, <1>2 DEF SimilarMachines, Similar
<1> QED BY <1>1, <1>4, <1>5

(* The invariant: the type, and no machine without its stream. *)
Inv == TypeOK /\ StreamsKnown

LEMMA InitInv == Init => Inv
<1> SUFFICES ASSUME Init PROVE Inv
  OBVIOUS
<1>1. <<>> \in Seq(MachineType) /\ <<>> \in Seq(Reservation) /\ Len(<<>>) = 0 /\ DOMAIN <<>> = {}
  BY EmptySeq
<1>2. BootPart \in PartType
  <2>1. JoinPeriod \in 0..JoinPeriod
    BY MsrpAssumption
  <2> QED BY <2>1, Zenon DEF BootPart, PartType
<1>3. machine \in Machines /\ part \in [Ports -> PartType]
  BY <1>1, <1>2, MsrpAssumption DEF Init, Machines
<1>4. TypeOK
  BY <1>1, <1>3, TypeOfEvents, MsrpAssumption DEF Init, EventType
<1>5. StreamsKnown
  BY <1>1 DEF Init, StreamsKnown, OfStreams
<1> QED BY <1>4, <1>5 DEF Inv

(* What a step does, and that it keeps the invariant. *)
Step ==
  /\ Inv' /\ streams \subseteq streams'
  /\ \/ Keeps
     \/ Deinit /\ Restarts
     \/ \E a \in Attribute : a.stream \in streams' /\ RegistersOne(a)

LEMMA Unchanged ==
  ASSUME Inv, UNCHANGED <<machine, part, reservation>>, defined' \in BOOLEAN,
         defined' = defined \/ defined' = FALSE,
         streams' = streams, frame' \in FrameType \cup {NoFrame}
  PROVE  Step
<1>1. TypeOK'
  BY DEF Inv, TypeOK
<1>2. StreamsKnown'
  BY DEF Inv, StreamsKnown, OfStreams
<1>3. Keeps
  BY DEF Keeps, Same, Registers, Declares
<1> QED BY <1>1, <1>2, <1>3 DEF Step, Inv

LEMMA Overruns ==
  ASSUME Inv, Overrun
  PROVE  Step
<1>1. frame' \in FrameType \cup {NoFrame}
  BY DEF Overrun, Inv, TypeOK
<1> QED BY <1>1, Unchanged DEF Overrun

LEMMA Received ==
  ASSUME Inv, NEW ms \in Machines, Same(machine, ms), NEW S, OfStreams(ms, S),
         S \subseteq Streams, streams \subseteq S, streams' = S,
         NEW p \in Ports, NEW i, NEW e \in Arriving, AttrEvent(ms, p, i, e),
         frame' \in FrameType \cup {NoFrame}
  PROVE  Step
<1>1. EventType
  BY TypeOfEvents DEF Inv
<1>2. /\ EventType' /\ OfStreams(machine', S)
      /\ Keeps \/ \E a \in Attribute : a.stream \in S /\ RegistersOne(a)
  BY <1>1, EventStep
<1>3. Inv'
  BY <1>2, TypeOfEvents, Zenon DEF Inv, StreamsKnown, TypeOK, EventType, Machines, OfStreams
<1> QED BY <1>2, <1>3 DEF Step

LEMMA FrameInUse ==
  ASSUME Inv, InFrame
  PROVE  frame \in FrameType /\ frame.port \in Ports /\ frame.slot \in Slots \cup {NULL, Elsewhere}
BY DEF Inv, TypeOK, InFrame, FrameType

(* The zero identity is taken for new only where the table is full. *)
LEMMA ZeroHasNoEntry ==
  ASSUME NEW o \in Offers, NEW e, ReceiveNewStream(o[1], o[2], e), ~Overrun
  PROVE  o[1] \in Streams /\ o[2] \in Types /\ Cardinality(streams) # StreamSlots
<1>1. IsNew(o[1]) /\ Cardinality(streams) # StreamSlots
  BY DEF ReceiveNewStream
<1> QED BY <1>1, MsrpAssumption DEF IsNew

LEMMA ReceiveNewStreamStep ==
  ASSUME Inv, NEW stream \in Streams, NEW type \in Types, NEW e \in Arriving,
         ReceiveNewStream(stream, type, e)
  PROVE  Step
<1> DEFINE p == frame.port
           i == Len(machine[p]) + 1
           ms == WithRegistrar(p, stream, type)
<1>1. frame \in FrameType /\ p \in Ports
  BY FrameInUse DEF ReceiveNewStream
<1>2. EventType /\ streams \subseteq Streams /\ StreamsKnown
  BY TypeOfEvents DEF Inv
<1>3. CASE Overrun
  BY <1>3, Overruns
<1>4. CASE ~Overrun
  <2>1. /\ ~(i > MachineSlots) /\ AttrEvent(ms, p, i, e)
        /\ streams' = streams \cup {stream} /\ frame' = [frame EXCEPT !.slot = i]
    BY <1>4 DEF ReceiveNewStream
  <2>2. i \in Slots
    <3>1. Len(machine[p]) \in Nat
      BY <1>1, <1>2, MachinesAt DEF EventType
    <3> QED BY <2>1, <3>1, MsrpAssumption DEF Slots
  <2>3. frame' \in FrameType \cup {NoFrame}
    BY <1>1, <2>1, <2>2 DEF FrameType
  <2>4. /\ ms \in Machines /\ Same(machine, ms)
        /\ \A q \in Ports : \A j \in DOMAIN ms[q] :
             \/ j \in DOMAIN machine[q] /\ ms[q][j] = machine[q][j]
             \/ ms[q][j].stream = stream
    <3>1. i <= MachineSlots
      BY <2>2, MsrpAssumption DEF Slots
    <3> QED BY <1>1, <1>2, <3>1, WithRegistrarEffect
  <2>5. OfStreams(ms, streams \cup {stream})
    BY <1>2, <2>4 DEF OfStreams, StreamsKnown
  <2> HIDE DEF p, i, ms
  <2> QED BY <1>1, <1>2, <2>1, <2>3, <2>4, <2>5, Received
<1> QED BY <1>3, <1>4

LEMMA OwnEvent ==
  ASSUME Inv, NEW p \in Ports, NEW i, NEW e \in Arriving, AttrEvent(machine, p, i, e),
         streams' = streams, frame' \in FrameType \cup {NoFrame}
  PROVE  Step
<1>1. EventType /\ streams \subseteq Streams /\ StreamsKnown
  BY TypeOfEvents DEF Inv
<1>2. machine \in Machines /\ Same(machine, machine) /\ OfStreams(machine, streams)
  BY <1>1 DEF EventType, Same, StreamsKnown
<1> QED BY <1>1, <1>2, Received

LEMMA ReceiveKnownStreamStep ==
  ASSUME Inv, NEW e \in Arriving, ReceiveKnownStream(e)
  PROVE  Step
<1>1. frame \in FrameType /\ frame.port \in Ports
  BY FrameInUse DEF ReceiveKnownStream
<1>2. PICK i \in FallOff :
        \/ Overrun
        \/ /\ AttrEvent(machine, frame.port, i, e)
           /\ frame' = [frame EXCEPT !.slot = i] /\ UNCHANGED streams
        \/ /\ frame' = [frame EXCEPT !.slot = NULL]
           /\ UNCHANGED <<machine, part, streams, reservation, defined>>
  BY DEF ReceiveKnownStream
<1>3. \A j \in Slots \cup {NULL, Elsewhere} : [frame EXCEPT !.slot = j] \in FrameType
  BY <1>1 DEF FrameType
<1>4. i \in Slots \cup {NULL, Elsewhere} /\ NULL \in Slots \cup {NULL, Elsewhere}
  BY MsrpAssumption
<1>5. CASE /\ AttrEvent(machine, frame.port, i, e)
           /\ frame' = [frame EXCEPT !.slot = i] /\ UNCHANGED streams
  BY <1>1, <1>3, <1>4, <1>5, OwnEvent
<1>6. CASE /\ frame' = [frame EXCEPT !.slot = NULL]
           /\ UNCHANGED <<machine, part, streams, reservation, defined>>
  <2>1. frame' \in FrameType \cup {NoFrame} /\ defined' \in BOOLEAN
    BY <1>3, <1>4, <1>6 DEF Inv, TypeOK
  <2> QED BY <1>6, <2>1, Unchanged
<1> QED BY <1>2, <1>5, <1>6, Overruns

LEMMA ReceiveDomainStep ==
  ASSUME Inv, NEW e \in Arriving, ReceiveDomain(e)
  PROVE  Step
<1>1. frame.port \in Ports /\ frame \in FrameType \cup {NoFrame} /\ defined \in BOOLEAN
  BY FrameInUse DEF ReceiveDomain, Inv, TypeOK
<1>2. CASE UNCHANGED vars
  BY <1>1, <1>2, Unchanged DEF vars
<1>3. CASE AttrEvent(machine, frame.port, frame.slot, e) /\ UNCHANGED <<streams, frame>>
  BY <1>1, <1>3, OwnEvent
<1> QED BY <1>2, <1>3, Overruns DEF ReceiveDomain

(* Applicants and timers move, and nothing else. *)
LEMMA OnlySimilar ==
  ASSUME Inv, machine' \in Machines, SimilarMachines(machine, machine'),
         part' \in [Ports -> PartType], UNCHANGED <<streams, reservation, frame>>,
         defined' \in BOOLEAN, defined' = defined \/ defined' = FALSE
  PROVE  Step
<1>1. EventType /\ streams \subseteq Streams /\ frame \in FrameType \cup {NoFrame}
  BY TypeOfEvents DEF Inv
<1>2. TypeOK'
  BY <1>1, Zenon DEF EventType, Machines, TypeOK
<1>3. StreamsKnown'
  BY DEF Inv, StreamsKnown, OfStreams, SimilarMachines, Similar
<1>4. Keeps
  BY <1>1, SimilarIsSame DEF Keeps, EventType
<1> QED BY <1>2, <1>3, <1>4 DEF Step, Inv

LEMMA ReceiveLeaveAllStep ==
  ASSUME Inv, NEW type \in Types, ReceiveLeaveAll(type)
  PROVE  Step
<1> DEFINE p == frame.port
           s == EventForAll(p, {type}, MRP_EVENT_R_LA)
           asks == SomeAsks(p, {type}, MRP_EVENT_R_LA)
<1>1. p \in Ports
  BY FrameInUse DEF ReceiveLeaveAll
<1>2. EventType
  BY TypeOfEvents DEF Inv
<1>3. /\ s \in Seq(MachineType) /\ Len(s) = Len(machine[p]) /\ DOMAIN s = DOMAIN machine[p]
      /\ \A i \in DOMAIN machine[p] : Similar(machine[p][i], s[i])
  BY <1>1, <1>2, EventKinds, EventForAllEffect
<1>4. /\ machine' = [machine EXCEPT ![p] = s]
      /\ part' = [part EXCEPT ![p] = AskedIf(asks, part[p])]
      /\ UNCHANGED <<streams, reservation, frame, defined>>
  BY DEF ReceiveLeaveAll
<1>5. asks \in BOOLEAN /\ part[p] \in PartType
  BY <1>1, <1>2, SomeAsksType DEF EventType
<1> HIDE DEF s, asks
<1>6. machine' \in Machines
  BY <1>2, <1>3, <1>4 DEF Machines, EventType
<1>7. SimilarMachines(machine, machine')
  BY <1>2, <1>3, <1>4 DEF SimilarMachines, Similar, Machines, EventType
<1>8. part' \in [Ports -> PartType]
  BY <1>2, <1>4, <1>5, Requested DEF EventType
<1>9. defined \in BOOLEAN
  BY <1>2 DEF EventType
<1> QED BY <1>4, <1>6, <1>7, <1>8, <1>9, OnlySimilar

LEMMA TimersStep ==
  ASSUME Inv, MoreWork \/ Tick
  PROVE  Step
<1>1. EventType
  BY TypeOfEvents DEF Inv
<1>2. /\ machine' \in Machines /\ SimilarMachines(machine, machine')
      /\ UNCHANGED <<streams, reservation, frame>> /\ defined' \in BOOLEAN
  BY <1>1, WorkEffect DEF MoreWork, Tick
<1>3. part' \in [Ports -> PartType]
  BY <1>1, WorkedType DEF MoreWork, Tick
<1>4. defined' = defined \/ defined' = FALSE
  BY <1>2 DEF MoreWork, Tick
<1> QED BY <1>2, <1>3, <1>4, OnlySimilar

LEMMA DeinitStep ==
  ASSUME Inv, Deinit
  PROVE  Step
<1>1. <<>> \in Seq(MachineType) /\ Len(<<>>) = 0 /\ DOMAIN <<>> = {}
  BY EmptySeq
<1>2. BootPart \in PartType
  <2>1. JoinPeriod \in 0..JoinPeriod
    BY MsrpAssumption
  <2> QED BY <2>1, Zenon DEF BootPart, PartType
<1>3. machine' = [p \in Ports |-> <<>>] /\ part' = [p \in Ports |-> BootPart]
  BY DEF Deinit
<1>4. machine' \in Machines /\ part' \in [Ports -> PartType]
  BY <1>1, <1>2, <1>3, MsrpAssumption DEF Machines
<1>5. TypeOK'
  BY <1>4, Zenon DEF Inv, TypeOK, Machines, Deinit
<1>6. StreamsKnown'
  BY <1>1, <1>3 DEF StreamsKnown, OfStreams
<1>7. Restarts
  BY <1>1, <1>3 DEF Restarts, Registers, Declares, Attribute, Deinit
<1> QED BY <1>5, <1>6, <1>7 DEF Step, Inv, Deinit

LEMMA NextStep ==
  ASSUME Inv, [Next]_vars
  PROVE  Step
<1>1. frame \in FrameType \cup {NoFrame} /\ defined \in BOOLEAN
  BY DEF Inv, TypeOK
<1>2. CASE UNCHANGED vars
  BY <1>1, <1>2, Unchanged DEF vars
<1>3. ASSUME NEW p \in Ports, BeginFrame(p) PROVE Step
  <2>1. frame' \in FrameType
    BY <1>3 DEF BeginFrame, FrameType
  <2> QED BY <1>1, <1>3, <2>1, Unchanged DEF BeginFrame
<1>4. CASE EndFrame
  BY <1>1, <1>4, Unchanged DEF EndFrame
<1>5. ASSUME NEW o \in Offers, NEW e \in Arriving, ReceiveNewStream(o[1], o[2], e) PROVE Step
  <2>1. CASE Overrun
    BY <1>1, <2>1, Overruns
  <2>2. CASE ~Overrun
    BY <1>5, <2>2, ZeroHasNoEntry, ReceiveNewStreamStep
  <2> QED BY <2>1, <2>2
<1> QED
  BY <1>2, <1>3, <1>4, <1>5, ReceiveKnownStreamStep, ReceiveDomainStep,
     ReceiveLeaveAllStep, TimersStep, DeinitStep DEF Next

(* Type correctness, for every number of ports, streams and machines, and   *)
(* whatever the failed search delivers.                                     *)
THEOREM MsrpTypeCorrect == Spec => []TypeOK
<1>1. Inv /\ [Next]_vars => Inv'
  BY NextStep DEF Step
<1>2. Inv => TypeOK
  BY DEF Inv
<1> QED BY <1>1, <1>2, InitInv, PTL DEF Spec

----------------------------------------------------------------------------
(***************************************************************************)
(* Msrp implements StreamReservation.                                      *)
(***************************************************************************)
LEMMA PromisesOf ==
  ASSUME NEW ms \in Machines
  PROVE  /\ UNION {{AttributeOf(p, m) : m \in {n \in Elements(ms[p]) : IsRegistered(n)}} :
                   p \in Ports}
            = {a \in Attribute : Registers(ms, a)}
         /\ UNION {{AttributeOf(p, m) : m \in {n \in Elements(ms[p]) : IsDeclared(n)}} :
                   p \in Ports}
            = {a \in Attribute : Declares(ms, a)}
<1> DEFINE R(p) == {AttributeOf(p, m) : m \in {n \in Elements(ms[p]) : IsRegistered(n)}}
           D(p) == {AttributeOf(p, m) : m \in {n \in Elements(ms[p]) : IsDeclared(n)}}
<1>1. \A p \in Ports, m \in MachineType, a \in Attribute :
        a = AttributeOf(p, m) <=> a.port = p /\ Names(m, a)
  BY DEF AttributeOf, Names, Attribute
<1>2. \A p \in Ports, m \in MachineType : AttributeOf(p, m) \in Attribute
  BY DEF AttributeOf, Attribute, MachineType
<1>3. \A p \in Ports : Elements(ms[p]) \subseteq MachineType
  BY MachinesAt DEF Elements
<1>4. \A p \in Ports : R(p) \subseteq Attribute /\ D(p) \subseteq Attribute
  BY <1>2, <1>3
<1>5. ASSUME NEW a \in Attribute, NEW p \in Ports
      PROVE  /\ a \in R(p) <=> a.port = p /\ Registers(ms, a)
             /\ a \in D(p) <=> a.port = p /\ Declares(ms, a)
  <2>1. a \in R(p) <=> \E n \in Elements(ms[p]) : IsRegistered(n) /\ a.port = p /\ Names(n, a)
    BY <1>1, <1>3
  <2>2. a \in D(p) <=> \E n \in Elements(ms[p]) : IsDeclared(n) /\ a.port = p /\ Names(n, a)
    BY <1>1, <1>3
  <2> QED BY <2>1, <2>2 DEF Registers, Declares, Elements
<1> HIDE DEF R, D
<1>6. UNION {R(p) : p \in Ports} = {a \in Attribute : Registers(ms, a)}
  BY <1>4, <1>5 DEF Attribute
<1>7. UNION {D(p) : p \in Ports} = {a \in Attribute : Declares(ms, a)}
  BY <1>4, <1>5 DEF Attribute
<1> QED BY <1>6, <1>7 DEF R, D

(* The variables of StreamReservation. *)
LEMMA AbstractState ==
  ASSUME TypeOK
  PROVE  /\ Promises(IsRegistered) = {a \in Attribute : Registers(machine, a)}
         /\ Promises(IsDeclared) = {a \in Attribute : Declares(machine, a)}
BY PromisesOf DEF Promises, AttributeOf, TypeOK, Machines

LEMMA AbstractNames ==
  /\ Reserving!Attribute = Attribute
  /\ \A a \in Attribute : \A port : Reserving!At(a, port) = KeyOf(a, port)
  /\ \A a \in Attribute : Reserving!Towards(a) = Targets(a.port, a)
  /\ \A a \in Attribute : [p \in Ports |-> PortOf(p)][a.port] = PortOf(a.port)
<1>1. \A a \in Attribute : [p \in Ports |-> PortOf(p)][a.port] = PortOf(a.port)
  BY DEF Attribute
<1>2. \A a \in Attribute : Reserving!Towards(a) = Targets(a.port, a)
  BY <1>1 DEF Reserving!Towards, Targets
<1>3. \A a \in Attribute : \A port : Reserving!At(a, port) = KeyOf(a, port)
  BY DEF Reserving!At, KeyOf
<1> QED BY <1>1, <1>2, <1>3 DEF Reserving!Attribute, Attribute, Reserving!Types, Types

LEMMA RegisterStep ==
  ASSUME TypeOK, TypeOK', defined, NEW a \in Attribute, RegistersOne(a)
  PROVE  Reserving!Register(a)
<1>1. /\ Promises(IsRegistered) = {b \in Attribute : Registers(machine, b)}
      /\ Promises(IsDeclared) = {b \in Attribute : Declares(machine, b)}
  BY AbstractState
<1>2. /\ Promises(IsRegistered)' = {b \in Attribute : Registers(machine', b)}
      /\ Promises(IsDeclared)' = {b \in Attribute : Declares(machine', b)}
  BY PromisesOf DEF Promises, AttributeOf, TypeOK, Machines
<1>3. \A b \in Attribute :
        /\ Registers(machine', b) <=> Registers(machine, b) \/ b = a
        /\ Declares(machine', b) <=>
             Declares(machine, b) \/ (b.port \in Targets(a.port, a) /\ Names(a, b))
  BY DEF RegistersOne, RegistersAlso
<1>4. Promises(IsRegistered)' = Promises(IsRegistered) \cup {a}
  BY <1>1, <1>2, <1>3
<1>5. {KeyOf(a, q) : q \in Targets(a.port, a)}
        = {b \in Attribute : b.port \in Targets(a.port, a) /\ Names(a, b)}
  <2>1. \A q \in Ports : /\ KeyOf(a, q) \in Attribute /\ KeyOf(a, q).port = q
                         /\ Names(a, KeyOf(a, q))
    BY DEF KeyOf, Names, Attribute
  <2>2. \A b \in Attribute : Names(a, b) => b = KeyOf(a, b.port)
    BY DEF KeyOf, Names, Attribute
  <2>3. Targets(a.port, a) \subseteq Ports
    BY DEF Targets
  <2> QED BY <2>1, <2>2, <2>3
<1>6. Promises(IsDeclared)' = Promises(IsDeclared) \cup {KeyOf(a, q) : q \in Targets(a.port, a)}
  BY <1>1, <1>2, <1>3, <1>5
<1>7. {Reserving!At(a, q) : q \in Reserving!Towards(a)} = {KeyOf(a, q) : q \in Targets(a.port, a)}
  BY AbstractNames
<1>8. Elements(reservation)' =
        Elements(reservation) \cup {Reserving!At(a, [p \in Ports |-> PortOf(p)][a.port])}
  BY AbstractNames DEF RegistersOne, Elements
<1> QED BY <1>4, <1>6, <1>7, <1>8 DEF Reserving!Register, RegistersOne

LEMMA RestartStep ==
  ASSUME TypeOK, TypeOK', defined, Restarts
  PROVE  Reserving!Restart
<1>1. /\ Promises(IsRegistered)' = {b \in Attribute : Registers(machine', b)}
      /\ Promises(IsDeclared)' = {b \in Attribute : Declares(machine', b)}
  BY PromisesOf DEF Promises, AttributeOf, TypeOK, Machines
<1>2. Promises(IsRegistered)' = {} /\ Promises(IsDeclared)' = {}
  BY <1>1 DEF Restarts
<1>3. Elements(reservation)' = Elements(reservation)
  BY DEF Restarts, Elements
<1> QED BY <1>2, <1>3 DEF Reserving!Restart, Restarts

LEMMA KeepStep ==
  ASSUME TypeOK, TypeOK', Keeps
  PROVE  Reserving!Break \/ UNCHANGED Reserving!vars
<1>1. /\ Promises(IsRegistered) = {b \in Attribute : Registers(machine, b)}
      /\ Promises(IsDeclared) = {b \in Attribute : Declares(machine, b)}
  BY AbstractState
<1>2. /\ Promises(IsRegistered)' = {b \in Attribute : Registers(machine', b)}
      /\ Promises(IsDeclared)' = {b \in Attribute : Declares(machine', b)}
  BY PromisesOf DEF Promises, AttributeOf, TypeOK, Machines
<1>3. /\ Promises(IsRegistered)' = Promises(IsRegistered)
      /\ Promises(IsDeclared)' = Promises(IsDeclared)
  BY <1>1, <1>2 DEF Keeps, Same
<1>4. Elements(reservation)' = Elements(reservation)
  BY DEF Keeps, Elements
<1> QED BY <1>3, <1>4 DEF Keeps, Reserving!Break, Reserving!vars

(* Nothing moves in memory that is no longer the program's. *)
LEMMA BrokenIsOver ==
  ASSUME ~defined, [Next]_vars
  PROVE  UNCHANGED vars
BY DEF Next, vars, BeginFrame, ReceiveNewStream, ReceiveKnownStream, ReceiveDomain,
       ReceiveLeaveAll, InFrame, EndFrame, MoreWork, Tick, Deinit

LEMMA SimulationStep ==
  ASSUME Inv, [Next]_vars
  PROVE  [Reserving!Next]_(Reserving!vars)
<1>1. Step /\ TypeOK /\ TypeOK'
  BY NextStep DEF Step, Inv
<1>2. CASE ~defined
  <2>1. UNCHANGED vars
    BY <1>2, BrokenIsOver
  <2> QED BY <2>1 DEF vars, Reserving!vars, Promises, Elements
<1>3. CASE defined
  <2>1. CASE Keeps
    BY <1>1, <2>1, KeepStep DEF Reserving!Next
  <2>2. CASE Restarts
    BY <1>1, <1>3, <2>2, RestartStep DEF Reserving!Next
  <2>3. ASSUME NEW a \in Attribute, RegistersOne(a) PROVE Reserving!Next
    <3>1. Reserving!Register(a) /\ a \in Reserving!Attribute
      BY <1>1, <1>3, <2>3, RegisterStep, AbstractNames
    <3> QED BY <3>1 DEF Reserving!Next
  <2> QED BY <1>1, <2>1, <2>2, <2>3 DEF Step
<1> QED BY <1>2, <1>3

LEMMA SimulationStart == Init => Reserving!Init
<1> SUFFICES ASSUME Init PROVE Reserving!Init
  OBVIOUS
<1>1. <<>> \in Seq(MachineType) /\ DOMAIN <<>> = {}
  BY EmptySeq
<1>2. \A p \in Ports : machine[p] = <<>>
  BY DEF Init
<1>3. Promises(IsRegistered) = {} /\ Promises(IsDeclared) = {} /\ Elements(reservation) = {}
  BY <1>1, <1>2 DEF Init, Promises, Elements
<1> QED BY <1>3 DEF Reserving!Init, Init

(* Msrp implements StreamReservation: whatever frames, whatever the failed  *)
(* search delivers and wherever the tables end, an attribute is registered, *)
(* reserved for and declared in one step, and nothing else is.              *)
THEOREM MsrpReserves == Spec => ImplementsReservation
<1>1. Inv /\ [Next]_vars => Inv'
  BY NextStep DEF Step
<1>2. Inv /\ [Next]_vars => [Reserving!Next]_(Reserving!vars)
  BY SimulationStep
<1> QED
  BY <1>1, <1>2, InitInv, SimulationStart, PTL DEF Spec, ImplementsReservation, Reserving!Spec

(* Nothing is withdrawn: neither a leave, with or without the leave timer,  *)
(* nor a leave-all, nor anything else a neighbour sends, ends what has been *)
(* registered or declared; only vtss_msrp_deinit does.  The reservations,   *)
(* and the places of the streams, not even that gives back.                 *)
NothingEnds ==
  [][/\ streams \subseteq streams'
     /\ Elements(reservation) \subseteq Elements(reservation)'
     /\ \/ Deinit
        \/ /\ Promises(IsRegistered) \subseteq Promises(IsRegistered)'
           /\ Promises(IsDeclared) \subseteq Promises(IsDeclared)']_vars

LEMMA NothingEndsStep ==
  ASSUME Inv, [Next]_vars
  PROVE  /\ streams \subseteq streams'
         /\ Elements(reservation) \subseteq Elements(reservation)'
         /\ \/ Deinit
            \/ /\ Promises(IsRegistered) \subseteq Promises(IsRegistered)'
               /\ Promises(IsDeclared) \subseteq Promises(IsDeclared)'
<1>1. Step /\ TypeOK /\ TypeOK'
  BY NextStep DEF Step, Inv
<1>2. /\ Promises(IsRegistered) = {b \in Attribute : Registers(machine, b)}
      /\ Promises(IsDeclared) = {b \in Attribute : Declares(machine, b)}
  BY <1>1, AbstractState
<1>3. /\ Promises(IsRegistered)' = {b \in Attribute : Registers(machine', b)}
      /\ Promises(IsDeclared)' = {b \in Attribute : Declares(machine', b)}
  BY <1>1, PromisesOf DEF Promises, AttributeOf, TypeOK, Machines
<1>4. CASE Keeps
  <2>1. reservation' = reservation /\ Same(machine, machine')
    BY <1>4 DEF Keeps
  <2>2. Elements(reservation)' = Elements(reservation)
    BY <2>1 DEF Elements
  <2>. QED  BY <1>1, <1>2, <1>3, <2>1, <2>2 DEF Step, Same
<1>5. CASE Deinit /\ Restarts
  <2>1. Elements(reservation)' = Elements(reservation)
    BY <1>5 DEF Restarts, Elements
  <2>. QED  BY <1>1, <1>5, <2>1 DEF Step
<1>6. ASSUME NEW a \in Attribute, RegistersOne(a)
      PROVE  /\ Elements(reservation) \subseteq Elements(reservation)'
             /\ Promises(IsRegistered) \subseteq Promises(IsRegistered)'
             /\ Promises(IsDeclared) \subseteq Promises(IsDeclared)'
  <2>1. Elements(reservation)' = Elements(reservation) \cup {KeyOf(a, PortOf(a.port))}
    BY <1>6 DEF RegistersOne, Elements
  <2>2. \A b \in Attribute :
          /\ Registers(machine, b) => Registers(machine', b)
          /\ Declares(machine, b) => Declares(machine', b)
    BY <1>6 DEF RegistersOne, RegistersAlso
  <2>. QED  BY <1>2, <1>3, <2>1, <2>2
<1>. QED  BY <1>1, <1>4, <1>5, <1>6 DEF Step

THEOREM NothingEndsProperty == Spec => NothingEnds
<1>1. Inv /\ [Next]_vars => Inv'
  BY NextStep DEF Step
<1>2. Inv /\ [Next]_vars =>
        [/\ streams \subseteq streams'
         /\ Elements(reservation) \subseteq Elements(reservation)'
         /\ \/ Deinit
            \/ /\ Promises(IsRegistered) \subseteq Promises(IsRegistered)'
               /\ Promises(IsDeclared) \subseteq Promises(IsDeclared)']_vars
  BY NothingEndsStep
<1> QED  BY <1>1, <1>2, InitInv, PTL DEF Spec, NothingEnds

----------------------------------------------------------------------------
(***************************************************************************)
(* What StreamReservation guarantees, and with it Msrp.                    *)
(***************************************************************************)
Fulfilled ==
  /\ \A a \in Promises(IsRegistered) :
       /\ KeyOf(a, PortOf(a.port)) \in Elements(reservation)
       /\ a.type # "LISTENER" =>
            \A q \in Ports \ {PortOf(a.port)} : KeyOf(a, q) \in Promises(IsDeclared)
  /\ \A d \in Promises(IsDeclared) : \E a \in Promises(IsRegistered) : Names(a, d)

LEMMA FulfilledStep ==
  ASSUME Fulfilled, [Reserving!Next]_(Reserving!vars)
  PROVE  Fulfilled'
<1> DEFINE R == Promises(IsRegistered)
           D == Promises(IsDeclared)
           V == Elements(reservation)
<1>1. CASE Reserving!Break \/ UNCHANGED Reserving!vars
  <2>1. R' = R /\ D' = D /\ V' = V
    BY <1>1 DEF Reserving!Break, Reserving!vars
  <2> QED BY <2>1 DEF Fulfilled, KeyOf, Names
<1>2. CASE Reserving!Restart
  <2>1. R' = {} /\ D' = {}
    BY <1>2 DEF Reserving!Restart
  <2> QED BY <2>1 DEF Fulfilled
<1>3. ASSUME NEW a \in Attribute, Reserving!Register(a) PROVE Fulfilled'
  <2>1. /\ V' = V \cup {KeyOf(a, PortOf(a.port))} /\ R' = R \cup {a}
        /\ D' = D \cup {KeyOf(a, q) : q \in Targets(a.port, a)}
    BY <1>3, AbstractNames DEF Reserving!Register
  <2>2. a.type # "LISTENER" => Targets(a.port, a) = Ports \ {PortOf(a.port)}
    BY DEF Targets
  <2>3. \A q : Names(a, KeyOf(a, q))
    BY DEF Names, KeyOf
  <2>4. /\ \A b \in R : /\ KeyOf(b, PortOf(b.port)) \in V
                        /\ b.type # "LISTENER" =>
                             \A q \in Ports \ {PortOf(b.port)} : KeyOf(b, q) \in D
        /\ \A d \in D : \E b \in R : Names(b, d)
    BY DEF Fulfilled
  <2> HIDE DEF R, D, V
  <2>5. ASSUME NEW b \in R'
        PROVE  /\ KeyOf(b, PortOf(b.port)) \in V'
               /\ b.type # "LISTENER" =>
                    \A q \in Ports \ {PortOf(b.port)} : KeyOf(b, q) \in D'
    BY <2>1, <2>2, <2>4, <2>5
  <2>6. ASSUME NEW d \in D' PROVE \E b \in R' : Names(b, d)
    BY <2>1, <2>3, <2>4, <2>6
  <2> QED BY <2>5, <2>6 DEF Fulfilled, R, D, V
<1> QED BY <1>1, <1>2, <1>3, AbstractNames DEF Reserving!Next

LEMMA FulfilledStart == Reserving!Init => Fulfilled
BY DEF Reserving!Init, Fulfilled

LEMMA FulfilledAlways == Spec => [](TypeOK /\ Fulfilled)
<1>1. Inv /\ [Next]_vars => Inv'
  BY NextStep DEF Step
<1>2. Inv /\ [Next]_vars => [Reserving!Next]_(Reserving!vars)
  BY SimulationStep
<1>3. Fulfilled /\ [Reserving!Next]_(Reserving!vars) => Fulfilled'
  BY FulfilledStep
<1>4. Inv => TypeOK
  BY DEF Inv
<1> QED
  BY <1>1, <1>2, <1>3, <1>4, InitInv, SimulationStart, FulfilledStart, PTL DEF Spec

(* A machine and its attribute. *)
LEMMA MachineAttribute ==
  ASSUME TypeOK, NEW p \in Ports, NEW m \in Elements(machine[p])
  PROVE  /\ m \in MachineType /\ AttributeOf(p, m) \in Attribute
         /\ IsRegistered(m) => AttributeOf(p, m) \in Promises(IsRegistered)
         /\ IsDeclared(m) => AttributeOf(p, m) \in Promises(IsDeclared)
         /\ \A port : KeyOf(AttributeOf(p, m), port) = KeyOf(m, port)
         /\ AttributeOf(p, m).port = p /\ Names(m, AttributeOf(p, m))
         /\ AttributeOf(p, m).type = m.type
<1>1. PICK i \in DOMAIN machine[p] : machine[p][i] = m
  BY DEF Elements
<1>2. m \in MachineType
  BY <1>1, MachinesAt DEF TypeOK, Machines
<1>3. /\ AttributeOf(p, m) \in Attribute /\ AttributeOf(p, m).port = p
      /\ Names(m, AttributeOf(p, m)) /\ AttributeOf(p, m).type = m.type
      /\ \A port : KeyOf(AttributeOf(p, m), port) = KeyOf(m, port)
  BY <1>2 DEF AttributeOf, Attribute, MachineType, Names, KeyOf
<1>4. /\ IsRegistered(m) => Registers(machine, AttributeOf(p, m))
      /\ IsDeclared(m) => Declares(machine, AttributeOf(p, m))
  BY <1>1, <1>3 DEF Registers, Declares
<1> QED BY <1>2, <1>3, <1>4, AbstractState

LEMMA AttributeMachine ==
  ASSUME TypeOK, NEW a
  PROVE  /\ a \in Promises(IsRegistered) =>
              a.port \in Ports /\ \E m \in Elements(machine[a.port]) : IsRegistered(m) /\ Names(m, a)
         /\ a \in Promises(IsDeclared) =>
              a.port \in Ports /\ \E m \in Elements(machine[a.port]) : IsDeclared(m) /\ Names(m, a)
BY AbstractState DEF Registers, Declares, Elements, Attribute

(* What is registered on a port is reserved for.                            *)
THEOREM RegisteredIsReservedInvariant == Spec => []RegisteredIsReserved
<1>1. ASSUME TypeOK, Fulfilled, NEW p \in Ports, NEW m \in Elements(machine[p]), IsRegistered(m)
      PROVE  KeyOf(m, PortOf(p)) \in Elements(reservation)
  <2>1. AttributeOf(p, m) \in Promises(IsRegistered)
    BY <1>1, MachineAttribute
  <2>2. /\ KeyOf(AttributeOf(p, m), PortOf(p)) = KeyOf(m, PortOf(p))
        /\ AttributeOf(p, m).port = p
    BY <1>1, MachineAttribute
  <2> QED BY <1>1, <2>1, <2>2 DEF Fulfilled
<1>2. TypeOK /\ Fulfilled => RegisteredIsReserved
  BY <1>1 DEF RegisteredIsReserved
<1> QED BY <1>2, FulfilledAlways, PTL

(* A registered talker is declared on all other ports that are told from    *)
(* its own.                                                                 *)
THEOREM RegisteredIsPropagatedInvariant == Spec => []RegisteredIsPropagated
<1>1. ASSUME TypeOK, Fulfilled, NEW p \in Ports, NEW m \in Elements(machine[p]),
             IsRegistered(m), m.type # "LISTENER", NEW q \in Ports \ {PortOf(p)}
      PROVE  \E d \in Elements(machine[q]) :
               d.dir = "DEC" /\ d.stream = m.stream /\ d.type = m.type
  <2>1. KeyOf(m, q) \in Promises(IsDeclared)
    BY <1>1, MachineAttribute, ZenonT(60) DEF Fulfilled
  <2>2. PICK d \in Elements(machine[KeyOf(m, q).port]) : IsDeclared(d) /\ Names(d, KeyOf(m, q))
    BY <1>1, <2>1, AttributeMachine
  <2>3. KeyOf(m, q).port = q /\ KeyOf(m, q).stream = m.stream /\ KeyOf(m, q).type = m.type
    BY DEF KeyOf
  <2> QED BY <2>2, <2>3 DEF IsDeclared, Names
<1>2. TypeOK /\ Fulfilled => RegisteredIsPropagated
  BY <1>1 DEF RegisteredIsPropagated
<1> QED BY <1>2, FulfilledAlways, PTL

(* What is declared is registered on some port.                             *)
THEOREM DeclaredIsRegisteredInvariant == Spec => []DeclaredIsRegistered
<1>1. ASSUME TypeOK, Fulfilled, NEW q \in Ports, NEW d \in Elements(machine[q]), d.dir = "DEC"
      PROVE  \E p \in Ports : \E m \in Elements(machine[p]) :
               IsRegistered(m) /\ m.stream = d.stream /\ m.type = d.type
  <2>1. AttributeOf(q, d) \in Promises(IsDeclared) /\ Names(d, AttributeOf(q, d))
    BY <1>1, MachineAttribute DEF IsDeclared
  <2>2. PICK a \in Promises(IsRegistered) : Names(a, AttributeOf(q, d))
    BY <1>1, <2>1 DEF Fulfilled
  <2>3. a.port \in Ports /\ \E m \in Elements(machine[a.port]) : IsRegistered(m) /\ Names(m, a)
    BY <1>1, AttributeMachine
  <2> QED BY <2>1, <2>2, <2>3 DEF Names
<1>2. TypeOK /\ Fulfilled => DeclaredIsRegistered
  BY <1>1 DEF DeclaredIsRegistered
<1> QED BY <1>2, FulfilledAlways, PTL

----------------------------------------------------------------------------
(***************************************************************************)
(* The reservations suffice.                                               *)
(***************************************************************************)
(* The keys there are for the streams S: two port pointers, three types.    *)
Keys(S) == [port : {NoPort, NumPorts - 1}, stream : S, type : Types]

(* Every reservation is of a known stream, and none is made twice.          *)
Budget ==
  /\ IsFiniteSet(streams) /\ Cardinality(streams) <= StreamSlots
  /\ Elements(reservation) \subseteq Keys(streams)
  /\ IsFiniteSet(Elements(reservation))
  /\ Cardinality(Elements(reservation)) = Len(reservation)

LEMMA StreamsStep ==
  ASSUME [Next]_vars
  PROVE  \/ streams' = streams
         \/ \E s \in Streams : streams' = streams \cup {s} /\ Cardinality(streams) # StreamSlots
<1>1. ASSUME NEW o \in Offers, NEW e \in Arriving, ReceiveNewStream(o[1], o[2], e)
      PROVE  \/ streams' = streams
             \/ \E s \in Streams : streams' = streams \cup {s} /\ Cardinality(streams) # StreamSlots
  <2>1. CASE Overrun
    BY <2>1 DEF Overrun
  <2>2. CASE ~Overrun
    BY <1>1, <2>2, ZeroHasNoEntry DEF ReceiveNewStream
  <2> QED BY <2>1, <2>2
<1>2. ASSUME NEW e \in Arriving, ReceiveKnownStream(e) \/ ReceiveDomain(e)
      PROVE  streams' = streams
  BY <1>2 DEF ReceiveKnownStream, ReceiveDomain, Overrun, vars
<1>3. CASE \/ \E p \in Ports : BeginFrame(p)
           \/ \E type \in Types : ReceiveLeaveAll(type)
           \/ EndFrame \/ MoreWork \/ Tick \/ Deinit \/ UNCHANGED vars
  BY <1>3 DEF BeginFrame, ReceiveLeaveAll, EndFrame, MoreWork, Tick, Work, Deinit, vars
<1> QED BY <1>1, <1>2, <1>3 DEF Next

LEMMA BudgetStep ==
  ASSUME Inv, Budget, [Next]_vars
  PROVE  Budget'
<1>1. Step /\ streams \subseteq streams'
  BY NextStep DEF Step
<1>2. IsFiniteSet(streams') /\ Cardinality(streams') <= StreamSlots
  <2>1. CASE streams' = streams
    BY <2>1 DEF Budget
  <2>2. ASSUME NEW s \in Streams, streams' = streams \cup {s}, Cardinality(streams) # StreamSlots
        PROVE  IsFiniteSet(streams') /\ Cardinality(streams') <= StreamSlots
    <3>1. /\ IsFiniteSet(streams') /\ Cardinality(streams) \in Nat
          /\ Cardinality(streams') \in {Cardinality(streams), Cardinality(streams) + 1}
      BY <2>2, FS_AddElement, FS_CardinalityType DEF Budget
    <3> QED BY <2>2, <3>1, MsrpAssumption DEF Budget
  <2> QED BY <2>1, <2>2, StreamsStep
<1>3. Elements(reservation) \subseteq Keys(streams')
  BY <1>1 DEF Budget, Keys
<1>4. CASE reservation' = reservation
  BY <1>2, <1>3, <1>4 DEF Budget, Elements, Keys
<1>5. ASSUME NEW a \in Attribute, a.stream \in streams', RegistersOne(a) PROVE Budget'
  <2> DEFINE key == KeyOf(a, PortOf(a.port))
  <2>1. key \in Keys(streams') /\ key \in Reservation
    BY <1>5, PortTypes DEF KeyOf, Keys, Attribute, Reservation
  <2>2. /\ reservation' = Reserve(key)
        /\ Elements(reservation') = Elements(reservation) \cup {key}
    BY <1>5 DEF RegistersOne
  <2> HIDE DEF key
  <2>3. CASE key \in Elements(reservation)
    <3>1. reservation' = reservation
      BY <2>2, <2>3 DEF Reserve
    <3> QED BY <1>4, <3>1
  <2>4. CASE key \notin Elements(reservation)
    <3>1. Len(reservation') = Len(reservation) + 1
      BY <2>1, <2>2, <2>4, AppendProperties DEF Reserve, Inv, TypeOK
    <3>2. /\ IsFiniteSet(Elements(reservation'))
          /\ Cardinality(Elements(reservation')) = Cardinality(Elements(reservation)) + 1
      BY <2>2, <2>4, FS_AddElement DEF Budget
    <3>3. Elements(reservation') \subseteq Keys(streams')
      BY <1>3, <2>1, <2>2
    <3> QED BY <1>2, <3>1, <3>2, <3>3 DEF Budget, Elements, Keys
  <2> QED BY <2>3, <2>4
<1> QED BY <1>1, <1>4, <1>5 DEF Step, Keeps, Restarts

LEMMA InitBudget == Init => Budget
<1> SUFFICES ASSUME Init PROVE Budget
  OBVIOUS
<1>1. Len(<<>>) = 0 /\ DOMAIN <<>> = {}
  BY EmptySeq
<1>2. Elements(reservation) = {} /\ Len(reservation) = 0 /\ streams = {}
  BY <1>1 DEF Init, Elements
<1> QED BY <1>2, FS_EmptySet, MsrpAssumption DEF Budget

(* Six keys for every stream. *)
LEMMA NumberOfKeys ==
  ASSUME NEW S, IsFiniteSet(S)
  PROVE  /\ IsFiniteSet(Keys(S)) /\ Cardinality(S) \in Nat
         /\ Cardinality(Keys(S)) <= 6 * Cardinality(S)
<1> DEFINE P == {NoPort, NumPorts - 1}
           T == S \X (P \X Types)
           f == [k \in Keys(S) |-> <<k.stream, <<k.port, k.type>>>>]
<1>1. IsFiniteSet(P) /\ Cardinality(P) = 2
  <2>1. NoPort # NumPorts - 1
    BY MsrpAssumption DEF NoPort
  <2>2. P = {NoPort} \cup {NumPorts - 1}
    OBVIOUS
  <2>3. IsFiniteSet({NoPort}) /\ Cardinality({NoPort}) = 1
    BY FS_Singleton
  <2> QED BY <2>1, <2>2, <2>3, FS_AddElement
<1>2. IsFiniteSet(Types) /\ Cardinality(Types) = 3
  <2> DEFINE A == {"TALKER_ADVERTISE"}
             B == A \cup {"TALKER_FAILED"}
  <2>1. IsFiniteSet(A) /\ Cardinality(A) = 1
    BY FS_Singleton
  <2>2. IsFiniteSet(B) /\ Cardinality(B) = 2
    BY <2>1, FS_AddElement
  <2>3. Types = B \cup {"LISTENER"} /\ "LISTENER" \notin B
    BY DEF Types
  <2> HIDE DEF B
  <2> QED BY <2>2, <2>3, FS_AddElement
<1> HIDE DEF P
<1>3. IsFiniteSet(P \X Types) /\ Cardinality(P \X Types) = 6
  BY <1>1, <1>2, FS_Product
<1>4. /\ IsFiniteSet(T) /\ Cardinality(S) \in Nat
      /\ Cardinality(T) = Cardinality(S) * 6
  BY <1>3, FS_Product, FS_CardinalityType
<1>5. f \in Injection(Keys(S), T)
  BY DEF Keys, Injection, IsInjective, P
<1>6. IsFiniteSet(Keys(S)) /\ Cardinality(Keys(S)) <= Cardinality(T)
  <2> HIDE DEF f, T
  <2> QED BY <1>4, <1>5, FS_Injection
<1> QED BY <1>4, <1>6

(* Whenever a reservation of a known stream is missing there is room for    *)
(* it, provided there are six reservations per stream, as there are in the  *)
(* code: 30 and 5.                                                          *)
THEOREM ReservationsFitInvariant ==
  ASSUME 6 * StreamSlots <= ReservationSlots
  PROVE  Spec => []ReservationsFit
<1>1. ASSUME TypeOK, Budget, NEW stream \in streams, NEW type \in Types,
             NEW port \in {NoPort, NumPorts - 1},
             [port |-> port, stream |-> stream, type |-> type] \notin Elements(reservation)
      PROVE  Len(reservation) < ReservationSlots
  <2> DEFINE key == [port |-> port, stream |-> stream, type |-> type]
             K == Keys(streams)
             R == Elements(reservation)
  <2>1. key \in K /\ R \subseteq K \ {key}
    BY <1>1 DEF Budget, Keys
  <2> HIDE DEF key, K, R
  <2>2. /\ IsFiniteSet(K) /\ Cardinality(streams) \in Nat
        /\ Cardinality(K) <= 6 * Cardinality(streams)
    BY <1>1, NumberOfKeys DEF Budget, K
  <2>3. IsFiniteSet(K \ {key}) /\ Cardinality(K \ {key}) = Cardinality(K) - 1
    BY <2>1, <2>2, FS_RemoveElement
  <2>4. Cardinality(R) <= Cardinality(K \ {key})
    BY <2>1, <2>3, FS_Subset
  <2>5. Cardinality(R) = Len(reservation) /\ Cardinality(streams) <= StreamSlots
    BY <1>1 DEF Budget, R
  <2>6. Cardinality(K) \in Nat /\ Len(reservation) \in Nat
    BY <1>1, <2>2, FS_CardinalityType, LenProperties DEF TypeOK
  <2> QED BY <2>2, <2>3, <2>4, <2>5, <2>6, MsrpAssumption
<1>2. TypeOK /\ Budget => ReservationsFit
  BY <1>1 DEF ReservationsFit
<1>3. Inv /\ [Next]_vars => Inv'
  BY NextStep DEF Step
<1>4. Inv /\ Budget /\ [Next]_vars => Budget'
  BY BudgetStep
<1>5. Inv => TypeOK
  BY DEF Inv
<1> QED BY <1>2, <1>3, <1>4, <1>5, InitInv, InitBudget, PTL DEF Spec

----------------------------------------------------------------------------
(***************************************************************************)
(* Opportunities to transmit go on.  ENABLED is out of the provers' reach: *)
(* FairStepsMove is a hypothesis, which TLC checks.                        *)
(*                                                                         *)
(* A timer that runs is touched by nothing but the ticks.  Its rank is the *)
(* time it has left, and by doubling what it falls in time it has fallen,  *)
(* after 32 doublings, further than a timer of 32 bits reaches.            *)
(***************************************************************************)
Offered(p) == ~defined \/ Opportunity(p)

Counts(p, a) == part[p].join /\ part[p].joinLeft < a

Falls(p, a, b) == Counts(p, a) ~> (Counts(p, b) \/ Offered(p))

FallsBy(p, w) == \A n \in Nat : Falls(p, n + w, n)

LEMMA FallsFurther ==
  ASSUME NEW p, NEW a, NEW b, NEW c
  PROVE  Falls(p, a, b) /\ Falls(p, b, c) => Falls(p, a, c)
  BY PTL DEF Falls

LEMMA FallsTwice ==
  ASSUME NEW p, NEW w \in Nat
  PROVE  FallsBy(p, w) => FallsBy(p, w + w)
<1>. SUFFICES ASSUME FallsBy(p, w), NEW n \in Nat  PROVE Falls(p, n + (w + w), n)
  BY DEF FallsBy
<1>1. n + w \in Nat /\ (n + w) + w = n + (w + w)
  OBVIOUS
<1>2. Falls(p, n + w, n)
  BY DEF FallsBy
<1>3. Falls(p, (n + w) + w, n + w)
  BY <1>1 DEF FallsBy
<1>. QED  BY <1>1, <1>2, <1>3, FallsFurther

LEMMA FallsSixteenTimes ==
  ASSUME NEW p, NEW w \in Nat
  PROVE  FallsBy(p, w) => FallsBy(p, 16 * w)
<1>1. /\ 2 * w \in Nat /\ 4 * w \in Nat /\ 8 * w \in Nat
      /\ 2 * w = w + w /\ 4 * w = 2 * w + 2 * w /\ 8 * w = 4 * w + 4 * w
      /\ 16 * w = 8 * w + 8 * w
  OBVIOUS
<1>2. FallsBy(p, w) => FallsBy(p, 2 * w)
  BY <1>1, FallsTwice
<1>3. FallsBy(p, 2 * w) => FallsBy(p, 4 * w)
  BY <1>1, FallsTwice
<1>4. FallsBy(p, 4 * w) => FallsBy(p, 8 * w)
  BY <1>1, FallsTwice
<1>5. FallsBy(p, 8 * w) => FallsBy(p, 16 * w)
  BY <1>1, FallsTwice
<1>. QED  BY <1>2, <1>3, <1>4, <1>5

LEMMA FallsAllTheWay ==
  ASSUME NEW p
  PROVE  FallsBy(p, 1) => Falls(p, 4294967296, 0)
<1>1. FallsBy(p, 1) => FallsBy(p, 16)
  BY FallsSixteenTimes
<1>2. FallsBy(p, 16) => FallsBy(p, 256)
  BY FallsSixteenTimes
<1>3. FallsBy(p, 256) => FallsBy(p, 4096)
  BY FallsSixteenTimes
<1>4. FallsBy(p, 4096) => FallsBy(p, 65536)
  BY FallsSixteenTimes
<1>5. FallsBy(p, 65536) => FallsBy(p, 1048576)
  BY FallsSixteenTimes
<1>6. FallsBy(p, 1048576) => FallsBy(p, 16777216)
  BY FallsSixteenTimes
<1>7. FallsBy(p, 16777216) => FallsBy(p, 268435456)
  BY FallsSixteenTimes
<1>8. FallsBy(p, 268435456) => FallsBy(p, 4294967296)
  BY FallsSixteenTimes
<1>9. FallsBy(p, 4294967296) => Falls(p, 4294967296, 0)
  <2>1. 0 \in Nat /\ 0 + 4294967296 = 4294967296
    OBVIOUS
  <2>. QED  BY <2>1 DEF FallsBy
<1>. QED  BY <1>1, <1>2, <1>3, <1>4, <1>5, <1>6, <1>7, <1>8, <1>9

(* No timer that runs is stopped or set. *)
TimersRunOn ==
  \A q \in Ports : part[q].join => part'[q].join /\ part'[q].joinLeft = part[q].joinLeft

LEMMA RequestRunsOn ==
  ASSUME NEW r, r.join, NEW asks
  PROVE  AskedIf(asks, r) = r
BY Zenon DEF AskedIf, RequestTx

LEMMA EventRunsOn ==
  ASSUME part \in [Ports -> PartType], NEW ms, NEW p, NEW i, NEW e, AttrEvent(ms, p, i, e)
  PROVE  TimersRunOn
<1>1. CASE ApplicantEvent(ms, p, i, e)
  <2>1. part' = [part EXCEPT ![p] = AskedIf(Asks(p, ms[p][i], e), part[p])]
    BY <1>1, Zenon DEF ApplicantEvent
  <2> QED BY <2>1, RequestRunsOn DEF TimersRunOn
<1>2. ASSUME NEW cell, JoinIndication(ms, p, i, cell)  PROVE TimersRunOn
  <2>1. part' = [q \in Ports |-> AskedIf(q \in Targets(p, ms[p][i]), part[q])]
    BY <1>2, Zenon DEF JoinIndication
  <2>2. \A q \in Ports : part'[q] = AskedIf(q \in Targets(p, ms[p][i]), part[q])
    BY <2>1, Zenon
  <2> QED BY <2>2, RequestRunsOn, Zenon DEF TimersRunOn
<1>3. ASSUME NEW cell, StayOrLeave(ms, p, i, cell)  PROVE TimersRunOn
  BY <1>3 DEF StayOrLeave, TimersRunOn, PartType
<1>4. CASE NoEffect(ms)
  BY <1>4 DEF NoEffect, TimersRunOn
<1> QED
  BY <1>1, <1>2, <1>3, <1>4, Zenon DEF AttrEvent, RegistrarEvent

LEMMA FrameRunsOn ==
  ASSUME part \in [Ports -> PartType],
         \/ \E p \in Ports : BeginFrame(p)
         \/ \E o \in Offers, e \in Arriving : ReceiveNewStream(o[1], o[2], e)
         \/ \E e \in Arriving : ReceiveKnownStream(e) \/ ReceiveDomain(e)
         \/ \E type \in Types : ReceiveLeaveAll(type)
         \/ EndFrame
         \/ UNCHANGED vars
  PROVE  TimersRunOn
<1>1. CASE UNCHANGED part
  BY <1>1 DEF TimersRunOn
<1>2. CASE Overrun \/ EndFrame \/ UNCHANGED vars
  BY <1>1, <1>2 DEF Overrun, EndFrame, vars
<1>3. ASSUME NEW p \in Ports, BeginFrame(p)  PROVE TimersRunOn
  BY <1>1, <1>3 DEF BeginFrame
<1>4. ASSUME NEW o \in Offers, NEW e \in Arriving, ReceiveNewStream(o[1], o[2], e)
      PROVE  TimersRunOn
  BY <1>2, <1>4, EventRunsOn, Zenon DEF ReceiveNewStream
<1>5. ASSUME NEW e \in Arriving, ReceiveKnownStream(e)  PROVE TimersRunOn
  BY <1>1, <1>2, <1>5, EventRunsOn, Zenon DEF ReceiveKnownStream
<1>6. ASSUME NEW e \in Arriving, ReceiveDomain(e)  PROVE TimersRunOn
  BY <1>2, <1>6, EventRunsOn, Zenon DEF ReceiveDomain
<1>7. ASSUME NEW type \in Types, ReceiveLeaveAll(type)  PROVE TimersRunOn
  <2>1. part' = [part EXCEPT ![frame.port] =
                   AskedIf(SomeAsks(frame.port, {type}, MRP_EVENT_R_LA), part[frame.port])]
    BY <1>7, Zenon DEF ReceiveLeaveAll
  <2> QED BY <2>1, RequestRunsOn DEF TimersRunOn
<1> QED BY <1>2, <1>3, <1>4, <1>5, <1>6, <1>7

(* The work of a tick starts a timer that does not run and, unless it has   *)
(* run out, leaves one that does.                                           *)
LEMMA WorkRunsOn ==
  ASSUME TypeOK, NEW p \in Ports, ~PointToPoint(p), ~Opportunity(p)
  PROVE  /\ Worked(p) \in PartType /\ Worked(p).join
         /\ part[p].join => Worked(p).joinLeft = part[p].joinLeft /\ part[p].joinLeft > 0
<1> DEFINE r == [part[p] EXCEPT !.leave = FALSE]
<1>1. /\ part[p] \in PartType /\ Worked(p) \in PartType
      /\ part[p].joinLeft \in Nat
  BY TypeOfEvents, WorkedType, MsrpAssumption DEF TypeOK, PartType
<1>2. /\ r \in PartType /\ r.join = part[p].join /\ r.joinLeft = part[p].joinLeft
  BY <1>1 DEF PartType
<1>3. CASE part[p].join
  <2>1. part[p].joinLeft > 0
    BY <1>1, <1>3 DEF Opportunity
  <2>2. Worked(p) = r
    BY <1>2, <1>3, <2>1 DEF Worked
  <2> QED BY <1>1, <1>2, <1>3, <2>1, <2>2
<1>4. CASE ~part[p].join
  <2>1. Worked(p) = RequestTx(r)
    BY <1>2, <1>4 DEF Worked
  <2> HIDE DEF r
  <2>2. RequestTx(r).join
    BY <1>2, <1>4 DEF RequestTx, PartType
  <2> QED BY <1>1, <1>4, <2>1, <2>2
<1> QED BY <1>3, <1>4

LEMMA TickCounts ==
  ASSUME TypeOK, Tick, NEW p \in Ports, ~PointToPoint(p), ~Opportunity(p)
  PROVE  /\ part'[p].join
         /\ part[p].join => part'[p].joinLeft = part[p].joinLeft - 1
<1>1. part'[p] = CountedDown(Worked(p))
  BY DEF Tick
<1> HIDE DEF Worked
<1>2. /\ Worked(p) \in PartType /\ Worked(p).join
      /\ part[p].join => Worked(p).joinLeft = part[p].joinLeft /\ part[p].joinLeft > 0
  BY WorkRunsOn
<1> QED BY <1>1, <1>2 DEF CountedDown, PartType

(* Between two opportunities a timer that runs goes on running.             *)
LEMMA TimerGoesOn ==
  ASSUME TypeOK, [Next /\ ~Deinit]_vars, NEW p \in Ports, ~PointToPoint(p), ~Opportunity(p),
         part[p].join
  PROVE  /\ part'[p].join
         /\ part'[p].joinLeft = part[p].joinLeft \/ part'[p].joinLeft = part[p].joinLeft - 1
<1>1. CASE Tick
  BY <1>1, TickCounts
<1>2. CASE MoreWork
  <2>1. part'[p] = Worked(p)
    BY <1>2 DEF MoreWork
  <2> QED BY <2>1, WorkRunsOn
<1>3. CASE ~Tick /\ ~MoreWork
  <2>1. part \in [Ports -> PartType]
    BY DEF TypeOK
  <2>2. TimersRunOn
    BY <1>3, <2>1, FrameRunsOn, Zenon DEF Next
  <2> QED BY <2>2 DEF TimersRunOn
<1> QED BY <1>1, <1>2, <1>3

Undisturbed ==
  /\ []TypeOK /\ []FairStepsMove
  /\ SF_vars(Tick) /\ WF_vars(EndFrame)
  /\ [][Next /\ ~Deinit]_vars

(* Frames end, and between two of them the tick comes. *)
LEMMA TickComes ==
  ASSUME NEW p \in Ports, ~PointToPoint(p)
  PROVE  Undisturbed => []<>Offered(p) \/ []<><<Tick>>_vars
<1>1. ~Offered(p) => Ready \/ InFrame
  BY DEF Offered, Ready, InFrame
<1>2. EndFrame => ~InFrame'
  BY DEF EndFrame, InFrame
<1> QED BY <1>1, <1>2, PTL DEF Undisturbed, FairStepsMove

LEMMA TimerFalls ==
  ASSUME NEW p \in Ports, ~PointToPoint(p)
  PROVE  Undisturbed => FallsBy(p, 1)
<1>1. ASSUME NEW n \in Nat
      PROVE  Undisturbed => Falls(p, n + 1, n)
  <2>1. TypeOK /\ Counts(p, n + 1) => part[p].joinLeft \in Int
    BY MsrpAssumption DEF TypeOK, PartType
  <2>2. /\ TypeOK /\ Counts(p, n + 1) /\ ~Offered(p) /\ [Next /\ ~Deinit]_vars
        => Counts(p, n + 1)'
    BY <2>1, TimerGoesOn DEF Counts, Offered
  <2>3. /\ TypeOK /\ Counts(p, n + 1) /\ ~Offered(p) /\ <<Tick>>_vars
        => Counts(p, n)'
    BY <2>1, TickCounts DEF Counts, Offered
  <2> QED BY <2>2, <2>3, TickComes, PTL DEF Undisturbed, Falls
<1> HIDE DEF Undisturbed
<1> QED BY <1>1 DEF FallsBy

(* On a shared medium opportunities to transmit never end, for every number *)
(* of ports and whatever is received, and every period of a 32-bit timer.   *)
THEOREM KeepsOfferingInTime ==
  ASSUME JoinPeriod < 4294967296
  PROVE  Spec /\ []FairStepsMove => KeepsOffering
<1>1. ASSUME NEW p \in Ports, ~PointToPoint(p)
      PROVE  Spec /\ []FairStepsMove /\ <>[][~Deinit]_vars => []<>Offered(p)
  <2>1. TypeOK /\ part[p].join => Counts(p, 4294967296) /\ ~Counts(p, 0)
    BY MsrpAssumption DEF TypeOK, PartType, Counts
  <2>2. Undisturbed => Falls(p, 4294967296, 0)
    BY <1>1, TimerFalls, FallsAllTheWay
  <2>3. Undisturbed => []<>Offered(p) \/ []<><<Tick>>_vars
    BY <1>1, TickComes
  <2>4. TypeOK /\ ~Offered(p) /\ <<Tick>>_vars => part'[p].join
    BY <1>1, TickCounts DEF Offered
  <2>5. Undisturbed => <>Offered(p)
    <3>1. TypeOK /\ ~Offered(p) /\ <<Tick>>_vars => (part[p].join)'
      BY <2>4
    <3>2. Counts(p, 0) => part[p].join
      BY DEF Counts
    <3> QED BY <2>1, <2>2, <2>3, <3>1, <3>2, PTL DEF Undisturbed, Falls
  <2>6. [Next]_vars /\ [~Deinit]_vars => [Next /\ ~Deinit]_vars
    OBVIOUS
  <2> QED BY <2>5, <2>6, MsrpTypeCorrect, PTL DEF Spec, Undisturbed
<1> QED BY <1>1 DEF KeepsOffering, Offered

=============================================================================
