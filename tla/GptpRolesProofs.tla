-------------------------- MODULE GptpRolesProofs --------------------------
(***************************************************************************)
(* Proofs about the best master clock algorithm of GptpRoles, for every    *)
(* number of ports, every set of identities and announces and every        *)
(* configuration of the timeouts.                                          *)
(*                                                                         *)
(* What a tick does to a port is AssignRole, when a selection ran, and     *)
(* then Settle.  Both are operators on the port's record, so their effect  *)
(* is stated once in lemmas and the invariance proofs only cite those.     *)
(***************************************************************************)
EXTENDS GptpRoles, WellFoundedInduction, TLAPS

(***************************************************************************)
(* The order of priority vectors: a strict total order, in which every      *)
(* nonempty set of ports has a first best one, whatever the ports carry.   *)
(***************************************************************************)
LEMMA BetterIrreflexive ==
  ASSUME NEW a \in Vectors
  PROVE  ~Better(a, a)
BY SMT DEF Better, Vectors, Roots, Steps, Sources, PortNumbers

LEMMA BetterTransitive ==
  ASSUME NEW a \in Vectors, NEW b \in Vectors, NEW c \in Vectors,
         Better(a, b), Better(b, c)
  PROVE  Better(a, c)
BY SMT DEF Better, Vectors, Roots, Steps, Sources, PortNumbers

LEMMA BetterTotal ==
  ASSUME NEW a \in Vectors, NEW b \in Vectors
  PROVE  Better(a, b) \/ a = b \/ Better(b, a)
BY VectorsAssumption, SMT DEF Better, Vectors, Roots, Steps, Sources, PortNumbers

(* A nonempty set of naturals has a least element. *)
LEMMA LeastNatural ==
  ASSUME NEW T, T \subseteq Nat, T # {}
  PROVE  \E n \in T : \A m \in T : n <= m
<1>. DEFINE R == {ss \in Nat \X Nat : ss[1] < ss[2]}
<1>1. IsWellFoundedOn(R, Nat)
  BY NatLessThanWellFounded, Zenon DEF OpToRel
<1>. HIDE DEF R
<1>2. PICK n \in T : \A m \in T : <<m, n>> \notin R
  BY <1>1, WFMin, Zenon
<1>3. ASSUME NEW m \in T, m < n  PROVE FALSE
  <2>1. <<m, n>> \in R
    BY <1>3, Zenon DEF R
  <2>. QED  BY <2>1, <1>2
<1>4. \A m \in T : n <= m
  BY <1>3, SMT
<1>. QED  BY <1>4

(* An element of a nonempty set at which a natural measure is least. *)
LEMMA LeastMeasure ==
  ASSUME NEW S, S # {}, NEW g \in [S -> Nat]
  PROVE  \E a \in S : \A q \in S : g[a] <= g[q]
<1>. DEFINE T == {g[q] : q \in S}
<1>1. T \subseteq Nat /\ T # {}
  OBVIOUS
<1>2. PICK n \in T : \A m \in T : n <= m
  BY <1>1, LeastNatural, Zenon
<1>3. PICK a \in S : n = g[a]
  OBVIOUS
<1>. QED  BY <1>2, <1>3

(***************************************************************************)
(* The first of the best: among a nonempty set of ports there is one that  *)
(* is better than every other, or carries the same vector at a smaller     *)
(* index.  The fields are minimised one after the other, in memcmp order.  *)
(***************************************************************************)
LEMMA FirstOfBestExists ==
  ASSUME NEW f \in [Ports -> Vectors], NEW S \in SUBSET Ports, S # {}
  PROVE  \E p \in S : \A q \in S : Better(f[p], f[q]) \/ (f[p] = f[q] /\ p <= q)
<1>. S \subseteq Nat
  BY VectorsAssumption DEF Ports
<1>f. \A q \in S : /\ f[q] \in Vectors
                  /\ f[q].root \in Nat /\ f[q].steps \in Nat
                  /\ f[q].source \in Nat /\ f[q].portNumber \in Nat
  BY DEF Vectors, Roots, Steps, Sources, PortNumbers
<1>1. PICK a \in S : \A q \in S : f[a].root <= f[q].root
  <2>. DEFINE g == [q \in S |-> f[q].root]
  <2>1. S # {} /\ g \in [S -> Nat]
    BY <1>f
  <2>. HIDE DEF g
  <2>2. PICK a \in S : \A q \in S : g[a] <= g[q]
    BY <2>1, LeastMeasure, Zenon
  <2>. QED  BY <2>2 DEF g
<1>. DEFINE A == {q \in S : f[q].root = f[a].root}
<1>2. PICK b \in A : \A q \in A : f[b].steps <= f[q].steps
  <2>. DEFINE g == [q \in A |-> f[q].steps]
  <2>1. A # {} /\ g \in [A -> Nat]
    BY <1>f, <1>1
  <2>. HIDE DEF A, g
  <2>2. PICK b \in A : \A q \in A : g[b] <= g[q]
    BY <2>1, LeastMeasure, Zenon
  <2>. QED  BY <2>2 DEF g
<1>. DEFINE B == {q \in A : f[q].steps = f[b].steps}
<1>3. PICK c \in B : \A q \in B : f[c].source <= f[q].source
  <2>. DEFINE g == [q \in B |-> f[q].source]
  <2>1. B # {} /\ g \in [B -> Nat]
    BY <1>f, <1>2
  <2>. HIDE DEF B, g
  <2>2. PICK c \in B : \A q \in B : g[c] <= g[q]
    BY <2>1, LeastMeasure, Zenon
  <2>. QED  BY <2>2 DEF g
<1>. DEFINE C == {q \in B : f[q].source = f[c].source}
<1>4. PICK d \in C : \A q \in C : f[d].portNumber <= f[q].portNumber
  <2>. DEFINE g == [q \in C |-> f[q].portNumber]
  <2>1. C # {} /\ g \in [C -> Nat]
    BY <1>f, <1>3
  <2>. HIDE DEF C, g
  <2>2. PICK d \in C : \A q \in C : g[d] <= g[q]
    BY <2>1, LeastMeasure, Zenon
  <2>. QED  BY <2>2 DEF g
<1>. DEFINE D == {q \in C : f[q].portNumber = f[d].portNumber}
<1>5. PICK e \in D : \A q \in D : e <= q
  BY <1>4, LeastNatural
<1>6. ASSUME NEW q \in S
      PROVE  Better(f[e], f[q]) \/ (f[e] = f[q] /\ e <= q)
  <2>1. CASE q \notin A
    BY <1>f, <1>1, <2>1 DEF Better
  <2>2. CASE q \in A /\ q \notin B
    BY <1>f, <1>2, <2>2 DEF Better
  <2>3. CASE q \in B /\ q \notin C
    BY <1>f, <1>3, <2>3 DEF Better
  <2>4. CASE q \in C /\ q \notin D
    BY <1>f, <1>4, <2>4 DEF Better
  <2>5. CASE q \in D
    <3>1. f[e] = f[q]
      BY <1>f, <2>5 DEF Vectors
    <3>. QED  BY <1>5, <2>5, <3>1
  <2>. QED  BY <2>1, <2>2, <2>3, <2>4, <2>5
<1>. QED  BY <1>6

(* What the algorithm builds from vectors are vectors: one hop wraps within *)
(* the 16 bits of stepsRemoved, and the fixed vectors exist.                *)
LEMMA NextStepType ==
  ASSUME NEW n \in Steps
  PROVE  NextStep(n) \in Steps
BY VectorsAssumption, SMT DEF NextStep, Steps

LEMMA VectorTypes ==
  /\ AllOnes \in Vectors /\ ZeroVector \in Vectors /\ SystemPriority \in Vectors
  /\ \A v \in Vectors : OneHopFurther(v) \in Vectors
  /\ \A v \in Vectors, p \in Ports : MasterPriority(v, p) \in Vectors
<1>. USE VectorsAssumption DEF Vectors, Roots, Steps, Sources, PortNumbers
<1>1. AllOnes \in Vectors
  BY DEF AllOnes
<1>2. ZeroVector \in Vectors
  BY DEF ZeroVector
<1>3. SystemPriority \in Vectors
  BY DEF SystemPriority
<1>4. ASSUME NEW v \in Vectors  PROVE OneHopFurther(v) \in Vectors
  BY NextStepType DEF OneHopFurther
<1>5. ASSUME NEW v \in Vectors, NEW p \in Ports  PROVE MasterPriority(v, p) \in Vectors
  <2>1. OwnSource \in Sources /\ p + 1 \in PortNumbers
    BY DEF Ports
  <2>. HIDE DEF Roots, Steps, Sources, PortNumbers
  <2>. QED  BY <2>1 DEF MasterPriority
<1>. QED  BY <1>1, <1>2, <1>3, <1>4, <1>5

(***************************************************************************)
(* Types.                                                                  *)
(***************************************************************************)
LEMMA MessagePriorityType ==
  ASSUME NEW m \in Announces, NEW p \in Ports
  PROVE  MessagePriority(m, p) \in Vectors /\ m # NoAnnounce
<1>1. m \in AnnounceType /\ m # NoAnnounce
  BY RolesAssumption
<1>2. p + 1 \in PortNumbers
  BY VectorsAssumption DEF Ports, PortNumbers
<1>. QED  BY <1>1, <1>2 DEF MessagePriority, AnnounceType, Vectors

LEMMA EnterTypes ==
  ASSUME NEW r \in PortType
  PROVE  /\ EnterDisabled(r) \in PortType
         /\ EnterAged(r) \in PortType
         /\ Disable(r) \in PortType
<1>1. EnterDisabled(r) \in PortType
  BY VectorTypes DEF EnterDisabled, PortType, States, InfoIs
<1>2. EnterAged(r) \in PortType
  BY DEF EnterAged, PortType, States, InfoIs
<1>. QED  BY <1>1, <1>2 DEF Disable

LEMMA UpdateType ==
  ASSUME NEW r \in PortType, NEW p \in Ports, NEW v \in Vectors, NEW steps \in Steps
  PROVE  UpdateIfSelected(r, p, v, steps) \in PortType
<1>1. MasterPriority(v, p) \in Vectors
  BY VectorTypes
<1>. QED  BY <1>1 DEF UpdateIfSelected, PortType, States, InfoIs

LEMMA ReceiveType ==
  ASSUME NEW r \in PortType, NEW p \in Ports
  PROVE  ReceiveIfPending(r, p) \in PortType
<1>1. CASE r.rcvd = NoAnnounce
  BY <1>1 DEF ReceiveIfPending
<1>2. CASE r.rcvd # NoAnnounce
  <2>. DEFINE message == MessagePriority(r.rcvd, p)
              heard == [r EXCEPT !.messageSteps = message.steps, !.rcvd = NoAnnounce]
  <2>1. message \in Vectors
    BY <1>2, MessagePriorityType DEF PortType
  <2>2. message.steps \in Steps
    BY <2>1 DEF Vectors
  <2>3. heard \in PortType
    BY <2>2 DEF PortType
  <2>. HIDE DEF heard
  <2>4. EnterSuperior(heard, message) \in PortType
    BY <2>1, <2>3 DEF EnterSuperior, PortType, InfoIs
  <2>. QED  BY <2>3, <2>4 DEF ReceiveIfPending, heard
<1>. QED  BY <1>1, <1>2

LEMMA SettleType ==
  ASSUME NEW r \in PortType, NEW p \in Ports, NEW v \in Vectors, NEW steps \in Steps,
         NEW present \in BOOLEAN
  PROVE  Settle(r, p, v, steps, present) \in PortType
<1>. DEFINE u == UpdateIfSelected(r, p, v, steps)
            w == ReceiveIfPending(u, p)
<1>1. w \in PortType
  BY UpdateType, ReceiveType
<1>2. AgeIfSilent(w, p, present) \in PortType
  BY <1>1, EnterTypes DEF AgeIfSilent
<1>3. Disable(r) \in PortType /\ EnterAged(Disable(r)) \in PortType
  BY EnterTypes
<1>. QED  BY <1>2, <1>3 DEF Settle

LEMMA AssignRoleType ==
  ASSUME NEW r \in PortType, NEW p, NEW g, NEW v, NEW steps
  PROVE  AssignRole(r, p, g, v, steps) \in PortType
<1>1. AssignedRole(r, p, g, v) \in PtpRoles
  BY DEF AssignedRole, PortType, InfoIs, PtpRoles
<1>2. MustUpdate(r, p, g, v, steps) \in BOOLEAN
  BY DEF MustUpdate, PortType, InfoIs, Outdated
<1>. QED  BY <1>1, <1>2 DEF AssignRole, PortType

(***************************************************************************)
(* The selection.                                                          *)
(***************************************************************************)
LEMMA SystemIsNoPort == System \notin Ports
BY VectorsAssumption DEF System, Ports

LEMMA PathType ==
  ASSUME TypeOK, NEW p \in Ports
  PROVE  gmPathPriority(p) \in Vectors
<1>1. port[p].portPriority \in Vectors
  BY DEF TypeOK, PortType
<1>. QED  BY <1>1, VectorTypes DEF gmPathPriority

(* The CHOOSE of the selection always has a port to choose. *)
LEMMA SelectGmChosen ==
  ASSUME TypeOK, Candidates # {}
  PROVE  SelectGm \in Ports /\ FirstOfBest(SelectGm)
<1>. DEFINE f == [q \in Ports |-> gmPathPriority(q)]
<1>1. f \in [Ports -> Vectors] /\ Candidates \in SUBSET Ports
  BY PathType DEF Candidates
<1>. HIDE DEF f
<1>2. PICK p \in Candidates :
        \A q \in Candidates : Better(f[p], f[q]) \/ (f[p] = f[q] /\ p <= q)
  BY <1>1, FirstOfBestExists, Zenon
<1>3. \A q \in Candidates : f[q] = gmPathPriority(q)
  BY <1>1 DEF f
<1>4. p \in Ports /\ FirstOfBest(p)
  BY <1>1, <1>2, <1>3, Zenon DEF FirstOfBest
<1>5. SelectGm = CHOOSE q \in Ports : FirstOfBest(q)
  BY DEF SelectGm
<1>. QED  BY <1>4, <1>5, Zenon

LEMMA SelectionType ==
  ASSUME TypeOK, updtRolesTree
  PROVE  /\ gm' \in Ports \cup {System}
         /\ gmPriority' \in Vectors
         /\ masterStepsRemoved' \in Steps
         /\ gmPresent' \in BOOLEAN
         /\ grandMaster' \in BOOLEAN
<1>1. gm' \in Ports \cup {System}
  BY SelectGmChosen DEF updtRolesTree, SelectGm
<1>2. gmPriority' \in Vectors
  BY <1>1, PathType, VectorTypes DEF updtRolesTree, VectorOf
<1>3. masterStepsRemoved' \in Steps
  <2>1. 0 \in Steps
    BY VectorsAssumption DEF Steps
  <2>2. \A q \in Ports : port[q].messageSteps \in Steps
    BY DEF TypeOK, PortType
  <2>. QED  BY <1>1, <2>1, <2>2, NextStepType DEF updtRolesTree, StepsOf
<1>4. gmPresent' \in BOOLEAN /\ grandMaster' \in BOOLEAN
  BY DEF updtRolesTree
<1>. QED  BY <1>1, <1>2, <1>3, <1>4

(***************************************************************************)
(* TypeOK.                                                                 *)
(***************************************************************************)
LEMMA BootIntervals ==
  LET boot == [p \in Ports |-> BootTicks]
  IN  boot \in [Ports -> Nat] /\ \A p \in Ports : boot[p] \in SyncTicks[p]
BY RolesAssumption

LEMMA InitType == Init => TypeOK
<1>. SUFFICES ASSUME Init PROVE TypeOK
  OBVIOUS
<1>1. BootPort \in PortType
  BY VectorTypes, VectorsAssumption DEF BootPort, PortType, States, InfoIs, PtpRoles, Steps
<1>2. port \in [Ports -> PortType]
  BY <1>1 DEF Init
<1>3. gmPriority \in Vectors
  BY VectorTypes DEF Init
<1>4. /\ masterStepsRemoved \in Steps
      /\ reported \in [root : Roots, steps : Steps]
      /\ pathTrace \in SUBSET Sources
  BY VectorsAssumption DEF Init, Steps, Roots, Sources
<1>. QED  BY <1>2, <1>3, <1>4, BootIntervals DEF Init, TypeOK

LEMMA RestartedType ==
  ASSUME NEW r \in PortType  PROVE RestartedPort(r) \in PortType
<1>1. "BEGIN" \in States /\ "DISABLED" \in PtpRoles /\ TRUE \in BOOLEAN
  BY DEF States, PtpRoles
<1>2. ASSUME NEW s \in States, NEW b \in BOOLEAN, NEW c \in PtpRoles
      PROVE  [r EXCEPT !.state = s, !.able = b, !.role = c] \in PortType
  BY DEF PortType
<1>. QED  BY <1>1, <1>2, Zenon DEF RestartedPort

LEMMA StepType == TypeOK /\ [Next]_vars => TypeOK'
<1>. SUFFICES ASSUME TypeOK, [Next]_vars PROVE TypeOK'
  OBVIOUS
<1>1. ASSUME NEW p \in Ports, NEW m \in Announces, ReceiveAnnounce(p, m)
      PROVE  TypeOK'
  <2>1. m.pathTrace \in SUBSET Sources
    BY RolesAssumption DEF AnnounceType
  <2>2. TraceAfter(p, m) \in SUBSET Sources
    BY <2>1 DEF TraceAfter, TypeOK
  <2>3. pathTrace' \in SUBSET Sources
    BY <1>1, <2>2 DEF ReceiveAnnounce, TypeOK
  <2>4. port' \in [Ports -> PortType]
    <3>. DEFINE a == IF port[p].able /\ Qualified(m) THEN m ELSE NoAnnounce
    <3>1. a \in Announces \cup {NoAnnounce}
      OBVIOUS
    <3>2. port' = [port EXCEPT ![p].rcvd = a]
      BY <1>1 DEF ReceiveAnnounce
    <3>. HIDE DEF a
    <3>3. [port[p] EXCEPT !.rcvd = a] \in PortType
      BY <3>1 DEF TypeOK, PortType
    <3>. QED  BY <3>2, <3>3 DEF TypeOK
  <2>. QED  BY <1>1, <2>3, <2>4 DEF ReceiveAnnounce, TypeOK
<1>2. ASSUME NEW p \in Ports, NEW m \in Announces, ReuseRxBuffer(p, m)
      PROVE  TypeOK'
  <2>1. [port[p] EXCEPT !.rcvd = m] \in PortType
    BY DEF TypeOK, PortType
  <2>2. port' \in [Ports -> PortType]
    BY <1>2, <2>1 DEF ReuseRxBuffer, TypeOK
  <2>. QED  BY <1>2, <2>2 DEF ReuseRxBuffer, systemVars, TypeOK
<1>3. ASSUME NEW p \in Ports, ChangeAble(p)
      PROVE  TypeOK'
  <2>1. [port[p] EXCEPT !.able = ~@] \in PortType
    BY ZenonT(60) DEF TypeOK, PortType
  <2>2. port' \in [Ports -> PortType]
    BY <1>3, <2>1 DEF ChangeAble, TypeOK
  <2>. QED  BY <1>3, <2>2 DEF ChangeAble, systemVars, TypeOK
<1>4. CASE TickReselect
  <2>1. updtRolesTree
    BY <1>4 DEF TickReselect
  <2>2. /\ gm' \in Ports \cup {System} /\ gmPriority' \in Vectors
        /\ masterStepsRemoved' \in Steps
        /\ gmPresent' \in BOOLEAN /\ grandMaster' \in BOOLEAN
    BY <2>1, SelectionType
  <2>3. port' \in [Ports -> PortType]
    <3>1. ASSUME NEW p \in Ports
          PROVE  Settle(AssignRole(port[p], p, gm', gmPriority', masterStepsRemoved'),
                        p, gmPriority', masterStepsRemoved', gmPresent') \in PortType
      <4>1. port[p] \in PortType
        BY DEF TypeOK
      <4>. QED  BY <2>2, <4>1, AssignRoleType, SettleType
    <3>. QED  BY <1>4, <3>1 DEF TickReselect
  <2>4. pathTrace' \in SUBSET Sources
    BY <1>4, VectorsAssumption DEF TickReselect, TypeOK
  <2>5. gmPriority'.root \in Roots
    BY <2>2 DEF Vectors
  <2>6. reported' \in [root : Roots, steps : Steps]
    BY <1>4, <2>2, <2>5 DEF TickReselect, TypeOK
  <2>. QED  BY <1>4, <2>2, <2>3, <2>4, <2>6 DEF TickReselect, TypeOK
<1>5. CASE TickKeep
  <2>1. port' \in [Ports -> PortType]
    <3>1. ASSUME NEW p \in Ports
          PROVE  Settle(port[p], p, gmPriority, masterStepsRemoved, gmPresent) \in PortType
      BY SettleType DEF TypeOK
    <3>. QED  BY <1>5, <3>1 DEF TickKeep
  <2>2. gmPriority.root \in Roots
    BY DEF TypeOK, Vectors
  <2>3. reported' \in [root : Roots, steps : Steps]
    BY <1>5, <2>2 DEF TickKeep, TypeOK
  <2>. QED  BY <1>5, <2>1, <2>3 DEF TickKeep, TypeOK
<1>6. CASE Deinit
  <2>1. \A r \in PortType : RestartedPort(r) \in PortType
    BY RestartedType
  <2>2. \A p \in Ports : RestartedPort(port[p]) \in PortType
    BY <2>1 DEF TypeOK
  <2>3. pathTrace' \in SUBSET Sources /\ newMaster' \in BOOLEAN
        /\ reported' \in [root : Roots, steps : Steps]
    BY <1>6, VectorsAssumption DEF Deinit, TypeOK
  <2>6. syncTicks' \in [Ports -> Nat] /\ \A p \in Ports : syncTicks'[p] \in SyncTicks[p]
    BY <1>6, BootIntervals DEF Deinit
  <2>4. CASE ReselectPending
    <3>1. /\ updtRolesTree
          /\ port' = [p \in Ports |-> AssignRole(RestartedPort(port[p]), p, gm', gmPriority',
                                                 masterStepsRemoved')]
      BY <1>6, <2>4 DEF Deinit
    <3>2. port' \in [Ports -> PortType]
      BY <2>2, <3>1, AssignRoleType
    <3>. QED  BY <2>3, <2>6, <3>1, <3>2, SelectionType DEF TypeOK
  <2>5. CASE ~ReselectPending
    <3>1. port' = [p \in Ports |-> RestartedPort(port[p])] /\ gm' = LastGm
          /\ gmPriority' = AllOnes /\ UNCHANGED <<gmPresent, masterStepsRemoved, grandMaster>>
      BY <1>6, <2>5 DEF Deinit
    <3>2. port' \in [Ports -> PortType]
      BY <2>2, <3>1
    <3>. QED  BY <2>3, <2>6, <3>1, <3>2, VectorTypes DEF TypeOK
  <2>. QED  BY <2>4, <2>5
<1>7. CASE UNCHANGED vars
  BY <1>7 DEF vars, TypeOK
<1>8. ASSUME NEW p \in Ports, NEW ticks \in SyncTicks[p], SetSyncInterval(p, ticks)
      PROVE  TypeOK'
  <2>1. ticks \in Nat
    BY RolesAssumption
  <2>2. /\ syncTicks' \in [Ports -> Nat]
        /\ \A q \in Ports : syncTicks'[q] \in SyncTicks[q]
    BY <1>8, <2>1 DEF SetSyncInterval, TypeOK
  <2>. QED  BY <1>8, <2>2 DEF SetSyncInterval, systemVars, TypeOK
<1>. QED  BY <1>1, <1>2, <1>3, <1>4, <1>5, <1>6, <1>7, <1>8 DEF Next, Tick

(* Every variable keeps its type, and the selection always has a result:    *)
(* whenever updtRolesTree finds a better path it finds a first best one.    *)
THEOREM TypeCorrect == Spec => []TypeOK
BY InitType, StepType, PTL DEF Spec

(***************************************************************************)
(* What a selection and a run of the announce information machine do to a  *)
(* port.                                                                   *)
(***************************************************************************)
(* The information a selection leaves alone. *)
SameInfo(s, r) ==
  /\ s.state = r.state /\ s.infoIs = r.infoIs
  /\ s.portPriority = r.portPriority /\ s.portStepsRemoved = r.portStepsRemoved

LEMMA AssignRoleEffect ==
  ASSUME NEW r \in PortType, NEW p, NEW g, NEW v, NEW steps
  PROVE  LET a == AssignRole(r, p, g, v, steps)
         IN  /\ SameInfo(a, r) /\ a.rcvd = r.rcvd
             /\ a.role = AssignedRole(r, p, g, v)
             /\ a.updtInfo = MustUpdate(r, p, g, v, steps)
             /\ ~a.reselect /\ a.selected
BY DEF AssignRole, SameInfo, PortType

(* A selected slave holds received information, and is the grandmaster port. *)
LEMMA SlaveAssigned ==
  ASSUME NEW r \in PortType, NEW p, NEW g, NEW v, NEW steps,
         AssignRole(r, p, g, v, steps).role = "SLAVE"
  PROVE  LET a == AssignRole(r, p, g, v, steps)
         IN  g = p /\ a.infoIs = "Received" /\ ~a.updtInfo
<1>1. AssignedRole(r, p, g, v) = "SLAVE"
  BY AssignRoleEffect
<1>2. r.infoIs = "Received" /\ g = p
  BY <1>1 DEF AssignedRole, PortType, InfoIs
<1>3. MustUpdate(r, p, g, v, steps) = FALSE
  BY <1>1, <1>2 DEF MustUpdate
<1>. QED  BY <1>2, <1>3, AssignRoleEffect DEF SameInfo

(* The outcomes of Settle, in the order of the machine's branches. *)
Stopped(s, r) == r.state = "DISABLED" /\ s = r
Disabled(s, r) ==
  s.state = "DISABLED" /\ s.infoIs = "Disabled" /\ s.reselect /\ s.updtInfo = r.updtInfo
Aged(s, r) ==
  s.state = "AGED" /\ s.infoIs = "Aged" /\ s.reselect /\ (s.updtInfo => r.updtInfo)
Kept(s, r) ==
  /\ r.state \in {"AGED", "CURRENT"} /\ ~(r.selected /\ r.updtInfo)
  /\ SameInfo(s, r) /\ s.reselect = r.reselect /\ s.updtInfo = r.updtInfo
Updated(s, r, p, v, steps) ==
  /\ r.state \in {"AGED", "CURRENT"} /\ r.selected /\ r.updtInfo
  /\ s.state = "CURRENT" /\ s.infoIs = "Mine" /\ ~s.updtInfo /\ s.reselect = r.reselect
  /\ s.portPriority = MasterPriority(v, p) /\ s.portStepsRemoved = steps
Superseded(s, r, p, v) ==
  /\ r.state \in {"AGED", "CURRENT"}
  /\ s.state = "CURRENT" /\ s.infoIs = "Received" /\ s.reselect /\ ~s.updtInfo
  /\ r.rcvd # NoAnnounce /\ s.portPriority = MessagePriority(r.rcvd, p)
  /\ \/ r.state = "CURRENT" /\ ~r.updtInfo /\ Better(s.portPriority, r.portPriority)
     \/ r.selected /\ r.updtInfo /\ Better(s.portPriority, MasterPriority(v, p))

LEMMA SettleOutcomes ==
  ASSUME NEW r \in PortType, NEW p \in Ports, NEW v \in Vectors, NEW steps \in Steps,
         NEW present \in BOOLEAN
  PROVE  LET s == Settle(r, p, v, steps, present)
         IN  /\ s.role = r.role
             /\ s.rcvd \in {r.rcvd, NoAnnounce}
             /\ \/ Stopped(s, r) \/ Disabled(s, r) \/ Aged(s, r) \/ Kept(s, r)
                \/ Updated(s, r, p, v, steps) \/ Superseded(s, r, p, v)
<1>. DEFINE s == Settle(r, p, v, steps, present)
<1>1. CASE ~r.able
  <2>1. CASE r.state = "DISABLED"
    BY <1>1, <2>1 DEF Settle, Disable, Stopped
  <2>2. CASE r.state # "DISABLED"
    BY <1>1, <2>2 DEF Settle, Disable, EnterDisabled, Disabled, PortType
  <2>. QED  BY <2>1, <2>2
<1>2. CASE r.able /\ r.state \in {"BEGIN", "DISABLED"}
  BY <1>2 DEF Settle, Disable, EnterDisabled, EnterAged, Aged, PortType
<1>3. CASE r.able /\ r.state \notin {"BEGIN", "DISABLED"}
  <2>. DEFINE u == UpdateIfSelected(r, p, v, steps)
              w == ReceiveIfPending(u, p)
  <2>1. r.state \in {"AGED", "CURRENT"}
    BY <1>3 DEF PortType, States
  <2>2. s = AgeIfSilent(w, p, present)
    BY <1>3 DEF Settle
  <2>3. u \in PortType /\ w \in PortType
    BY UpdateType, ReceiveType
  <2>4. u.role = r.role /\ u.rcvd = r.rcvd /\ (Kept(u, r) \/ Updated(u, r, p, v, steps))
    <3>1. CASE r.selected /\ r.updtInfo
      BY <2>1, <3>1 DEF UpdateIfSelected, Updated, PortType
    <3>2. CASE ~(r.selected /\ r.updtInfo)
      BY <2>1, <3>2 DEF UpdateIfSelected, Kept, SameInfo
    <3>. QED  BY <3>1, <3>2
  <2>5. /\ w.role = u.role /\ w.rcvd \in {u.rcvd, NoAnnounce}
        /\ \/ SameInfo(w, u) /\ w.reselect = u.reselect /\ w.updtInfo = u.updtInfo
           \/ /\ u.state = "CURRENT" /\ u.rcvd # NoAnnounce /\ ~u.updtInfo
              /\ w.state = "CURRENT" /\ w.infoIs = "Received" /\ w.reselect /\ ~w.updtInfo
              /\ w.portPriority = MessagePriority(u.rcvd, p)
              /\ Better(w.portPriority, u.portPriority)
    <3>. HIDE DEF u
    <3>. QED
      BY <2>3 DEF ReceiveIfPending, EnterSuperior, SuperiorMasterInfo, SameInfo, PortType
  <2>. HIDE DEF u, w
  <2>6. w.role = r.role /\ w.rcvd \in {r.rcvd, NoAnnounce}
    BY <2>4, <2>5
  <2>7. Kept(w, r) \/ Updated(w, r, p, v, steps) \/ Superseded(w, r, p, v)
    BY <2>4, <2>5 DEF Kept, Updated, Superseded, SameInfo
  <2>8. s = w \/ (~w.updtInfo /\ w.infoIs = "Received" /\ s = EnterAged(w))
    BY <2>2 DEF AgeIfSilent
  <2>9. CASE s = w
    BY <2>6, <2>7, <2>9
  <2>10. CASE ~w.updtInfo /\ w.infoIs = "Received" /\ s = EnterAged(w) /\ s # w
    BY <2>2, <2>3, <2>6, <2>7, <2>10
    DEF EnterAged, Aged, PortType, Kept, Updated, Superseded, SameInfo
  <2>. QED  BY <2>8, <2>9, <2>10
<1>. QED  BY <1>1, <1>2, <1>3

(* The port as the tick's selection, if there is one, leaves it. *)
Assigned(p) ==
  IF ReselectPending
    THEN AssignRole(port[p], p, gm', gmPriority', masterStepsRemoved')
    ELSE port[p]

LEMMA TickOutcome ==
  ASSUME TypeOK, TypeOK', Tick, NEW p \in Ports
  PROVE  LET r == Assigned(p)
             s == port'[p]
         IN  /\ r \in PortType
             /\ s.role = r.role
             /\ s.rcvd \in {r.rcvd, NoAnnounce}
             /\ \/ Stopped(s, r) \/ Disabled(s, r) \/ Aged(s, r) \/ Kept(s, r)
                \/ Updated(s, r, p, gmPriority', masterStepsRemoved')
                \/ Superseded(s, r, p, gmPriority')
<1>1. /\ gmPriority' \in Vectors /\ masterStepsRemoved' \in Steps /\ gmPresent' \in BOOLEAN
      /\ port[p] \in PortType
  BY DEF TypeOK
<1>2. Assigned(p) \in PortType
  BY <1>1, AssignRoleType DEF Assigned
<1>3. port'[p] = Settle(Assigned(p), p, gmPriority', masterStepsRemoved', gmPresent')
  BY DEF Tick, TickReselect, TickKeep, Assigned
<1>. QED  BY <1>1, <1>2, <1>3, SettleOutcomes

(* A restart keeps what the ports know, and leaves every machine at BEGIN. *)
LEMMA DeinitOutcome ==
  ASSUME TypeOK, Deinit, NEW p \in Ports
  PROVE  LET r == RestartedPort(port[p])
             s == port'[p]
         IN  /\ s.state = "BEGIN" /\ s.rcvd = port[p].rcvd
             /\ s.infoIs = port[p].infoIs /\ s.portPriority = port[p].portPriority
             /\ \/ ReselectPending /\ s = AssignRole(r, p, gm', gmPriority', masterStepsRemoved')
                \/ ~ReselectPending /\ s.role = "DISABLED"
<1>0. port[p] \in PortType
  BY DEF TypeOK
<1>1. RestartedPort(port[p]) \in PortType
  BY <1>0, RestartedType
<1>2. /\ RestartedPort(port[p]).state = "BEGIN" /\ RestartedPort(port[p]).role = "DISABLED"
      /\ RestartedPort(port[p]).rcvd = port[p].rcvd
      /\ RestartedPort(port[p]).infoIs = port[p].infoIs
      /\ RestartedPort(port[p]).portPriority = port[p].portPriority
  BY <1>0 DEF RestartedPort, PortType
<1>3. CASE ReselectPending
  <2>1. port'[p] = AssignRole(RestartedPort(port[p]), p, gm', gmPriority', masterStepsRemoved')
    BY <1>3 DEF Deinit
  <2>. QED  BY <1>1, <1>2, <1>3, <2>1, AssignRoleEffect DEF SameInfo
<1>4. CASE ~ReselectPending
  BY <1>2, <1>4 DEF Deinit
<1>. QED  BY <1>3, <1>4

(* Frames, capability and interval changes leave everything but two fields alone. *)
LEMMA FrameOutcome ==
  ASSUME TypeOK, NEW p \in Ports,
         \/ \E q \in Ports, m \in Announces : ReceiveAnnounce(q, m) \/ ReuseRxBuffer(q, m)
         \/ \E q \in Ports : ChangeAble(q) \/ \E ticks \in SyncTicks[q] : SetSyncInterval(q, ticks)
  PROVE  /\ SameInfo(port'[p], port[p])
         /\ port'[p].role = port[p].role /\ port'[p].reselect = port[p].reselect
         /\ port'[p].updtInfo = port[p].updtInfo /\ port'[p].selected = port[p].selected
         /\ UNCHANGED <<gm, gmPriority, masterStepsRemoved, grandMaster, newMaster, reported>>
BY DEF ReceiveAnnounce, ReuseRxBuffer, ChangeAble, SetSyncInterval, systemVars, SameInfo, TypeOK, PortType

(* The four kinds of steps the proofs below distinguish. *)
LEMMA StepCases ==
  ASSUME [Next]_vars
  PROVE  \/ \/ \E q \in Ports, m \in Announces : ReceiveAnnounce(q, m) \/ ReuseRxBuffer(q, m)
            \/ \E q \in Ports : ChangeAble(q) \/ \E ticks \in SyncTicks[q] : SetSyncInterval(q, ticks)
         \/ Tick \/ Deinit \/ UNCHANGED vars
BY DEF Next

(***************************************************************************)
(* The slave port is the one the grandmaster was selected on.  The         *)
(* invariant is inductive on its own: a role is only assigned by the       *)
(* selection that also moves gmPriority, and nothing in between gives a    *)
(* slave port other information without asking for a selection.            *)
(***************************************************************************)
LEMMA SlaveStep ==
  ASSUME TypeOK, TypeOK', SlaveFollowsGm, [Next]_vars
  PROVE  SlaveFollowsGm'
<1>. SUFFICES ASSUME NEW p \in Ports, port'[p].role = "SLAVE"
              PROVE  /\ gm' = p /\ ~grandMaster'
                     /\ port'[p].infoIs = "Received" \/ port'[p].reselect
                     /\ ~port'[p].updtInfo
  BY DEF SlaveFollowsGm
<1>t. port[p] \in PortType /\ port'[p] \in PortType
  BY DEF TypeOK
<1>g. ASSUME updtRolesTree, gm' = p  PROVE ~grandMaster'
  BY <1>g, SystemIsNoPort, Zenon DEF updtRolesTree
<1>1. CASE \/ \E q \in Ports, m \in Announces : ReceiveAnnounce(q, m) \/ ReuseRxBuffer(q, m)
           \/ \E q \in Ports : ChangeAble(q) \/ \E ticks \in SyncTicks[q] : SetSyncInterval(q, ticks)
  BY <1>1, FrameOutcome DEF SlaveFollowsGm, SameInfo
<1>2. CASE Tick
  <2>. DEFINE r == Assigned(p)
  <2>1. /\ r \in PortType /\ r.role = "SLAVE"
        /\ \/ Stopped(port'[p], r) \/ Disabled(port'[p], r) \/ Aged(port'[p], r)
           \/ Kept(port'[p], r)
           \/ Updated(port'[p], r, p, gmPriority', masterStepsRemoved')
           \/ Superseded(port'[p], r, p, gmPriority')
    BY <1>2, TickOutcome
  <2>2. gm' = p /\ ~grandMaster' /\ r.infoIs = "Received" /\ ~r.updtInfo
    <3>1. CASE ReselectPending
      <4>1. r = AssignRole(port[p], p, gm', gmPriority', masterStepsRemoved')
        BY <3>1 DEF Assigned
      <4>2. updtRolesTree
        BY <1>2, <3>1 DEF Tick, TickReselect, TickKeep
      <4>. QED  BY <1>t, <1>g, <2>1, <4>1, <4>2, SlaveAssigned
    <3>2. CASE ~ReselectPending
      <4>1. r = port[p] /\ ~port[p].reselect
        BY <3>2 DEF Assigned, ReselectPending
      <4>2. UNCHANGED <<gm, grandMaster>>
        BY <1>2, <3>2 DEF Tick, TickReselect, TickKeep
      <4>. QED  BY <2>1, <4>1, <4>2 DEF SlaveFollowsGm
    <3>. QED  BY <3>1, <3>2
  <2>. QED  BY <2>1, <2>2 DEF Stopped, Disabled, Aged, Kept, Updated, Superseded, SameInfo
<1>3. CASE Deinit
  <2>1. /\ ReselectPending
        /\ port'[p] = AssignRole(RestartedPort(port[p]), p, gm', gmPriority', masterStepsRemoved')
    BY <1>3, DeinitOutcome
  <2>2. RestartedPort(port[p]) \in PortType
    BY <1>t, RestartedType
  <2>3. updtRolesTree
    BY <1>3, <2>1 DEF Deinit
  <2>. QED  BY <1>g, <2>1, <2>2, <2>3, SlaveAssigned
<1>4. CASE UNCHANGED vars
  BY <1>4 DEF vars, SlaveFollowsGm
<1>. QED  BY <1>1, <1>2, <1>3, <1>4, StepCases

(* Whatever the order of announces, ticks, capability changes and restarts: *)
(* a slave port is the port gmPriority was selected on, and the bridge does *)
(* not take itself for the grandmaster.                                     *)
THEOREM SlaveFollowsGmInvariant == Spec => []SlaveFollowsGm
<1>1. Init => SlaveFollowsGm
  BY DEF Init, SlaveFollowsGm, BootPort
<1>2. TypeOK /\ TypeOK' /\ SlaveFollowsGm /\ [Next]_vars => SlaveFollowsGm'
  BY SlaveStep
<1>. QED  BY <1>1, <1>2, TypeCorrect, PTL DEF Spec

(***************************************************************************)
(* A grandmaster announces itself.  That no port is slave then follows     *)
(* from SlaveFollowsGm; what is left is the path trace, which announces    *)
(* rewrite, and stepsRemoved, which the selection computes.                *)
(***************************************************************************)
LEMMA GrandmasterStep ==
  ASSUME TypeOK, SlaveFollowsGm', GrandmasterAlone, [Next]_vars
  PROVE  GrandmasterAlone'
<1>. SUFFICES ASSUME gm' = System
              PROVE  grandMaster' /\ pathTrace' = {OwnSource} /\ masterStepsRemoved' = 0
  <2>1. gm' = System => \A p \in Ports : port'[p].role # "SLAVE"
    BY SystemIsNoPort DEF SlaveFollowsGm
  <2>. QED  BY <2>1 DEF GrandmasterAlone
<1>1. ASSUME NEW q \in Ports, NEW m \in Announces, ReceiveAnnounce(q, m)
      PROVE  grandMaster' /\ pathTrace' = {OwnSource} /\ masterStepsRemoved' = 0
  BY <1>1 DEF ReceiveAnnounce, TraceAfter, GrandmasterAlone
<1>2. CASE \/ \E q \in Ports, m \in Announces : ReuseRxBuffer(q, m)
           \/ \E q \in Ports : ChangeAble(q) \/ \E ticks \in SyncTicks[q] : SetSyncInterval(q, ticks)
  BY <1>2 DEF ReuseRxBuffer, ChangeAble, SetSyncInterval, systemVars, GrandmasterAlone
<1>3. ASSUME updtRolesTree  PROVE grandMaster' /\ masterStepsRemoved' = 0
  BY <1>3 DEF updtRolesTree, StepsOf
<1>4. CASE Tick
  <2>1. CASE TickReselect
    BY <1>3, <2>1 DEF TickReselect
  <2>2. CASE TickKeep
    BY <2>2 DEF TickKeep, GrandmasterAlone
  <2>. QED  BY <1>4, <2>1, <2>2 DEF Tick
<1>5. CASE Deinit
  <2>1. gm' # LastGm
    BY DEF System, LastGm
  <2>. QED  BY <1>3, <1>5, <2>1 DEF Deinit
<1>6. CASE UNCHANGED vars
  BY <1>6 DEF vars, GrandmasterAlone
<1>. QED  BY <1>1, <1>2, <1>4, <1>5, <1>6 DEF Next

(* A bridge that takes itself for the grandmaster says so consistently: its *)
(* own path trace, no steps removed, no slave port, whatever arrives.       *)
THEOREM GrandmasterAloneInvariant == Spec => []GrandmasterAlone
<1>1. Init => GrandmasterAlone
  BY DEF Init, GrandmasterAlone, System, LastGm
<1>2. TypeOK /\ SlaveFollowsGm' /\ GrandmasterAlone /\ [Next]_vars => GrandmasterAlone'
  BY GrandmasterStep
<1>. QED  BY <1>1, <1>2, TypeCorrect, SlaveFollowsGmInvariant, PTL DEF Spec

(***************************************************************************)
(* A master port defends the vector it announces.  Either the selection    *)
(* finds the stored vector outdated, and the port's machine replaces it in *)
(* the same tick, or both stay as they are.                                *)
(***************************************************************************)
LEMMA MasterStep ==
  ASSUME TypeOK, TypeOK', MasterDefendsWhatItAnnounces, [Next]_vars
  PROVE  MasterDefendsWhatItAnnounces'
<1>. SUFFICES ASSUME NEW p \in Ports, port'[p].state = "CURRENT", port'[p].infoIs = "Mine"
              PROVE  /\ port'[p].portPriority = MasterPriority(gmPriority', p)
                     /\ port'[p].portStepsRemoved = masterStepsRemoved'
  BY DEF MasterDefendsWhatItAnnounces
<1>t. port[p] \in PortType
  BY DEF TypeOK
<1>1. CASE \/ \E q \in Ports, m \in Announces : ReceiveAnnounce(q, m) \/ ReuseRxBuffer(q, m)
           \/ \E q \in Ports : ChangeAble(q) \/ \E ticks \in SyncTicks[q] : SetSyncInterval(q, ticks)
  BY <1>1, FrameOutcome DEF MasterDefendsWhatItAnnounces, SameInfo
<1>2. CASE Tick
  <2>. DEFINE r == Assigned(p)
  <2>1. Kept(port'[p], r) \/ Updated(port'[p], r, p, gmPriority', masterStepsRemoved')
    BY <1>2, TickOutcome DEF Stopped, Disabled, Aged, Superseded
  <2>2. CASE Updated(port'[p], r, p, gmPriority', masterStepsRemoved')
    BY <2>2 DEF Updated
  <2>3. CASE Kept(port'[p], r)
    <3>1. r.state = "CURRENT" /\ r.infoIs = "Mine" /\ SameInfo(port'[p], r)
          /\ ~(r.selected /\ r.updtInfo)
      BY <2>3 DEF Kept, SameInfo
    <3>2. CASE ReselectPending
      <4>1. r = AssignRole(port[p], p, gm', gmPriority', masterStepsRemoved')
        BY <3>2 DEF Assigned
      <4>2. SameInfo(r, port[p]) /\ ~MustUpdate(port[p], p, gm', gmPriority', masterStepsRemoved')
        BY <1>t, <3>1, <4>1, AssignRoleEffect
      <4>3. ~Outdated(port[p], p, gmPriority', masterStepsRemoved')
        BY <3>1, <4>2 DEF MustUpdate, SameInfo
      <4>. QED  BY <3>1, <4>2, <4>3 DEF Outdated, SameInfo
    <3>3. CASE ~ReselectPending
      <4>1. r = port[p]
        BY <3>3 DEF Assigned
      <4>2. UNCHANGED <<gmPriority, masterStepsRemoved>>
        BY <1>2, <3>3 DEF Tick, TickReselect, TickKeep
      <4>. QED  BY <3>1, <4>1, <4>2 DEF MasterDefendsWhatItAnnounces, SameInfo
    <3>. QED  BY <3>2, <3>3
  <2>. QED  BY <2>1, <2>2, <2>3
<1>3. CASE Deinit
  BY <1>3, DeinitOutcome
<1>4. CASE UNCHANGED vars
  BY <1>4 DEF vars, MasterDefendsWhatItAnnounces
<1>. QED  BY <1>1, <1>2, <1>3, <1>4, StepCases

(* What a master port compares received announces with is what its own      *)
(* announces say: gmPriority with this port's identity, and the same steps. *)
THEOREM MasterDefendsInvariant == Spec => []MasterDefendsWhatItAnnounces
<1>1. Init => MasterDefendsWhatItAnnounces
  BY DEF Init, MasterDefendsWhatItAnnounces, BootPort
<1>2. /\ TypeOK /\ TypeOK' /\ MasterDefendsWhatItAnnounces /\ [Next]_vars
      => MasterDefendsWhatItAnnounces'
  BY MasterStep
<1>. QED  BY <1>1, <1>2, TypeCorrect, PTL DEF Spec

(***************************************************************************)
(* The selection takes the best path.                                      *)
(***************************************************************************)
(* No unexpired path of another clock is better than the selected one. *)
LEMMA SelectionIsBest ==
  ASSUME TypeOK, NEW p \in Ports, gmPathPriority(p).root \notin SelfRoots
  PROVE  ~Better(gmPathPriority(p), VectorOf(SelectGm))
<1>. DEFINE path == gmPathPriority(p)
<1>1. path \in Vectors /\ SystemPriority \in Vectors
  BY PathType, VectorTypes
<1>2. CASE Candidates = {}
  <2>1. SelectGm = System
    BY <1>2 DEF SelectGm
  <2>. QED  BY <1>2, <2>1 DEF Candidates, VectorOf
<1>3. CASE Candidates # {}
  <2>. DEFINE best == gmPathPriority(SelectGm)
  <2>1. SelectGm \in Ports /\ FirstOfBest(SelectGm)
    BY <1>3, SelectGmChosen
  <2>2. best \in Vectors /\ VectorOf(SelectGm) = best
    BY <2>1, PathType, SystemIsNoPort DEF VectorOf
  <2>3. CASE p \in Candidates
    <3>1. Better(best, path) \/ best = path
      BY <2>1, <2>3 DEF FirstOfBest
    <3>. HIDE DEF path, best
    <3>. QED  BY <1>1, <2>2, <3>1, BetterTransitive, BetterIrreflexive DEF path
  <2>4. CASE p \notin Candidates
    <3>1. Better(best, SystemPriority) /\ ~Better(path, SystemPriority)
      BY <2>1, <2>4 DEF FirstOfBest, Candidates
    <3>. HIDE DEF path, best
    <3>. QED  BY <1>1, <2>2, <3>1, BetterTransitive DEF path
  <2>. QED  BY <2>3, <2>4
<1>. QED  BY <1>2, <1>3

(***************************************************************************)
(* A port whose receipt timeouts are configured and whose sync interval is *)
(* never 0 ticks: neither timeout expires, as the counters they are        *)
(* compared with stay zero.                                                *)
(***************************************************************************)
Timed ==
  {p \in Ports :
     /\ AnnounceReceiptTimeout[p] > 0 /\ SyncReceiptTimeout[p] > 0
     /\ 0 \notin SyncTicks[p]}

LEMMA TimedIsNeverSilent ==
  ASSUME NEW p \in Timed, NEW ticks \in SyncTicks[p]
  PROVE  ~announceTimeout(p) /\ ~syncTimeout(p, ticks)
<1>1. AnnounceReceiptTimeout[p] \in Nat \ {0} /\ SyncReceiptTimeout[p] \in Nat \ {0}
  BY RolesAssumption DEF Timed
<1>2. ticks \in Nat \ {0}
  BY RolesAssumption DEF Timed
<1>3. \A m, n \in Nat \ {0} : ~(0 >= m * n * 2)
  BY SMT
<1>4. ~syncTimeout(p, ticks)
  BY <1>1, <1>2, <1>3, Zenon DEF syncTimeout, syncTimeoutCounter
<1>5. ~announceTimeout(p)
  BY <1>1, SMT DEF announceTimeout, announceTimeoutCounter
<1>. QED  BY <1>4, <1>5

LEMMA BestPathStep ==
  ASSUME TypeOK, TypeOK', BestPathSelected, [Next]_vars
  PROVE  BestPathSelected'
<1>. SUFFICES ASSUME ~ReselectPending', NEW p \in Ports,
                     port'[p].state = "CURRENT", port'[p].infoIs = "Received",
                     AnnounceReceiptTimeout[p] > 0, SyncReceiptTimeout[p] > 0,
                     0 \notin SyncTicks[p],
                     port'[p].portPriority.root \notin SelfRoots
              PROVE  ~Better(OneHopFurther(port'[p].portPriority), gmPriority')
  BY DEF BestPathSelected
<1>t. port[p] \in PortType /\ ~port'[p].reselect
  BY DEF TypeOK, ReselectPending
<1>1. CASE \/ \E q \in Ports, m \in Announces : ReceiveAnnounce(q, m) \/ ReuseRxBuffer(q, m)
           \/ \E q \in Ports : ChangeAble(q) \/ \E ticks \in SyncTicks[q] : SetSyncInterval(q, ticks)
  <2>1. ~ReselectPending
    BY <1>1, FrameOutcome DEF ReselectPending
  <2>. QED  BY <1>1, <2>1, FrameOutcome DEF BestPathSelected, SameInfo
<1>2. CASE Tick
  <2>. DEFINE r == Assigned(p)
  <2>1. Kept(port'[p], r)
    BY <1>2, <1>t, TickOutcome DEF Stopped, Disabled, Aged, Updated, Superseded
  <2>2. CASE ReselectPending
    <3>1. r = AssignRole(port[p], p, gm', gmPriority', masterStepsRemoved')
      BY <2>2 DEF Assigned
    <3>2. port'[p].portPriority = port[p].portPriority
      BY <1>t, <2>1, <3>1, AssignRoleEffect DEF Kept, SameInfo
    <3>3. gmPathPriority(p) = OneHopFurther(port[p].portPriority)
      <4>1. p \in Timed /\ syncTicks'[p] \in SyncTicks[p]
        BY DEF Timed, TypeOK
      <4>. QED  BY <4>1, TimedIsNeverSilent DEF gmPathPriority
    <3>4. gmPathPriority(p).root = port[p].portPriority.root
      BY <1>t, <3>3 DEF OneHopFurther, PortType, Vectors
    <3>5. gmPriority' = VectorOf(SelectGm)
      BY <1>2, <2>2 DEF Tick, TickReselect, TickKeep, updtRolesTree
    <3>. QED  BY <3>2, <3>3, <3>4, <3>5, SelectionIsBest
  <2>3. CASE ~ReselectPending
    <3>1. r = port[p]
      BY <2>3 DEF Assigned
    <3>2. gmPriority' = gmPriority
      BY <1>2, <2>3 DEF Tick, TickReselect, TickKeep
    <3>. QED  BY <2>1, <2>3, <3>1, <3>2 DEF BestPathSelected, Kept, SameInfo
  <2>. QED  BY <2>2, <2>3
<1>3. CASE Deinit
  BY <1>3, DeinitOutcome
<1>4. CASE UNCHANGED vars
  BY <1>4 DEF vars, BestPathSelected, ReselectPending
<1>. QED  BY <1>1, <1>2, <1>3, <1>4, StepCases

(* Unless a selection is pending, no port with running timeouts holds       *)
(* information of another clock that is better than the grandmaster.        *)
THEOREM BestPathInvariant == Spec => []BestPathSelected
<1>1. Init => BestPathSelected
  BY DEF Init, BestPathSelected, BootPort
<1>2. TypeOK /\ TypeOK' /\ BestPathSelected /\ [Next]_vars => BestPathSelected'
  BY BestPathStep
<1>. QED  BY <1>1, <1>2, TypeCorrect, PTL DEF Spec

(***************************************************************************)
(* Grandmaster changes are reported.                                       *)
(***************************************************************************)
(* newMaster, set by a restart, or the comparison with lastGmPriority makes *)
(* the tick of a selection report it: no change of grandmaster is missed.   *)
THEOREM GmChangeReportedInvariant == Spec => []GmChangeReported
<1>1. Init => GmChangeReported
  BY DEF Init, GmChangeReported
<1>2. GmChangeReported /\ [Next]_vars => GmChangeReported'
  <2>. SUFFICES ASSUME GmChangeReported, [Next]_vars PROVE GmChangeReported'
    OBVIOUS
  <2>1. CASE \/ \E q \in Ports, m \in Announces : ReceiveAnnounce(q, m) \/ ReuseRxBuffer(q, m)
             \/ \E q \in Ports : ChangeAble(q) \/ \E ticks \in SyncTicks[q] : SetSyncInterval(q, ticks)
    BY <2>1 DEF ReceiveAnnounce, ReuseRxBuffer, ChangeAble, SetSyncInterval, systemVars, GmChangeReported
  <2>2. CASE TickReselect
    BY <2>2 DEF TickReselect, GmChanged, GmChangeReported
  <2>3. CASE TickKeep
    BY <2>3 DEF TickKeep, GmChangeReported
  <2>4. CASE Deinit
    BY <2>4 DEF Deinit, GmChangeReported
  <2>5. CASE UNCHANGED vars
    BY <2>5 DEF vars, GmChangeReported
  <2>. QED  BY <2>1, <2>2, <2>3, <2>4, <2>5, StepCases DEF Tick
<1>. QED  BY <1>1, <1>2, PTL DEF Spec

(***************************************************************************)
(* What the state of a port's machine says about its information.  BEGIN,  *)
(* where a restart leaves a port, says nothing.                            *)
(***************************************************************************)
StateMatchesInfo ==
  \A p \in Ports :
    /\ port[p].state = "DISABLED" => port[p].infoIs = "Disabled"
    /\ port[p].state = "AGED" => port[p].infoIs = "Aged"
    /\ port[p].state = "CURRENT" => port[p].infoIs \in {"Mine", "Received"}
    /\ port[p].state = "CURRENT" /\ port[p].infoIs = "Received" => ~port[p].updtInfo

LEMMA StateMatchesInfoStep ==
  ASSUME TypeOK, TypeOK', StateMatchesInfo, [Next]_vars
  PROVE  StateMatchesInfo'
<1>. SUFFICES ASSUME NEW p \in Ports
              PROVE  LET s == port'[p]
                     IN  /\ s.state = "DISABLED" => s.infoIs = "Disabled"
                         /\ s.state = "AGED" => s.infoIs = "Aged"
                         /\ s.state = "CURRENT" => s.infoIs \in {"Mine", "Received"}
                         /\ s.state = "CURRENT" /\ s.infoIs = "Received" => ~s.updtInfo
  BY DEF StateMatchesInfo
<1>t. port[p] \in PortType
  BY DEF TypeOK
<1>1. CASE \/ \E q \in Ports, m \in Announces : ReceiveAnnounce(q, m) \/ ReuseRxBuffer(q, m)
           \/ \E q \in Ports : ChangeAble(q) \/ \E ticks \in SyncTicks[q] : SetSyncInterval(q, ticks)
  BY <1>1, FrameOutcome DEF StateMatchesInfo, SameInfo
<1>2. CASE Tick
  <2>. DEFINE r == Assigned(p)
  <2>1. SameInfo(r, port[p]) /\ (r = port[p] \/ r.selected)
    BY <1>t, AssignRoleEffect DEF Assigned, SameInfo
  <2>. HIDE DEF r
  <2>2. \/ Stopped(port'[p], r) \/ Disabled(port'[p], r) \/ Aged(port'[p], r)
        \/ Kept(port'[p], r)
        \/ Updated(port'[p], r, p, gmPriority', masterStepsRemoved')
        \/ Superseded(port'[p], r, p, gmPriority')
    BY <1>2, TickOutcome DEF r
  <2>. QED
    BY <2>1, <2>2
    DEF StateMatchesInfo, Stopped, Disabled, Aged, Kept, Updated, Superseded, SameInfo
<1>3. CASE Deinit
  BY <1>3, DeinitOutcome
<1>4. CASE UNCHANGED vars
  BY <1>4 DEF vars, StateMatchesInfo
<1>. QED  BY <1>1, <1>2, <1>3, <1>4, StepCases

LEMMA StateMatchesInfoInvariant == Spec => []StateMatchesInfo
<1>1. Init => StateMatchesInfo
  BY DEF Init, StateMatchesInfo, BootPort
<1>2. TypeOK /\ TypeOK' /\ StateMatchesInfo /\ [Next]_vars => StateMatchesInfo'
  BY StateMatchesInfoStep
<1>. QED  BY <1>1, <1>2, TypeCorrect, PTL DEF Spec

(***************************************************************************)
(* Received information only improves.                                     *)
(***************************************************************************)
LEMMA BetterAsymmetric ==
  ASSUME NEW a \in Vectors, NEW b \in Vectors, Better(a, b)
  PROVE  ~Better(b, a)
BY BetterTransitive, BetterIrreflexive

(* A port that the selection makes master over what it received announces   *)
(* something better, so what supersedes the announced vector also           *)
(* supersedes the received one.                                             *)
LEMMA ReceivedStep ==
  ASSUME TypeOK, TypeOK', StateMatchesInfo, [Next]_vars, NEW p \in Ports,
         port[p].infoIs = "Received", port'[p].infoIs = "Received"
  PROVE  ~Better(port[p].portPriority, port'[p].portPriority)
<1>. DEFINE old == port[p].portPriority
            new == port'[p].portPriority
<1>t. port[p] \in PortType /\ old \in Vectors /\ new \in Vectors
  BY DEF TypeOK, PortType
<1>s. ASSUME new = old  PROVE ~Better(old, new)
  BY <1>t, <1>s, BetterIrreflexive
<1>1. CASE \/ \E q \in Ports, m \in Announces : ReceiveAnnounce(q, m) \/ ReuseRxBuffer(q, m)
           \/ \E q \in Ports : ChangeAble(q) \/ \E ticks \in SyncTicks[q] : SetSyncInterval(q, ticks)
  BY <1>1, <1>s, FrameOutcome DEF SameInfo
<1>2. CASE Tick
  <2>. DEFINE r == Assigned(p)
              announced == MasterPriority(gmPriority', p)
  <2>1. SameInfo(r, port[p])
    BY <1>t, AssignRoleEffect DEF Assigned, SameInfo
  <2>2. announced \in Vectors
    BY VectorTypes DEF TypeOK
  <2>3. \/ Stopped(port'[p], r) \/ Kept(port'[p], r)
        \/ Superseded(port'[p], r, p, gmPriority')
    BY <1>2, TickOutcome DEF Disabled, Aged, Updated
  <2>4. CASE Stopped(port'[p], r) \/ Kept(port'[p], r)
    BY <1>s, <2>1, <2>4 DEF Stopped, Kept, SameInfo
  <2>5. CASE Superseded(port'[p], r, p, gmPriority') /\ Better(new, r.portPriority)
    BY <1>t, <2>1, <2>5, BetterAsymmetric DEF SameInfo
  <2>6. CASE /\ Superseded(port'[p], r, p, gmPriority')
             /\ r.selected /\ r.updtInfo /\ Better(new, announced)
    <3>1. r.state \in {"AGED", "CURRENT"} /\ r.updtInfo
      BY <2>6 DEF Superseded
    <3>2. port[p].state = "CURRENT" /\ ~port[p].updtInfo
      BY <2>1, <3>1 DEF StateMatchesInfo, SameInfo
    <3>3. ReselectPending /\ MustUpdate(port[p], p, gm', gmPriority', masterStepsRemoved')
      BY <1>t, <3>1, <3>2, AssignRoleEffect DEF Assigned
    <3>4. AssignedRole(port[p], p, gm', gmPriority') = "MASTER"
      BY <3>3 DEF MustUpdate
    <3>5. Better(announced, old)
      BY <3>4 DEF AssignedRole
    <3>. HIDE DEF announced
    <3>6. Better(new, old)
      BY <1>t, <2>2, <2>6, <3>5, BetterTransitive
    <3>. QED  BY <1>t, <3>6, BetterAsymmetric
  <2>7. QED  BY <2>3, <2>4, <2>5, <2>6 DEF Superseded
<1>3. CASE Deinit
  BY <1>3, <1>s, DeinitOutcome
<1>4. CASE UNCHANGED vars
  BY <1>4, <1>s DEF vars
<1>. QED  BY <1>1, <1>2, <1>3, <1>4, StepCases

(* Between two announces a port holds as received, the vector only gets     *)
(* better: worse information has to wait until the port aged, was disabled  *)
(* or became master.                                                        *)
THEOREM ReceivedNeverWorsensProperty == Spec => ReceivedNeverWorsens
<1>. DEFINE A == \A p \in Ports :
                   port[p].infoIs = "Received" /\ port'[p].infoIs = "Received" =>
                     ~Better(port[p].portPriority, port'[p].portPriority)
<1>1. TypeOK /\ TypeOK' /\ StateMatchesInfo /\ [Next]_vars => [A]_vars
  BY ReceivedStep
<1>. QED
  BY <1>1, TypeCorrect, StateMatchesInfoInvariant, PTL DEF Spec, ReceivedNeverWorsens

(***************************************************************************)
(* What a port holds was qualified when it arrived, if the driver leaves   *)
(* the frame alone until the tick reads it.                                *)
(***************************************************************************)
PendingQualified ==
  \A p \in Ports : port[p].rcvd # NoAnnounce => Qualified(port[p].rcvd)

LEMMA PendingQualifiedStep ==
  ASSUME ~RxBufferReused, TypeOK, TypeOK', PendingQualified, [Next]_vars
  PROVE  PendingQualified'
<1>. SUFFICES ASSUME NEW p \in Ports, port'[p].rcvd # NoAnnounce
              PROVE  Qualified(port'[p].rcvd)
  BY DEF PendingQualified, Qualified
<1>t. port[p] \in PortType
  BY DEF TypeOK
<1>1. ASSUME NEW q \in Ports, NEW m \in Announces, ReceiveAnnounce(q, m)
      PROVE  Qualified(port'[p].rcvd)
  <2>1. port'[p].rcvd = port[p].rcvd \/ (port'[p].rcvd = m /\ Qualified(m))
    BY <1>1, <1>t DEF ReceiveAnnounce, TypeOK, PortType
  <2>. QED  BY <2>1 DEF PendingQualified
<1>2. ASSUME NEW q \in Ports, ChangeAble(q)
      PROVE  Qualified(port'[p].rcvd)
  BY <1>2, <1>t DEF ChangeAble, PendingQualified, TypeOK, PortType
<1>3. CASE Tick
  <2>1. Assigned(p).rcvd = port[p].rcvd
    BY <1>t, AssignRoleEffect DEF Assigned
  <2>2. port'[p].rcvd = port[p].rcvd
    BY <1>3, <2>1, TickOutcome
  <2>. QED  BY <2>2 DEF PendingQualified
<1>4. CASE Deinit
  BY <1>4, DeinitOutcome DEF PendingQualified
<1>5. CASE UNCHANGED vars
  BY <1>5 DEF vars, PendingQualified
<1>6. ASSUME NEW q \in Ports, NEW ticks \in SyncTicks[q], SetSyncInterval(q, ticks)
      PROVE  Qualified(port'[p].rcvd)
  BY <1>6 DEF SetSyncInterval, PendingQualified
<1>. QED  BY <1>1, <1>2, <1>3, <1>4, <1>5, <1>6 DEF Next, ReuseRxBuffer

LEMMA ReceivedWasQualifiedStep ==
  ASSUME TypeOK, TypeOK', PendingQualified, StateMatchesInfo, ReceivedWasQualified,
         [Next]_vars
  PROVE  ReceivedWasQualified'
<1>. SUFFICES ASSUME NEW p \in Ports,
                     port'[p].state = "CURRENT", port'[p].infoIs = "Received"
              PROVE  /\ port'[p].portPriority.source # OwnSource
                     /\ port'[p].portPriority.steps <= MaxQualifiedSteps
                     /\ port'[p].portPriority.portNumber = p + 1
  BY DEF ReceivedWasQualified
<1>t. port[p] \in PortType
  BY DEF TypeOK
<1>1. CASE \/ \E q \in Ports, m \in Announces : ReceiveAnnounce(q, m) \/ ReuseRxBuffer(q, m)
           \/ \E q \in Ports : ChangeAble(q) \/ \E ticks \in SyncTicks[q] : SetSyncInterval(q, ticks)
  BY <1>1, FrameOutcome DEF ReceivedWasQualified, SameInfo
<1>2. CASE Tick
  <2>. DEFINE r == Assigned(p)
  <2>1. SameInfo(r, port[p]) /\ r.rcvd = port[p].rcvd
    BY <1>t, AssignRoleEffect DEF Assigned, SameInfo
  <2>. HIDE DEF r
  <2>2. Kept(port'[p], r) \/ Superseded(port'[p], r, p, gmPriority')
    BY <1>2, TickOutcome DEF r, Stopped, Disabled, Aged, Updated
  <2>3. CASE Kept(port'[p], r)
    BY <2>1, <2>3 DEF Kept, SameInfo, ReceivedWasQualified
  <2>4. CASE Superseded(port'[p], r, p, gmPriority')
    <3>1. /\ port'[p].portPriority = MessagePriority(port[p].rcvd, p)
          /\ Qualified(port[p].rcvd)
      BY <2>1, <2>4 DEF Superseded, PendingQualified
    <3>. QED  BY <3>1 DEF MessagePriority, Qualified
  <2>. QED  BY <2>2, <2>3, <2>4
<1>3. CASE Deinit
  BY <1>3, DeinitOutcome
<1>4. CASE UNCHANGED vars
  BY <1>4 DEF vars, ReceivedWasQualified
<1>. QED  BY <1>1, <1>2, <1>3, <1>4, StepCases

(* An announce is checked when it arrives and read at the next tick: as     *)
(* long as its buffer is not refilled in between, a port only ever holds    *)
(* information that qualified.                                              *)
THEOREM ReceivedWasQualifiedInvariant ==
  ASSUME ~RxBufferReused
  PROVE  Spec => []ReceivedWasQualified
<1>1. Init => PendingQualified /\ ReceivedWasQualified
  BY DEF Init, PendingQualified, ReceivedWasQualified, BootPort
<1>2. TypeOK /\ TypeOK' /\ PendingQualified /\ [Next]_vars => PendingQualified'
  BY PendingQualifiedStep
<1>3. /\ TypeOK /\ TypeOK' /\ PendingQualified /\ StateMatchesInfo /\ ReceivedWasQualified
      /\ [Next]_vars
      => ReceivedWasQualified'
  BY ReceivedWasQualifiedStep
<1>. QED
  BY <1>1, <1>2, <1>3, TypeCorrect, StateMatchesInfoInvariant, PTL DEF Spec

(***************************************************************************)
(* A port without a receipt timeout is not followed.                       *)
(***************************************************************************)
LEMMA AllOnesIsNotBetter == ~Better(AllOnes, SystemPriority)
<1>1. SystemRoot \in Nat /\ MaxRoot \in Nat /\ SystemRoot < MaxRoot
  BY VectorsAssumption DEF Roots
<1>. QED  BY <1>1, SMT DEF Better, AllOnes, SystemPriority

(* The timeout counters never leave zero, so a timeout of zero makes the    *)
(* port's path all ones, which is never better than this system.            *)
THEOREM UnconfiguredInvariant == Spec => []UnconfiguredNotFollowed
<1>1. LastGm \notin Ports
  BY VectorsAssumption DEF LastGm, Ports
<1>2. Init => UnconfiguredNotFollowed
  BY <1>1 DEF Init, UnconfiguredNotFollowed
<1>3. TypeOK /\ UnconfiguredNotFollowed /\ [Next]_vars => UnconfiguredNotFollowed'
  <2>. SUFFICES ASSUME TypeOK, UnconfiguredNotFollowed, [Next]_vars,
                       NEW p \in Ports, AnnounceReceiptTimeout[p] = 0
                PROVE  gm' # p
    BY DEF UnconfiguredNotFollowed
  <2>1. ASSUME updtRolesTree  PROVE gm' # p
    <3>1. gmPathPriority(p) = AllOnes
      BY DEF gmPathPriority, announceTimeout, announceTimeoutCounter
    <3>2. p \notin Candidates
      BY <3>1, AllOnesIsNotBetter DEF Candidates
    <3>3. CASE Candidates = {}
      BY <2>1, <3>3, SystemIsNoPort DEF updtRolesTree, SelectGm
    <3>4. CASE Candidates # {}
      BY <2>1, <3>2, <3>4, SelectGmChosen DEF updtRolesTree, FirstOfBest
    <3>. QED  BY <3>3, <3>4
  <2>2. UNCHANGED gm => gm' # p
    BY DEF UnconfiguredNotFollowed
  <2>3. CASE Tick
    BY <2>1, <2>2, <2>3 DEF Tick, TickReselect, TickKeep
  <2>4. CASE Deinit
    BY <1>1, <2>1, <2>4 DEF Deinit
  <2>5. CASE \/ \E q \in Ports, m \in Announces : ReceiveAnnounce(q, m) \/ ReuseRxBuffer(q, m)
             \/ \E q \in Ports : ChangeAble(q) \/ \E ticks \in SyncTicks[q] : SetSyncInterval(q, ticks)
    BY <2>2, <2>5 DEF ReceiveAnnounce, ReuseRxBuffer, ChangeAble, SetSyncInterval, systemVars
  <2>6. CASE UNCHANGED vars
    BY <2>2, <2>6 DEF vars
  <2>. QED  BY <2>3, <2>4, <2>5, <2>6, StepCases
<1>. QED  BY <1>2, <1>3, TypeCorrect, PTL DEF Spec

(***************************************************************************)
(* What a port that never times out knows can only be superseded, and what *)
(* it announces stays a candidate of the selection.                        *)
(***************************************************************************)
(* A port that holds information as current goes on doing so. *)
LEMMA TimedStaysCurrent ==
  ASSUME TypeOK,
         NEW r \in PortType, NEW p \in Timed, NEW v \in Vectors, NEW steps \in Steps,
         NEW present \in BOOLEAN, r.able, r.state = "CURRENT"
  PROVE  Settle(r, p, v, steps, present).state = "CURRENT"
<1>. DEFINE u == UpdateIfSelected(r, p, v, steps)
            w == ReceiveIfPending(u, p)
<1>0. p \in Ports
  BY DEF Timed
<1>1. Settle(r, p, v, steps, present) = AgeIfSilent(w, p, present)
  BY DEF Settle
<1>2. u.state = "CURRENT"
  BY DEF UpdateIfSelected, PortType
<1>3. u \in PortType
  BY <1>0, UpdateType
<1>. HIDE DEF u
<1>4. w.state = "CURRENT"
  BY <1>2, <1>3 DEF ReceiveIfPending, EnterSuperior, PortType
<1>. HIDE DEF w
<1>5. syncTicks[p] \in SyncTicks[p]
  BY <1>0 DEF TypeOK
<1>. QED  BY <1>1, <1>4, <1>5, TimedIsNeverSilent DEF AgeIfSilent

(* An able port with its timeouts configured gives up what it received only *)
(* for something better, heard or announced, and never ages: with receipt   *)
(* timeouts configured (gptp_sw_init, from port_config) and sync intervals  *)
(* of at least a tick, a grandmaster that falls silent is kept for any      *)
(* number of ticks.                                                         *)
OnlyImproves ==
  [][\A p \in Timed :
       port[p].able /\ port[p].state = "CURRENT" /\ port[p].infoIs = "Received" =>
         /\ port'[p].infoIs \in {"Received", "Mine"}
         /\ \/ port'[p].portPriority = port[p].portPriority
            \/ Better(port'[p].portPriority, port[p].portPriority)]_vars

LEMMA ImprovesStep ==
  ASSUME TypeOK, TypeOK', StateMatchesInfo, [Next]_vars, NEW p \in Timed,
         port[p].able, port[p].state = "CURRENT", port[p].infoIs = "Received"
  PROVE  /\ port'[p].infoIs \in {"Received", "Mine"}
         /\ \/ port'[p].portPriority = port[p].portPriority
            \/ Better(port'[p].portPriority, port[p].portPriority)
<1>. DEFINE old == port[p].portPriority
            new == port'[p].portPriority
<1>t. p \in Ports /\ port[p] \in PortType /\ old \in Vectors /\ new \in Vectors
  BY DEF TypeOK, PortType, Timed
<1>1. CASE \/ \E q \in Ports, m \in Announces : ReceiveAnnounce(q, m) \/ ReuseRxBuffer(q, m)
           \/ \E q \in Ports : ChangeAble(q) \/ \E ticks \in SyncTicks[q] : SetSyncInterval(q, ticks)
  BY <1>1, <1>t, FrameOutcome DEF SameInfo
<1>2. CASE Tick
  <2>. DEFINE r == Assigned(p)
              announced == MasterPriority(gmPriority', p)
  <2>1. SameInfo(r, port[p]) /\ r.able = port[p].able
    BY <1>t, AssignRoleEffect DEF Assigned, SameInfo, AssignRole, PortType
  <2>2. announced \in Vectors
    BY <1>t, VectorTypes DEF TypeOK
  <2>3. port'[p].state = "CURRENT"
    <3>1. /\ r \in PortType
          /\ port'[p] = Settle(r, p, gmPriority', masterStepsRemoved', gmPresent')
          /\ gmPriority' \in Vectors /\ masterStepsRemoved' \in Steps /\ gmPresent' \in BOOLEAN
      BY <1>2, <1>t, TickOutcome DEF Tick, TickReselect, TickKeep, Assigned, TypeOK
    <3>2. r.able /\ r.state = "CURRENT"
      BY <2>1 DEF SameInfo
    <3>. HIDE DEF r
    <3>. QED  BY <3>1, <3>2, TimedStaysCurrent
  <2>4. \/ Kept(port'[p], r)
        \/ Updated(port'[p], r, p, gmPriority', masterStepsRemoved')
        \/ Superseded(port'[p], r, p, gmPriority')
    BY <1>2, <1>t, <2>1, <2>3, TickOutcome DEF Stopped, Disabled, Aged, SameInfo
  <2>5. r.updtInfo => Better(announced, old)
    <3>1. SUFFICES ASSUME r.updtInfo  PROVE Better(announced, old)
      OBVIOUS
    <3>2. ~port[p].updtInfo
      BY <1>t DEF StateMatchesInfo
    <3>3. ReselectPending /\ MustUpdate(port[p], p, gm', gmPriority', masterStepsRemoved')
      BY <1>t, <3>1, <3>2, AssignRoleEffect DEF Assigned
    <3>4. AssignedRole(port[p], p, gm', gmPriority') = "MASTER"
      BY <3>3 DEF MustUpdate
    <3>. QED  BY <3>4 DEF AssignedRole
  <2>. HIDE DEF r, announced
  <2>6. CASE Kept(port'[p], r)
    BY <2>1, <2>6 DEF Kept, SameInfo
  <2>7. CASE Updated(port'[p], r, p, gmPriority', masterStepsRemoved')
    BY <2>5, <2>7 DEF Updated, announced
  <2>8. CASE Superseded(port'[p], r, p, gmPriority')
    <3>1. Better(new, old) \/ (r.updtInfo /\ Better(new, announced))
      BY <2>1, <2>8 DEF Superseded, SameInfo, announced
    <3>2. Better(new, old)
      BY <1>t, <2>2, <2>5, <3>1, BetterTransitive
    <3>. QED  BY <2>8, <3>2 DEF Superseded
  <2>. QED  BY <2>4, <2>6, <2>7, <2>8
<1>3. CASE Deinit
  BY <1>3, <1>t, DeinitOutcome
<1>4. CASE UNCHANGED vars
  BY <1>4 DEF vars
<1>. QED  BY <1>1, <1>2, <1>3, <1>4, StepCases

THEOREM OnlyImprovesProperty == Spec => OnlyImproves
<1>. DEFINE A == \A p \in Timed :
                   port[p].able /\ port[p].state = "CURRENT" /\ port[p].infoIs = "Received" =>
                     /\ port'[p].infoIs \in {"Received", "Mine"}
                     /\ \/ port'[p].portPriority = port[p].portPriority
                        \/ Better(port'[p].portPriority, port[p].portPriority)
<1>1. TypeOK /\ TypeOK' /\ StateMatchesInfo /\ [Next]_vars => [A]_vars
  BY ImprovesStep
<1>. QED
  BY <1>1, TypeCorrect, StateMatchesInfoInvariant, PTL DEF Spec, OnlyImproves

(* Port p announces, as master, another clock that is better than this one. *)
AnnouncesBetter(p) ==
  /\ port[p].infoIs = "Mine"
  /\ port[p].portPriority.root < SystemRoot /\ port[p].portPriority.root \notin SelfRoots

LEMMA SelectsWhatItAnnounces ==
  ASSUME TypeOK, TypeOK', NEW p \in Timed, AnnouncesBetter(p)
  PROVE  SelectGm # System
<1>1. p \in Ports /\ port[p].portPriority \in Vectors
  BY DEF Timed, TypeOK, PortType
<1>2. gmPathPriority(p) = OneHopFurther(port[p].portPriority)
  <2>1. syncTicks'[p] \in SyncTicks[p]
    BY <1>1 DEF TypeOK
  <2>. QED  BY <2>1, TimedIsNeverSilent DEF gmPathPriority
<1>3. gmPathPriority(p).root = port[p].portPriority.root
  BY <1>1, <1>2 DEF OneHopFurther, Vectors
<1>4. Better(gmPathPriority(p), SystemPriority)
  BY <1>3 DEF AnnouncesBetter, Better, SystemPriority
<1>5. p \in Candidates
  BY <1>1, <1>3, <1>4 DEF Candidates, AnnouncesBetter
<1>. QED  BY <1>5, SelectGmChosen, SystemIsNoPort

GmAnnouncesItself ==
  gm = System =>
    /\ gmPriority.root = SystemRoot
    /\ \A p \in Timed : ~AnnouncesBetter(p)

LEMMA GmAnnouncesItselfStep ==
  ASSUME TypeOK, TypeOK', GmAnnouncesItself, [Next]_vars
  PROVE  GmAnnouncesItself'
<1>. SUFFICES ASSUME gm' = System
              PROVE  /\ gmPriority'.root = SystemRoot
                     /\ \A p \in Timed : ~AnnouncesBetter(p)'
  BY DEF GmAnnouncesItself
<1>1. ASSUME updtRolesTree
      PROVE  gmPriority'.root = SystemRoot /\ \A p \in Timed : ~AnnouncesBetter(p)
  <2>1. SelectGm = System /\ gmPriority' = SystemPriority
    BY <1>1 DEF updtRolesTree, VectorOf
  <2>. QED  BY <2>1, SelectsWhatItAnnounces DEF SystemPriority
<1>2. CASE \/ \E q \in Ports, m \in Announces : ReceiveAnnounce(q, m) \/ ReuseRxBuffer(q, m)
           \/ \E q \in Ports : ChangeAble(q) \/ \E ticks \in SyncTicks[q] : SetSyncInterval(q, ticks)
  <2>1. gm = System /\ UNCHANGED gmPriority /\ \A p \in Ports : SameInfo(port'[p], port[p])
    BY <1>2, FrameOutcome, VectorsAssumption DEF Ports
  <2>. QED  BY <2>1 DEF GmAnnouncesItself, AnnouncesBetter, SameInfo, Timed
<1>3. CASE Tick
  <2>1. gmPriority'.root = SystemRoot /\ \A p \in Timed : ~AnnouncesBetter(p)
    BY <1>1, <1>3 DEF Tick, TickReselect, TickKeep, GmAnnouncesItself
  <2>2. ASSUME NEW p \in Timed  PROVE ~AnnouncesBetter(p)'
    <3>. DEFINE r == Assigned(p)
    <3>1. p \in Ports /\ port[p] \in PortType
      BY DEF Timed, TypeOK
    <3>2. SameInfo(r, port[p])
      BY <3>1, AssignRoleEffect DEF Assigned, SameInfo
    <3>3. \/ Stopped(port'[p], r) \/ Disabled(port'[p], r) \/ Aged(port'[p], r)
          \/ Kept(port'[p], r)
          \/ Updated(port'[p], r, p, gmPriority', masterStepsRemoved')
          \/ Superseded(port'[p], r, p, gmPriority')
      BY <1>3, <3>1, TickOutcome
    <3>. HIDE DEF r
    <3>4. CASE Stopped(port'[p], r) \/ Kept(port'[p], r)
      BY <2>1, <3>2, <3>4 DEF Stopped, Kept, SameInfo, AnnouncesBetter
    <3>5. CASE Updated(port'[p], r, p, gmPriority', masterStepsRemoved')
      <4>1. port'[p].portPriority.root = SystemRoot
        BY <2>1, <3>5 DEF Updated, MasterPriority, TypeOK, Vectors
      <4>. QED  BY <4>1, VectorsAssumption DEF AnnouncesBetter
    <3>6. CASE Disabled(port'[p], r) \/ Aged(port'[p], r) \/ Superseded(port'[p], r, p, gmPriority')
      BY <3>6 DEF Disabled, Aged, Superseded, AnnouncesBetter
    <3>. QED  BY <3>3, <3>4, <3>5, <3>6
  <2>. QED  BY <2>1, <2>2
<1>4. CASE Deinit
  <2>1. gmPriority'.root = SystemRoot /\ \A p \in Timed : ~AnnouncesBetter(p)
    BY <1>1, <1>4 DEF Deinit, System, LastGm
  <2>. QED  BY <1>4, <2>1, DeinitOutcome DEF AnnouncesBetter, Timed
<1>5. CASE UNCHANGED vars
  BY <1>5 DEF vars, GmAnnouncesItself, AnnouncesBetter
<1>. QED  BY <1>2, <1>3, <1>4, <1>5, StepCases

(* As long as a port announces another clock as better, the system does not *)
(* become grandmaster, though nobody but itself may announce that clock any *)
(* more: updtRolesTree counts the vectors the system announces among the    *)
(* paths to a grandmaster (see GmAnnouncedByAnother), so that a grandmaster *)
(* lost on one port is taken over from the next.                            *)
LostGmIsKept ==
  [][(\E p \in Timed : AnnouncesBetter(p)) => gm' # System]_vars

THEOREM LostGmIsKeptProperty == Spec => LostGmIsKept
<1>. DEFINE A == (\E p \in Timed : AnnouncesBetter(p)) => gm' # System
<1>1. Init => GmAnnouncesItself
  BY DEF Init, GmAnnouncesItself, System, LastGm
<1>2. TypeOK /\ TypeOK' /\ GmAnnouncesItself /\ [Next]_vars => GmAnnouncesItself'
  BY GmAnnouncesItselfStep
<1>3. TypeOK /\ TypeOK' /\ GmAnnouncesItself /\ [Next]_vars => [A]_vars
  <2>. SUFFICES ASSUME TypeOK, TypeOK', GmAnnouncesItself, [Next]_vars,
                       NEW p \in Timed, AnnouncesBetter(p)
                PROVE  gm' # System
    OBVIOUS
  <2>1. gm # System
    BY DEF GmAnnouncesItself
  <2>2. updtRolesTree => gm' # System
    BY SelectsWhatItAnnounces DEF updtRolesTree
  <2>3. CASE Tick
    BY <2>1, <2>2, <2>3 DEF Tick, TickReselect, TickKeep
  <2>4. CASE Deinit
    BY <2>2, <2>4 DEF Deinit, System, LastGm
  <2>5. CASE \/ \E q \in Ports, m \in Announces : ReceiveAnnounce(q, m) \/ ReuseRxBuffer(q, m)
             \/ \E q \in Ports : ChangeAble(q) \/ \E ticks \in SyncTicks[q] : SetSyncInterval(q, ticks)
    BY <2>1, <2>5 DEF ReceiveAnnounce, ReuseRxBuffer, ChangeAble, SetSyncInterval, systemVars
  <2>6. CASE UNCHANGED vars
    BY <2>1, <2>6 DEF vars
  <2>. QED  BY <2>3, <2>4, <2>5, <2>6, StepCases
<1>. QED
  BY <1>1, <1>2, <1>3, TypeCorrect, PTL DEF Spec, LostGmIsKept

(***************************************************************************)
(* What follows needs the fairness of the tick.  ENABLED is out of the     *)
(* provers' reach, so that a tick which has something to do is enabled is  *)
(* a hypothesis, TickMoves, which TLC checks.                              *)
(*                                                                         *)
(* An aged port that has not given up its role asks for a selection, and   *)
(* any selection, by a tick or a restart, makes it master.                 *)
(***************************************************************************)
AgedAsks ==
  \A p \in Ports :
    port[p].infoIs = "Aged" =>
      port[p].reselect \/ port[p].role \in {"MASTER", "DISABLED"}

(* The tick that serves the request gives the port its role. *)
LEMMA AgedTick ==
  ASSUME TypeOK, TypeOK', AgedAsks, Tick, NEW p \in Ports, port[p].infoIs = "Aged"
  PROVE  port'[p].role \in {"MASTER", "DISABLED"}
<1>t. port[p] \in PortType
  BY DEF TypeOK
<1>1. port'[p].role = Assigned(p).role
  BY TickOutcome
<1>2. CASE port[p].reselect
  <2>1. Assigned(p).role = AssignedRole(port[p], p, gm', gmPriority')
    BY <1>t, <1>2, AssignRoleEffect DEF Assigned, ReselectPending
  <2>. QED  BY <1>1, <2>1 DEF AssignedRole
<1>3. CASE ~port[p].reselect
  <2>1. port[p].role \in {"MASTER", "DISABLED"}
    BY <1>3 DEF AgedAsks
  <2>2. CASE ReselectPending
    <3>1. Assigned(p).role = AssignedRole(port[p], p, gm', gmPriority')
      BY <1>t, <2>2, AssignRoleEffect DEF Assigned
    <3>. QED  BY <1>1, <3>1 DEF AssignedRole
  <2>3. CASE ~ReselectPending
    BY <1>1, <2>1, <2>3 DEF Assigned
  <2>. QED  BY <2>2, <2>3
<1>. QED  BY <1>2, <1>3

LEMMA AgedAsksStep ==
  ASSUME TypeOK, TypeOK', AgedAsks, [Next]_vars
  PROVE  AgedAsks'
<1>. SUFFICES ASSUME NEW p \in Ports, port'[p].infoIs = "Aged"
              PROVE  port'[p].reselect \/ port'[p].role \in {"MASTER", "DISABLED"}
  BY DEF AgedAsks
<1>t. port[p] \in PortType
  BY DEF TypeOK
<1>1. CASE \/ \E q \in Ports, m \in Announces : ReceiveAnnounce(q, m) \/ ReuseRxBuffer(q, m)
           \/ \E q \in Ports : ChangeAble(q) \/ \E ticks \in SyncTicks[q] : SetSyncInterval(q, ticks)
  BY <1>1, FrameOutcome DEF AgedAsks, SameInfo
<1>2. CASE Tick
  <2>. DEFINE r == Assigned(p)
  <2>1. CASE port[p].infoIs = "Aged"
    BY <1>2, <2>1, AgedTick
  <2>2. CASE port[p].infoIs # "Aged"
    <3>1. SameInfo(r, port[p])
      BY <1>t, AssignRoleEffect DEF Assigned, SameInfo
    <3>. HIDE DEF r
    <3>2. \/ Stopped(port'[p], r) \/ Disabled(port'[p], r) \/ Aged(port'[p], r)
          \/ Kept(port'[p], r)
          \/ Updated(port'[p], r, p, gmPriority', masterStepsRemoved')
          \/ Superseded(port'[p], r, p, gmPriority')
      BY <1>2, TickOutcome DEF r
    <3>. QED
      BY <2>2, <3>1, <3>2
      DEF Stopped, Disabled, Aged, Kept, Updated, Superseded, SameInfo
  <2>. QED  BY <2>1, <2>2
<1>3. CASE Deinit
  <2>1. \/ port'[p].role = "DISABLED"
        \/ port'[p] = AssignRole(RestartedPort(port[p]), p, gm', gmPriority', masterStepsRemoved')
    BY <1>3, DeinitOutcome
  <2>2. RestartedPort(port[p]) \in PortType /\ RestartedPort(port[p]).infoIs = port[p].infoIs
    BY <1>t, RestartedType DEF RestartedPort, PortType
  <2>3. port[p].infoIs = "Aged"
    BY <1>3, DeinitOutcome
  <2>. QED  BY <2>1, <2>2, <2>3, AssignRoleEffect DEF AssignedRole
<1>4. CASE UNCHANGED vars
  BY <1>4 DEF vars, AgedAsks
<1>. QED  BY <1>1, <1>2, <1>3, <1>4, StepCases

LEMMA AgedAsksInvariant == Spec => []AgedAsks
<1>1. Init => AgedAsks
  BY DEF Init, AgedAsks, BootPort
<1>2. TypeOK /\ TypeOK' /\ AgedAsks /\ [Next]_vars => AgedAsks'
  BY AgedAsksStep
<1>. QED  BY <1>1, <1>2, TypeCorrect, PTL DEF Spec

(* Every step but the tick keeps an aged port aged until it has given up    *)
(* its role, and the request it raised makes the tick enabled: it takes     *)
(* over as master or is disabled.                                           *)
THEOREM AgedPortTakesOverInTime == Spec /\ []TickMoves => AgedPortTakesOver
<1>. DEFINE Over(p) == port[p].role \in {"MASTER", "DISABLED"}
            Waits(p) == port[p].infoIs = "Aged" /\ ~Over(p)
<1>1. ASSUME NEW p \in Ports
      PROVE  Spec /\ []TickMoves => ((port[p].infoIs = "Aged") ~> Over(p))
  <2>1. TypeOK /\ TypeOK' /\ AgedAsks /\ Waits(p) /\ [Next]_vars => Waits(p)' \/ Over(p)'
    <3>. SUFFICES ASSUME TypeOK, TypeOK', AgedAsks, Waits(p), [Next]_vars
                  PROVE  Waits(p)' \/ Over(p)'
      OBVIOUS
    <3>1. CASE \/ \E q \in Ports, m \in Announces : ReceiveAnnounce(q, m) \/ ReuseRxBuffer(q, m)
               \/ \E q \in Ports : ChangeAble(q) \/ \E ticks \in SyncTicks[q] : SetSyncInterval(q, ticks)
      BY <3>1, FrameOutcome DEF SameInfo
    <3>2. CASE Tick
      BY <3>2, AgedTick
    <3>3. CASE Deinit
      BY <3>3, DeinitOutcome
    <3>4. CASE UNCHANGED vars
      BY <3>4 DEF vars
    <3>. QED  BY <3>1, <3>2, <3>3, <3>4, StepCases
  <2>2. TypeOK /\ TypeOK' /\ AgedAsks /\ Waits(p) /\ <<Tick>>_vars => Over(p)'
    BY AgedTick
  <2>3. AgedAsks /\ Waits(p) => Unsettled
    BY DEF AgedAsks, Unsettled, ReselectPending
  <2>4. port[p].infoIs = "Aged" => Waits(p) \/ Over(p)
    OBVIOUS
  <2>. QED
    BY <2>1, <2>2, <2>3, <2>4, TypeCorrect, AgedAsksInvariant, PTL DEF Spec, TickMoves
<1>. QED  BY <1>1 DEF AgedPortTakesOver

(***************************************************************************)
(* Once frames stop, five ticks at most change anything: one puts every    *)
(* machine in the state its port belongs to, one reads the messages that   *)
(* are left, one selects on what they said, one more lets the ports time   *)
(* out that the selection gave a grandmaster to, and the last one makes    *)
(* them masters.  Then every tick leaves everything alone.                 *)
(*                                                                         *)
(* What no step ever leaves behind: a port that must take over a vector    *)
(* before it was selected, or an aged port that asks for nothing.          *)
(***************************************************************************)
RequestsStand ==
  \A p \in Ports :
    /\ port[p].updtInfo /\ ~port[p].reselect => port[p].selected
    /\ port[p].state = "AGED" => port[p].reselect

(* What a selection, or the lack of a reason for one, leaves to Settle. *)
Prompt(r) ==
  /\ r.updtInfo => r.selected
  /\ r.state = "AGED" => r.selected /\ r.updtInfo

Silent(p, present) == announceTimeout(p) \/ (syncTimeout(p, syncTicks[p]) /\ present)

LEMMA AssignedPrompt ==
  ASSUME TypeOK, StateMatchesInfo, RequestsStand, NEW p \in Ports
  PROVE  LET r == Assigned(p)
         IN  /\ r \in PortType /\ Prompt(r) /\ ~r.reselect
             /\ SameInfo(r, port[p]) /\ r.able = port[p].able /\ r.rcvd = port[p].rcvd
<1>t. port[p] \in PortType
  BY DEF TypeOK
<1>1. CASE ReselectPending
  <2>. DEFINE r == AssignRole(port[p], p, gm', gmPriority', masterStepsRemoved')
  <2>1. r \in PortType /\ r.able = port[p].able
    BY <1>t, AssignRoleType DEF AssignRole, PortType
  <2>2. /\ SameInfo(r, port[p]) /\ r.rcvd = port[p].rcvd /\ ~r.reselect /\ r.selected
        /\ r.updtInfo = MustUpdate(port[p], p, gm', gmPriority', masterStepsRemoved')
    BY <1>t, AssignRoleEffect
  <2>3. port[p].state = "AGED" => r.updtInfo
    BY <2>2 DEF MustUpdate, StateMatchesInfo
  <2>4. Assigned(p) = r
    BY <1>1 DEF Assigned
  <2>. HIDE DEF r
  <2>. QED  BY <2>1, <2>2, <2>3, <2>4 DEF Prompt, SameInfo
<1>2. CASE ~ReselectPending
  <2>1. ~port[p].reselect /\ Assigned(p) = port[p]
    BY <1>2 DEF Assigned, ReselectPending
  <2>. QED  BY <1>t, <2>1 DEF Prompt, SameInfo, RequestsStand
<1>. QED  BY <1>1, <1>2

(* A run of the machine on a port that is where it belongs. *)
LEMMA SettleInPlace ==
  ASSUME NEW r \in PortType, NEW p \in Ports, NEW v \in Vectors, NEW steps \in Steps,
         NEW present \in BOOLEAN,
         r.able, r.state \in {"AGED", "CURRENT"}, Prompt(r)
  PROVE  LET s == Settle(r, p, v, steps, present)
         IN  /\ s.able /\ s.state \in {"AGED", "CURRENT"} /\ s.rcvd = NoAnnounce /\ ~s.updtInfo
             /\ s.state = "CURRENT" /\ s.infoIs = "Received" => ~Silent(p, present)
             /\ r.rcvd = NoAnnounce /\ ~r.reselect =>
                  /\ s.state = "CURRENT" => ~s.reselect
                  /\ s.state = "AGED" =>
                       r.state = "CURRENT" /\ r.infoIs = "Received" /\ Silent(p, present)
             /\ /\ r.rcvd = NoAnnounce /\ ~r.updtInfo
                /\ r.infoIs = "Received" => ~Silent(p, present)
                => s = r
<1>. DEFINE u == UpdateIfSelected(r, p, v, steps)
            w == ReceiveIfPending(u, p)
            s == Settle(r, p, v, steps, present)
<1>1. s = AgeIfSilent(w, p, present)
  BY DEF Settle
<1>2. u \in PortType /\ w \in PortType
  BY UpdateType, ReceiveType
<1>3. /\ u.able /\ u.state = "CURRENT" /\ ~u.updtInfo
      /\ u.rcvd = r.rcvd /\ u.reselect = r.reselect
      /\ u.infoIs = "Received" => r.infoIs = "Received" /\ r.state = "CURRENT"
      /\ ~r.updtInfo => u = r
  BY DEF UpdateIfSelected, Prompt, PortType
<1>4. /\ w.able /\ w.state = "CURRENT" /\ ~w.updtInfo /\ w.rcvd = NoAnnounce
      /\ u.rcvd = NoAnnounce => w = u
  <2>. HIDE DEF u
  <2>. QED  BY <1>2, <1>3 DEF ReceiveIfPending, EnterSuperior, PortType
<1>. HIDE DEF u, w
<1>5. CASE w.infoIs = "Received" /\ Silent(p, present)
  <2>1. s = EnterAged(w)
    BY <1>1, <1>4, <1>5 DEF AgeIfSilent, Silent
  <2>2. /\ s.able /\ s.state = "AGED" /\ s.rcvd = NoAnnounce /\ ~s.updtInfo
    BY <1>2, <1>4, <2>1 DEF EnterAged, PortType
  <2>. QED  BY <1>3, <1>4, <1>5, <2>2
<1>6. CASE ~(w.infoIs = "Received" /\ Silent(p, present))
  <2>1. s = w
    BY <1>1, <1>6 DEF AgeIfSilent, Silent
  <2>. QED  BY <1>3, <1>4, <1>6, <2>1
<1>. QED  BY <1>5, <1>6

(* A run of the machine on any port: able ports age or are current, the    *)
(* others are disabled and stay as they are.                               *)
LEMMA SettlePlaces ==
  ASSUME NEW r \in PortType, NEW p \in Ports, NEW v \in Vectors, NEW steps \in Steps,
         NEW present \in BOOLEAN
  PROVE  LET s == Settle(r, p, v, steps, present)
         IN  /\ s.able = r.able
             /\ r.able => s.state \in {"AGED", "CURRENT"}
             /\ ~r.able => s.state = "DISABLED"
             /\ ~r.able /\ r.state = "DISABLED" => s = r
<1>1. CASE ~r.able
  BY <1>1 DEF Settle, Disable, EnterDisabled, PortType
<1>2. CASE r.able /\ r.state \in {"BEGIN", "DISABLED"}
  BY <1>2 DEF Settle, Disable, EnterDisabled, EnterAged, PortType
<1>3. CASE r.able /\ r.state \notin {"BEGIN", "DISABLED"}
  <2>. DEFINE u == UpdateIfSelected(r, p, v, steps)
              w == ReceiveIfPending(u, p)
  <2>1. r.state \in {"AGED", "CURRENT"}
    BY <1>3 DEF PortType, States
  <2>2. Settle(r, p, v, steps, present) = AgeIfSilent(w, p, present)
    BY <1>3 DEF Settle
  <2>3. u \in PortType /\ w \in PortType
    BY UpdateType, ReceiveType
  <2>4. u.able /\ u.state \in {"AGED", "CURRENT"}
    BY <1>3, <2>1 DEF UpdateIfSelected, PortType
  <2>5. w.able /\ w.state \in {"AGED", "CURRENT"}
    <3>. HIDE DEF u
    <3>. QED  BY <2>3, <2>4 DEF ReceiveIfPending, EnterSuperior, PortType
  <2>. HIDE DEF u, w
  <2>. QED  BY <1>3, <2>2, <2>3, <2>5, ZenonT(60) DEF AgeIfSilent, EnterAged, PortType
<1>. QED  BY <1>1, <1>2, <1>3

LEMMA RequestsStandStep ==
  ASSUME TypeOK, TypeOK', StateMatchesInfo, RequestsStand, [Next]_vars
  PROVE  RequestsStand'
<1>. SUFFICES ASSUME NEW p \in Ports
              PROVE  /\ port'[p].updtInfo /\ ~port'[p].reselect => port'[p].selected
                     /\ port'[p].state = "AGED" => port'[p].reselect
  BY DEF RequestsStand
<1>t. port[p] \in PortType
  BY DEF TypeOK
<1>1. CASE \/ \E q \in Ports, m \in Announces : ReceiveAnnounce(q, m) \/ ReuseRxBuffer(q, m)
           \/ \E q \in Ports : ChangeAble(q) \/ \E ticks \in SyncTicks[q] : SetSyncInterval(q, ticks)
  BY <1>1, FrameOutcome DEF RequestsStand, SameInfo
<1>2. CASE Tick
  <2>. DEFINE r == Assigned(p)
  <2>1. /\ r \in PortType /\ Prompt(r)
        /\ gmPriority' \in Vectors /\ masterStepsRemoved' \in Steps /\ gmPresent' \in BOOLEAN
    BY AssignedPrompt DEF TypeOK
  <2>2. port'[p] = Settle(r, p, gmPriority', masterStepsRemoved', gmPresent')
    BY <1>2 DEF Tick, TickReselect, TickKeep, Assigned
  <2>. HIDE DEF r
  <2>3. CASE ~r.able /\ r.state = "DISABLED"
    BY <2>1, <2>2, <2>3, SettlePlaces DEF Prompt
  <2>4. CASE ~r.able /\ r.state # "DISABLED"
    BY <2>1, <2>2, <2>4 DEF Settle, Disable, EnterDisabled, PortType
  <2>5. CASE r.able /\ r.state \in {"BEGIN", "DISABLED"}
    BY <2>1, <2>2, <2>5 DEF Settle, Disable, EnterDisabled, EnterAged, PortType
  <2>6. CASE r.able /\ r.state \notin {"BEGIN", "DISABLED"}
    <3>1. r.state \in {"AGED", "CURRENT"}
      BY <2>1, <2>6 DEF PortType, States
    <3>2. ~port'[p].updtInfo
      BY <2>1, <2>2, <2>6, <3>1, SettleInPlace
    <3>3. port'[p].state = "AGED" => port'[p].reselect
      BY <1>2, <2>1, <3>1, TickOutcome
      DEF Stopped, Disabled, Aged, Kept, Updated, Superseded, SameInfo, Prompt, r
    <3>. QED  BY <3>2, <3>3
  <2>. QED  BY <2>3, <2>4, <2>5, <2>6
<1>3. CASE Deinit
  <2>1. port'[p].state = "BEGIN"
    BY <1>3, DeinitOutcome
  <2>2. CASE ReselectPending
    <3>1. port'[p] = AssignRole(RestartedPort(port[p]), p, gm', gmPriority', masterStepsRemoved')
      BY <1>3, <2>2 DEF Deinit
    <3>. QED  BY <1>t, <2>1, <3>1, RestartedType, AssignRoleEffect
  <2>3. CASE ~ReselectPending
    <3>1. port'[p] = RestartedPort(port[p])
      BY <1>3, <2>3 DEF Deinit
    <3>. QED  BY <1>t, <2>1, <3>1 DEF RestartedPort, PortType, RequestsStand
  <2>. QED  BY <2>2, <2>3
<1>4. CASE UNCHANGED vars
  BY <1>4 DEF vars, RequestsStand
<1>. QED  BY <1>1, <1>2, <1>3, <1>4, StepCases

LEMMA RequestsStandInvariant == Spec => []RequestsStand
<1>1. Init => RequestsStand
  BY DEF Init, RequestsStand, BootPort
<1>2. TypeOK /\ TypeOK' /\ StateMatchesInfo /\ RequestsStand /\ [Next]_vars => RequestsStand'
  BY RequestsStandStep
<1>. QED  BY <1>1, <1>2, TypeCorrect, StateMatchesInfoInvariant, PTL DEF Spec

(* The stages of coming to rest: every port is in its place; no message is  *)
(* left and every able master port has taken over its vector; all that asks *)
(* for a selection has aged; no port is left to age.                        *)
InPlace ==
  \A p \in Ports :
    /\ port[p].able => port[p].state \in {"AGED", "CURRENT"}
    /\ ~port[p].able => port[p].state = "DISABLED"

Heard ==
  /\ InPlace
  /\ \A p \in Ports : port[p].able => port[p].rcvd = NoAnnounce /\ ~port[p].updtInfo

OnlyAgedAsk ==
  /\ Heard /\ ~newMaster
  /\ \A p \in Ports :
       /\ port[p].reselect => port[p].state = "AGED"
       /\ port[p].state = "CURRENT" /\ port[p].infoIs = "Received" => ~Silent(p, gmPresent)

NoneLeftToAge ==
  /\ OnlyAgedAsk
  /\ \A p \in Ports :
       port[p].state = "CURRENT" /\ port[p].infoIs = "Received" => ~Silent(p, TRUE)

(* What a tick works with, and what it makes of a port.                     *)
LEMMA TickRun ==
  ASSUME TypeOK, TypeOK', StateMatchesInfo, RequestsStand, Tick, NEW p \in Ports
  PROVE  LET r == Assigned(p)
             s == port'[p]
         IN  /\ s = Settle(r, p, gmPriority', masterStepsRemoved', gmPresent')
             /\ r \in PortType /\ Prompt(r) /\ ~r.reselect
             /\ SameInfo(r, port[p]) /\ r.able = port[p].able /\ r.rcvd = port[p].rcvd
             /\ gmPriority' \in Vectors /\ masterStepsRemoved' \in Steps /\ gmPresent' \in BOOLEAN
             /\ s.able = port[p].able
<1>1. port'[p] = Settle(Assigned(p), p, gmPriority', masterStepsRemoved', gmPresent')
  BY DEF Tick, TickReselect, TickKeep, Assigned
<1>2. gmPriority' \in Vectors /\ masterStepsRemoved' \in Steps /\ gmPresent' \in BOOLEAN
  BY DEF TypeOK
<1>. QED  BY <1>1, <1>2, AssignedPrompt, SettlePlaces

LEMMA TickPlaces ==
  ASSUME TypeOK, TypeOK', StateMatchesInfo, RequestsStand, Tick
  PROVE  InPlace'
BY TickRun, SettlePlaces DEF InPlace

LEMMA TickHears ==
  ASSUME TypeOK, TypeOK', StateMatchesInfo, RequestsStand, Tick, InPlace
  PROVE  Heard'
<1>1. ASSUME NEW p \in Ports, port'[p].able
      PROVE  port'[p].rcvd = NoAnnounce /\ ~port'[p].updtInfo
  <2>1. Assigned(p).able /\ Assigned(p).state \in {"AGED", "CURRENT"}
    BY <1>1, TickRun DEF InPlace, SameInfo
  <2>. QED  BY <2>1, TickRun, SettleInPlace
<1>. QED  BY <1>1, TickPlaces DEF Heard

LEMMA TickAsks ==
  ASSUME TypeOK, TypeOK', StateMatchesInfo, RequestsStand, Tick, Heard
  PROVE  /\ OnlyAgedAsk'
         /\ \A p \in Ports : port'[p].reselect =>
              /\ port[p].state = "CURRENT" /\ port[p].infoIs = "Received"
              /\ Silent(p, gmPresent')
<1>1. Heard' /\ ~newMaster'
  BY TickHears DEF Heard, Tick, TickReselect, TickKeep
<1>2. ASSUME NEW p \in Ports
      PROVE  /\ port'[p].reselect =>
                  /\ port'[p].state = "AGED"
                  /\ port[p].state = "CURRENT" /\ port[p].infoIs = "Received"
                  /\ Silent(p, gmPresent')
             /\ port'[p].state = "CURRENT" /\ port'[p].infoIs = "Received"
                  => ~Silent(p, gmPresent')
  <2>1. CASE port[p].able
    <3>1. /\ Assigned(p).able /\ Assigned(p).state \in {"AGED", "CURRENT"}
          /\ Assigned(p).rcvd = NoAnnounce /\ ~Assigned(p).reselect
          /\ SameInfo(Assigned(p), port[p])
      BY <2>1, TickRun DEF Heard, InPlace, SameInfo
    <3>2. /\ port'[p].state \in {"AGED", "CURRENT"}
          /\ port'[p].state = "CURRENT" => ~port'[p].reselect
          /\ port'[p].state = "AGED" =>
               /\ Assigned(p).state = "CURRENT" /\ Assigned(p).infoIs = "Received"
               /\ Silent(p, gmPresent')
          /\ port'[p].state = "CURRENT" /\ port'[p].infoIs = "Received"
               => ~Silent(p, gmPresent')
      BY <3>1, TickRun, SettleInPlace
    <3>. QED  BY <3>1, <3>2 DEF SameInfo
  <2>2. CASE ~port[p].able
    <3>1. ~Assigned(p).able /\ Assigned(p).state = "DISABLED" /\ ~Assigned(p).reselect
      BY <2>2, TickRun DEF Heard, InPlace, SameInfo
    <3>2. port'[p] = Assigned(p)
      BY <3>1, TickRun, SettlePlaces
    <3>. QED  BY <3>1, <3>2
  <2>. QED  BY <2>1, <2>2
<1>3. UNCHANGED syncTicks
  BY DEF Tick, TickReselect, TickKeep
<1>4. \A p \in Ports : Silent(p, gmPresent)' = Silent(p, gmPresent')
  BY <1>3 DEF Silent, announceTimeout, syncTimeout
<1>. QED  BY <1>1, <1>2, <1>4 DEF OnlyAgedAsk

(* Without a request, a machine that has heard all there is to hear rests.  *)
LEMMA NothingAsked ==
  ASSUME TypeOK, StateMatchesInfo, RequestsStand, OnlyAgedAsk, ~ReselectPending
  PROVE  ~Unsettled
<1>1. ASSUME NEW p \in Ports
      PROVE  Settle(port[p], p, gmPriority, masterStepsRemoved, gmPresent) = port[p]
  <2>1. /\ port[p] \in PortType /\ gmPriority \in Vectors /\ masterStepsRemoved \in Steps
        /\ gmPresent \in BOOLEAN
    BY DEF TypeOK
  <2>2. CASE ~port[p].able
    BY <2>1, <2>2, SettlePlaces DEF OnlyAgedAsk, Heard, InPlace
  <2>3. CASE port[p].able
    <3>1. ~port[p].reselect
      BY DEF ReselectPending
    <3>2. port[p].state = "CURRENT" /\ ~port[p].updtInfo /\ port[p].rcvd = NoAnnounce
      BY <2>3, <3>1 DEF OnlyAgedAsk, Heard, InPlace, RequestsStand
    <3>3. Prompt(port[p]) /\ (port[p].infoIs = "Received" => ~Silent(p, gmPresent))
      BY <3>2 DEF Prompt, OnlyAgedAsk
    <3>. QED  BY <2>1, <2>3, <3>2, <3>3, SettleInPlace
  <2>. QED  BY <2>2, <2>3
<1>. QED  BY <1>1 DEF Unsettled, OnlyAgedAsk

(* The tick that lets ports time out with a new grandmaster is the last one *)
(* to do so: without a grandmaster there is nothing left to time out.       *)
LEMMA TickAges ==
  ASSUME TypeOK, TypeOK', StateMatchesInfo, StateMatchesInfo', RequestsStand, RequestsStand',
         Tick, OnlyAgedAsk
  PROVE  NoneLeftToAge' \/ ~Unsettled'
<1>1. /\ OnlyAgedAsk'
      /\ \A p \in Ports : port'[p].reselect =>
           /\ port[p].state = "CURRENT" /\ port[p].infoIs = "Received" /\ Silent(p, gmPresent')
  BY TickAsks DEF OnlyAgedAsk
<1>2. gmPresent' \in BOOLEAN
  BY DEF TypeOK
<1>3. CASE gmPresent'
  BY <1>1, <1>2, <1>3 DEF NoneLeftToAge, OnlyAgedAsk, Silent
<1>4. CASE ~gmPresent'
  <2>1. ~ReselectPending'
    BY <1>1, <1>4 DEF ReselectPending, OnlyAgedAsk, Silent
  <2>2. ~Unsettled'
    BY <1>1, <2>1, NothingAsked, PTL
  <2>. QED  BY <2>2
<1>. QED  BY <1>3, <1>4

LEMMA TickRests ==
  ASSUME TypeOK, TypeOK', StateMatchesInfo, StateMatchesInfo', RequestsStand, RequestsStand',
         Tick, NoneLeftToAge
  PROVE  ~Unsettled'
<1>1. /\ OnlyAgedAsk'
      /\ \A p \in Ports : port'[p].reselect =>
           /\ port[p].state = "CURRENT" /\ port[p].infoIs = "Received" /\ Silent(p, gmPresent')
  BY TickAsks DEF OnlyAgedAsk, NoneLeftToAge
<1>2. ~ReselectPending'
  BY <1>1 DEF ReselectPending, NoneLeftToAge, Silent
<1>. QED  BY <1>1, <1>2, NothingAsked, PTL

(* At rest, a tick changes nothing, and nothing is left to do.              *)
LEMMA RestIsStable ==
  ASSUME TypeOK, ~Unsettled, [Tick]_vars
  PROVE  ~Unsettled'
<1>1. CASE Tick
  <2>1. TickKeep /\ ~newMaster
    BY <1>1 DEF Unsettled, Tick, TickReselect
  <2>2. \A p \in Ports : port'[p] = port[p]
    BY <2>1 DEF TickKeep, Unsettled
  <2>3. port' = port
    BY <2>1, <2>2 DEF TickKeep, TypeOK
  <2>4. UNCHANGED vars
    BY <2>1, <2>3 DEF TickKeep, vars, TypeOK
  <2>. QED  BY <2>4 DEF vars, Unsettled, ReselectPending, Settle, AgeIfSilent
<1>2. CASE UNCHANGED vars
  BY <1>2 DEF vars, Unsettled, ReselectPending, Settle, AgeIfSilent, syncTimeout, announceTimeout
<1>. QED  BY <1>1, <1>2

LEMMA RestIsRest ==
  ASSUME TypeOK, RequestsStand, ~Unsettled
  PROVE  AtRest
<1>. SUFFICES ASSUME NEW p \in Ports
              PROVE  ~port[p].reselect /\ (port[p].able => port[p].rcvd = NoAnnounce)
  BY DEF AtRest
<1>1. ~port[p].reselect
  BY DEF Unsettled, ReselectPending
<1>2. ASSUME port[p].able  PROVE port[p].rcvd = NoAnnounce
  <2>1. /\ port[p] \in PortType /\ gmPriority \in Vectors /\ masterStepsRemoved \in Steps
        /\ gmPresent \in BOOLEAN
        /\ Settle(port[p], p, gmPriority, masterStepsRemoved, gmPresent) = port[p]
    BY DEF TypeOK, Unsettled
  <2>2. port[p].state \in {"AGED", "CURRENT"} /\ Prompt(port[p])
    BY <1>1, <1>2, <2>1, SettlePlaces DEF RequestsStand, Prompt
  <2>. QED  BY <1>2, <2>1, <2>2, SettleInPlace
<1>. QED  BY <1>1, <1>2

(* Every stage lasts until a tick, which the stage before being unsettled   *)
(* makes enabled, leads to the next one or to rest.                         *)
THEOREM ComesToRestInTime == Spec /\ []TickMoves => ComesToRest
<1>. DEFINE Inv == TypeOK /\ StateMatchesInfo /\ RequestsStand
<1>1. Inv /\ Inv' /\ Tick => InPlace'
  BY TickPlaces
<1>2. Inv /\ Inv' /\ Tick /\ InPlace => Heard'
  BY TickHears
<1>3. Inv /\ Inv' /\ Tick /\ Heard => OnlyAgedAsk'
  BY TickAsks
<1>4. Inv /\ Inv' /\ Tick /\ OnlyAgedAsk => NoneLeftToAge' \/ ~Unsettled'
  BY TickAges
<1>5. Inv /\ Inv' /\ Tick /\ NoneLeftToAge => ~Unsettled'
  BY TickRests
<1>6. Inv /\ ~Unsettled /\ [Tick]_vars => ~Unsettled'
  BY RestIsStable
<1>7. Inv /\ ~Unsettled => AtRest
  BY RestIsRest
<1>8. ASSUME UNCHANGED vars
      PROVE  /\ InPlace => InPlace'
             /\ Heard => Heard'
             /\ OnlyAgedAsk => OnlyAgedAsk'
             /\ NoneLeftToAge => NoneLeftToAge'
  BY <1>8, SMT DEF vars, InPlace, Heard, OnlyAgedAsk, NoneLeftToAge, Silent
<1>9. /\ OnlyAgedAsk => Heard
      /\ Heard => InPlace
  BY DEF OnlyAgedAsk, Heard
<1>. HIDE DEF Inv
<1>10. Spec => []Inv
  BY TypeCorrect, StateMatchesInfoInvariant, RequestsStandInvariant, PTL DEF Inv
<1>. DEFINE Quiet == []Inv /\ []TickMoves /\ WF_vars(Tick) /\ [][Tick]_vars
<1>11. Quiet => <>(InPlace \/ ~Unsettled)
  BY <1>1, <1>6, PTL DEF TickMoves
<1>12. Quiet /\ InPlace => <>(Heard \/ ~Unsettled)
  BY <1>2, <1>6, <1>8, PTL DEF TickMoves
<1>13. Quiet /\ Heard => <>(OnlyAgedAsk \/ ~Unsettled)
  BY <1>3, <1>6, <1>8, PTL DEF TickMoves
<1>14. Quiet /\ OnlyAgedAsk => <>(NoneLeftToAge \/ ~Unsettled)
  BY <1>4, <1>6, <1>8, PTL DEF TickMoves
<1>15. Quiet /\ NoneLeftToAge => <>~Unsettled
  BY <1>5, <1>6, <1>8, PTL DEF TickMoves
<1>16. Quiet => <>[]AtRest
  BY <1>6, <1>7, <1>11, <1>12, <1>13, <1>14, <1>15, PTL
<1>. QED
  BY <1>10, <1>16, PTL DEF Spec, ComesToRest

=============================================================================
