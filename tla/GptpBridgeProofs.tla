--------------------------- MODULE GptpBridgeProofs ---------------------------
(***************************************************************************)
(* Proofs about the composition GptpBridge, for every number of ports,     *)
(* every set of announces and syncs and every configuration: the roles and *)
(* the grandmaster that the best master clock algorithm produces are those *)
(* GptpSync assumes of its environment.  The lemmas of GptpRolesProofs say *)
(* what a step does to a port; what is added here is where the source of   *)
(* the grandmaster vector comes from.                                      *)
(***************************************************************************)
EXTENDS GptpBridge, GptpRolesProofs

LEMMA NextOfBridge ==
  ASSUME [BridgeNext]_bridgeVars
  PROVE  [Next]_vars
BY Zenon DEF BridgeNext, BridgeAnnounce, BridgeReuse, BridgeAble, BridgeSync, BridgeFollowUp,
      BridgeInterval, BridgeTick, BridgeDeinit, bridgeVars, Next

(***************************************************************************)
(* Where a source comes from.  A vector with the all-ones source is all    *)
(* ones, and what is or was received is a neighbour's.                     *)
(***************************************************************************)
Sourced ==
  \A p \in Ports :
    /\ port[p].portPriority.source = MaxSource => port[p].portPriority = AllOnes
    /\ port[p].infoIs = "Received" => port[p].portPriority.source \in Neighbours
    /\ port[p].rcvd # NoAnnounce => port[p].rcvd.source \in Neighbours

(* What a slave port follows, until a selection is pending on it. *)
Followed ==
  \A p \in Ports : port[p].role = "SLAVE" =>
    /\ gmPriority.source \in Neighbours
    /\ port[p].reselect \/ gmPriority = OneHopFurther(port[p].portPriority)

BridgeInv == TypeOK /\ SlaveFollowsGm /\ Sourced /\ Followed

LEMMA SettledPriority ==
  ASSUME NEW r \in PortType, NEW p \in Ports, NEW v, NEW steps, NEW present
  PROVE  LET s == Settle(r, p, v, steps, present)
         IN  \/ s.portPriority \in {r.portPriority, AllOnes, MasterPriority(v, p)}
             \/ r.rcvd # NoAnnounce /\ s.portPriority = MessagePriority(r.rcvd, p)
<1>. DEFINE u == UpdateIfSelected(r, p, v, steps)
            w == ReceiveIfPending(u, p)
<1>1. Disable(r).portPriority \in {r.portPriority, AllOnes}
  BY DEF Disable, EnterDisabled, PortType
<1>2. EnterAged(Disable(r)).portPriority = Disable(r).portPriority
  BY DEF EnterAged, Disable, EnterDisabled, PortType
<1>3. /\ u.portPriority \in {r.portPriority, MasterPriority(v, p)} /\ u.rcvd = r.rcvd
      /\ DOMAIN u = DOMAIN r
  BY DEF UpdateIfSelected, PortType
<1>. HIDE DEF u
<1>4. \/ w.portPriority = u.portPriority
      \/ u.rcvd # NoAnnounce /\ w.portPriority = MessagePriority(u.rcvd, p)
  BY <1>3 DEF ReceiveIfPending, EnterSuperior, PortType
<1>5. AgeIfSilent(w, p, present).portPriority = w.portPriority
  BY DEF AgeIfSilent, EnterAged
<1>. HIDE DEF w
<1>. QED  BY <1>1, <1>2, <1>3, <1>4, <1>5 DEF Settle, u, w

(* An announce that is pending qualified, or came from no one's reuse of    *)
(* this clock's identity: either way a neighbour sent it.                   *)
LEMMA PendingSource ==
  ASSUME NEW m \in Announces, RxBufferReused \/ Qualified(m)
  PROVE  m.source \in Neighbours
BY RolesAssumption, BridgeAssumption DEF Qualified, Neighbours, AnnounceType

LEMMA SourcedStep ==
  ASSUME TypeOK, TypeOK', Sourced, [Next]_vars
  PROVE  Sourced'
<1>. SUFFICES ASSUME NEW p \in Ports
     PROVE  /\ port'[p].portPriority.source = MaxSource => port'[p].portPriority = AllOnes
            /\ port'[p].infoIs = "Received" => port'[p].portPriority.source \in Neighbours
            /\ port'[p].rcvd # NoAnnounce => port'[p].rcvd.source \in Neighbours
  BY DEF Sourced
<1>t. port[p] \in PortType /\ port'[p] \in PortType
  BY DEF TypeOK
<1>0. /\ port[p].portPriority.source = MaxSource => port[p].portPriority = AllOnes
      /\ port[p].infoIs = "Received" => port[p].portPriority.source \in Neighbours
      /\ port[p].rcvd # NoAnnounce => port[p].rcvd.source \in Neighbours
  BY DEF Sourced
<1>1. CASE \/ \E q \in Ports, m \in Announces : ReceiveAnnounce(q, m) \/ ReuseRxBuffer(q, m)
           \/ \E q \in Ports : ChangeAble(q) \/ \E ticks \in SyncTicks[q] : SetSyncInterval(q, ticks)
  <2>1. SameInfo(port'[p], port[p])
    BY <1>1, FrameOutcome
  <2>2. ASSUME NEW q \in Ports, NEW m \in Announces, ReceiveAnnounce(q, m)
        PROVE  port'[p].rcvd \in {port[p].rcvd, NoAnnounce} \/ (port'[p].rcvd = m /\ Qualified(m))
    BY <2>2, <1>t DEF ReceiveAnnounce, TypeOK, PortType
  <2>3. ASSUME NEW q \in Ports, NEW m \in Announces, ReuseRxBuffer(q, m)
        PROVE  port'[p].rcvd = port[p].rcvd \/ (port'[p].rcvd = m /\ RxBufferReused)
    BY <2>3, <1>t DEF ReuseRxBuffer, TypeOK, PortType
  <2>4. ASSUME NEW q \in Ports, ChangeAble(q)
        PROVE  port'[p].rcvd = port[p].rcvd
    BY <2>4, <1>t DEF ChangeAble, TypeOK, PortType
  <2>5. ASSUME NEW q \in Ports, NEW ticks \in SyncTicks[q], SetSyncInterval(q, ticks)
        PROVE  port'[p].rcvd = port[p].rcvd
    BY <2>5 DEF SetSyncInterval
  <2>6. port'[p].rcvd # NoAnnounce => port'[p].rcvd.source \in Neighbours
    BY <1>0, <1>1, <2>2, <2>3, <2>4, <2>5, PendingSource
  <2>. QED  BY <1>0, <2>1, <2>6 DEF SameInfo
<1>2. CASE Tick
  <2>. DEFINE r == Assigned(p)
              s == port'[p]
  <2>1. /\ r \in PortType /\ s.rcvd \in {r.rcvd, NoAnnounce}
        /\ \/ Stopped(s, r) \/ Disabled(s, r) \/ Aged(s, r) \/ Kept(s, r)
           \/ Updated(s, r, p, gmPriority', masterStepsRemoved')
           \/ Superseded(s, r, p, gmPriority')
    BY <1>2, TickOutcome
  <2>2. r.portPriority = port[p].portPriority /\ r.infoIs = port[p].infoIs /\ r.rcvd = port[p].rcvd
    BY <1>t, AssignRoleEffect DEF Assigned, SameInfo
  <2>3. s = Settle(r, p, gmPriority', masterStepsRemoved', gmPresent')
    BY <1>2 DEF Tick, TickReselect, TickKeep, Assigned
  <2>. HIDE DEF r
  <2>4. \/ s.portPriority \in {r.portPriority, AllOnes, MasterPriority(gmPriority', p)}
        \/ r.rcvd # NoAnnounce /\ s.portPriority = MessagePriority(r.rcvd, p)
    BY <2>1, <2>3, SettledPriority
  <2>5. MasterPriority(gmPriority', p).source = OwnSource /\ OwnSource # MaxSource
    BY VectorsAssumption DEF MasterPriority, TypeOK, Vectors
  <2>6. r.rcvd # NoAnnounce => /\ MessagePriority(r.rcvd, p).source \in Neighbours
                               /\ MaxSource \notin Neighbours
    BY <1>0, <2>2 DEF MessagePriority, Neighbours
  <2>7. s.portPriority.source = MaxSource => s.portPriority = AllOnes
    BY <1>0, <2>2, <2>4, <2>5, <2>6
  <2>8. s.infoIs = "Received" => s.portPriority.source \in Neighbours
    BY <1>0, <2>1, <2>2, <2>6
    DEF Stopped, Disabled, Aged, Kept, Updated, Superseded, SameInfo
  <2>9. s.rcvd # NoAnnounce => s.rcvd.source \in Neighbours
    BY <1>0, <2>1, <2>2
  <2>. QED  BY <2>7, <2>8, <2>9
<1>3. CASE Deinit
  BY <1>0, <1>3, DeinitOutcome
<1>4. CASE UNCHANGED vars
  BY <1>0, <1>4 DEF vars
<1>. QED  BY <1>1, <1>2, <1>3, <1>4, StepCases

(* A selection never ends at the all-ones source, and the path of the port  *)
(* it ends at is that port's vector one hop further.                        *)
LEMMA SelectedSource ==
  ASSUME TypeOK, Sourced, updtRolesTree
  PROVE  /\ gmPriority'.source \in Sources \ {MaxSource}
         /\ gm' \in Ports => gmPriority' = OneHopFurther(port[gm'].portPriority)
<1>1. CASE Candidates = {}
  <2>1. gm' = System /\ gmPriority' = SystemPriority
    BY <1>1 DEF updtRolesTree, SelectGm, VectorOf
  <2>. QED  BY <2>1, SystemIsNoPort, VectorsAssumption DEF SystemPriority
<1>2. CASE Candidates # {}
  <2>. DEFINE g == SelectGm
  <2>1. g \in Ports /\ g \in Candidates /\ gm' = g
    BY <1>2, SelectGmChosen DEF updtRolesTree, FirstOfBest
  <2>. HIDE DEF g
  <2>2. gmPriority' = gmPathPriority(g)
    BY <2>1, SystemIsNoPort DEF updtRolesTree, VectorOf
  <2>3. Better(gmPathPriority(g), SystemPriority)
    BY <2>1 DEF Candidates
  <2>4. gmPathPriority(g) = OneHopFurther(port[g].portPriority)
    BY <2>3, AllOnesIsNotBetter DEF gmPathPriority
  <2>5. port[g].portPriority \in Vectors
    BY <2>1 DEF TypeOK, PortType
  <2>6. /\ OneHopFurther(port[g].portPriority).source = port[g].portPriority.source
        /\ OneHopFurther(port[g].portPriority).root = port[g].portPriority.root
    BY <2>5 DEF OneHopFurther, Vectors
  <2>7. port[g].portPriority # AllOnes
    <3>1. SystemRoot \in Nat /\ MaxRoot \in Nat /\ SystemRoot < MaxRoot
      BY VectorsAssumption DEF Roots
    <3>2. AllOnes.root = MaxRoot /\ SystemPriority.root = SystemRoot
      BY DEF AllOnes, SystemPriority
    <3>. QED  BY <2>3, <2>4, <2>6, <3>1, <3>2, SMT DEF Better
  <2>8. port[g].portPriority.source \in Sources \ {MaxSource}
    BY <2>1, <2>5, <2>7 DEF Sourced, Vectors
  <2>. QED  BY <2>1, <2>2, <2>4, <2>6, <2>8
<1>. QED  BY <1>1, <1>2

(* The role a tick or a restart leaves: the selection's, or the old one. *)
LEMMA FollowedStep ==
  ASSUME TypeOK, TypeOK', SlaveFollowsGm, Sourced, Followed, [Next]_vars
  PROVE  Followed'
<1>. SUFFICES ASSUME NEW p \in Ports, port'[p].role = "SLAVE"
     PROVE  /\ gmPriority'.source \in Neighbours
            /\ port'[p].reselect \/ gmPriority' = OneHopFurther(port'[p].portPriority)
  BY DEF Followed
<1>t. port[p] \in PortType
  BY DEF TypeOK
(* What a selection gives a slave. *)
<1>a. ASSUME NEW r \in PortType, r.infoIs = port[p].infoIs, updtRolesTree,
             r.portPriority = port[p].portPriority,
             AssignRole(r, p, gm', gmPriority', masterStepsRemoved').role = "SLAVE"
      PROVE  /\ gmPriority'.source \in Neighbours
             /\ gmPriority' = OneHopFurther(port[p].portPriority)
             /\ ~AssignRole(r, p, gm', gmPriority', masterStepsRemoved').updtInfo
  <2>1. /\ gm' = p /\ r.infoIs = "Received"
        /\ ~AssignRole(r, p, gm', gmPriority', masterStepsRemoved').updtInfo
    BY <1>a, SlaveAssigned, AssignRoleEffect DEF SameInfo
  <2>2. gmPriority' = OneHopFurther(port[p].portPriority)
    BY <1>a, <2>1, SelectedSource
  <2>3. gmPriority'.source = port[p].portPriority.source
    BY <1>t, <2>2 DEF OneHopFurther, PortType, Vectors
  <2>. QED  BY <1>a, <2>1, <2>2, <2>3 DEF Sourced
<1>1. CASE \/ \E q \in Ports, m \in Announces : ReceiveAnnounce(q, m) \/ ReuseRxBuffer(q, m)
           \/ \E q \in Ports : ChangeAble(q) \/ \E ticks \in SyncTicks[q] : SetSyncInterval(q, ticks)
  BY <1>1, FrameOutcome DEF Followed, SameInfo
<1>2. CASE Tick
  <2>. DEFINE r == Assigned(p)
              s == port'[p]
  <2>1. /\ r \in PortType /\ r.role = "SLAVE"
        /\ \/ Stopped(s, r) \/ Disabled(s, r) \/ Aged(s, r) \/ Kept(s, r)
           \/ Updated(s, r, p, gmPriority', masterStepsRemoved')
           \/ Superseded(s, r, p, gmPriority')
    BY <1>2, TickOutcome
  <2>2. r.portPriority = port[p].portPriority
    BY <1>t, AssignRoleEffect DEF Assigned, SameInfo
  <2>3. /\ gmPriority'.source \in Neighbours
        /\ r.reselect \/ gmPriority' = OneHopFurther(r.portPriority)
        /\ ~r.updtInfo
    <3>1. CASE ReselectPending
      <4>1. r = AssignRole(port[p], p, gm', gmPriority', masterStepsRemoved')
        BY <3>1 DEF Assigned
      <4>2. updtRolesTree
        BY <1>2, <3>1 DEF Tick, TickReselect, TickKeep
      <4>. QED  BY <1>t, <1>a, <2>1, <2>2, <4>1, <4>2
    <3>2. CASE ~ReselectPending
      <4>1. r = port[p]
        BY <3>2 DEF Assigned
      <4>2. gmPriority' = gmPriority
        BY <1>2, <3>2 DEF Tick, TickReselect, TickKeep
      <4>. QED  BY <2>1, <3>2, <4>1, <4>2 DEF Followed, SlaveFollowsGm
    <3>. QED  BY <3>1, <3>2
  <2>. QED  BY <2>1, <2>3 DEF Stopped, Disabled, Aged, Kept, Updated, Superseded, SameInfo
<1>3. CASE Deinit
  <2>1. /\ ReselectPending
        /\ port'[p] = AssignRole(RestartedPort(port[p]), p, gm', gmPriority', masterStepsRemoved')
        /\ port'[p].portPriority = port[p].portPriority
    BY <1>3, DeinitOutcome
  <2>2. /\ RestartedPort(port[p]) \in PortType
        /\ RestartedPort(port[p]).infoIs = port[p].infoIs
        /\ RestartedPort(port[p]).portPriority = port[p].portPriority
    BY <1>t, RestartedType DEF RestartedPort, PortType
  <2>3. updtRolesTree
    BY <1>3, <2>1 DEF Deinit
  <2>. QED  BY <1>a, <2>1, <2>2, <2>3
<1>4. CASE UNCHANGED vars
  BY <1>4 DEF vars, Followed
<1>. QED  BY <1>1, <1>2, <1>3, <1>4, StepCases

LEMMA BridgeInvInit == BridgeInit => BridgeInv
<1>. SUFFICES ASSUME Init PROVE BridgeInv
  BY DEF BridgeInit
<1>1. /\ \A p \in Ports : port[p] = BootPort
      /\ TypeOK
  BY InitType DEF Init
<1>2. ZeroVector.source # MaxSource
  BY VectorsAssumption DEF ZeroVector, Sources
<1>. QED  BY <1>1, <1>2 DEF BridgeInv, SlaveFollowsGm, Sourced, Followed, BootPort

LEMMA BridgeInvStep == BridgeInv /\ [BridgeNext]_bridgeVars => BridgeInv'
<1>. SUFFICES ASSUME BridgeInv, [Next]_vars PROVE BridgeInv'
  BY NextOfBridge
<1>1. TypeOK'
  BY StepType DEF BridgeInv
<1>. QED  BY <1>1, SlaveStep, SourcedStep, FollowedStep DEF BridgeInv

LEMMA BridgeInvariant == BridgeSpec => []BridgeInv
BY BridgeInvInit, BridgeInvStep, PTL DEF BridgeSpec

(***************************************************************************)
(* One time source.                                                        *)
(***************************************************************************)
(* Whatever frames come, ports age, are disabled or restart: follow-ups are *)
(* accepted on at most one port, the one the grandmaster was selected on,   *)
(* and from the clock whose announce it holds.                              *)
THEOREM OneTimeSourceInvariant == BridgeSpec => []OneTimeSource
<1>1. BridgeInv => OneTimeSource
  <2>. SUFFICES ASSUME BridgeInv, NEW p \in Ports, NEW f \in Syncs, Sync!Accepts(p, f)
       PROVE  /\ gm = p /\ ~grandMaster
              /\ port[p].reselect \/ f.source = port[p].portPriority.source
              /\ \A q \in Ports \ {p}, g \in Syncs : ~Sync!Accepts(q, g)
    BY DEF OneTimeSource
  <2>1. ASSUME NEW q \in Ports, NEW g \in Syncs, Sync!Accepts(q, g)
        PROVE  port[q].role = "SLAVE" /\ g.source = gmPriority.source
    BY <2>1 DEF Sync!Accepts, Sync!Respects, SyncRole
  <2>2. \A q \in Ports, g \in Syncs : Sync!Accepts(q, g) => gm = q /\ ~grandMaster
    BY <2>1 DEF BridgeInv, SlaveFollowsGm
  <2>3. OneHopFurther(port[p].portPriority).source = port[p].portPriority.source
    BY DEF BridgeInv, TypeOK, PortType, Vectors, OneHopFurther
  <2>4. port[p].reselect \/ f.source = port[p].portPriority.source
    BY <2>1, <2>3 DEF BridgeInv, Followed
  <2>. QED  BY <2>2, <2>4
<1>. QED  BY <1>1, BridgeInvariant, PTL

(***************************************************************************)
(* The bridge implements GptpSync.                                         *)
(***************************************************************************)
LEMMA SyncInitialised == BridgeInit => Sync!Init
<1>. SUFFICES ASSUME BridgeInit PROVE Sync!Init
  OBVIOUS
<1>1. [p \in Ports |-> SyncRole(port[p].role)] = Sync!Disabled
  BY DEF BridgeInit, Init, BootPort, SyncRole, Sync!Disabled, Ports, Sync!Ports
<1>2. gmPriority.source = MaxSource
  BY DEF BridgeInit, Init, AllOnes
<1>. QED  BY <1>1, <1>2 DEF BridgeInit, Sync!Init, Ports, Sync!Ports

(* The roles and the grandmaster of a step are one of GptpSync's selections *)
(* if the step selected.                                                    *)
LEMMA SelectionIsConsistent ==
  ASSUME BridgeInv, BridgeInv', updtRolesTree
  PROVE  \E s \in Sync!Selections : Sync!Select(s)
<1>. DEFINE s == [role |-> [p \in Ports |-> SyncRole(port'[p].role)],
                 master |-> gmPriority'.source]
<1>1. s.master \in Neighbours \cup {OwnSource}
  BY SelectedSource DEF BridgeInv, Neighbours
<1>2. s \in Sync!Selection
  BY <1>1 DEF Sync!Selection, Sync!Ports, Ports, Sync!PtpRoles, SyncRole
<1>3. Sync!Consistent(s)
  <2>. SUFFICES ASSUME NEW p \in Ports, s.role[p] = "SLAVE"
       PROVE  s.master \in Neighbours /\ \A q \in Ports \ {p} : s.role[q] # "SLAVE"
    BY DEF Sync!Consistent, Sync!Ports, Ports
  <2>1. \A q \in Ports : s.role[q] = "SLAVE" => port'[q].role = "SLAVE"
    BY DEF SyncRole
  <2>2. \A q \in Ports : port'[q].role = "SLAVE" => gm' = q /\ s.master \in Neighbours
    BY DEF BridgeInv, SlaveFollowsGm, Followed
  <2>. QED  BY <2>1, <2>2
<1>4. Sync!Select(s)
  BY DEF Sync!Select
<1>. QED  BY <1>2, <1>3, <1>4 DEF Sync!Selections

LEMMA SyncStep ==
  ASSUME BridgeInv, BridgeInv', [BridgeNext]_bridgeVars
  PROVE  [Sync!Next]_(Sync!vars)
<1>p. Ports = Sync!Ports
  BY DEF Ports, Sync!Ports
<1>r. ASSUME \A p \in Ports : port'[p].role = port[p].role
      PROVE  [p \in Ports |-> SyncRole(port[p].role)]' = [p \in Ports |-> SyncRole(port[p].role)]
  BY <1>r
<1>1. CASE \/ \E p \in Ports, m \in Announces : BridgeAnnounce(p, m) \/ BridgeReuse(p, m)
           \/ \E p \in Ports : BridgeAble(p)
  <2>1. \/ \E q \in Ports, m \in Announces : ReceiveAnnounce(q, m) \/ ReuseRxBuffer(q, m)
        \/ \E q \in Ports : ChangeAble(q)
    BY <1>1, Zenon DEF BridgeAnnounce, BridgeReuse, BridgeAble
  <2>2. (\A p \in Ports : port'[p].role = port[p].role) /\ gmPriority' = gmPriority
    BY <2>1, FrameOutcome, VectorsAssumption DEF BridgeInv, Ports
  <2>3. UNCHANGED syncVars
    BY <1>1, Zenon DEF BridgeAnnounce, BridgeReuse, BridgeAble
  <2>. QED  BY <1>r, <2>2, <2>3 DEF Sync!vars, syncVars
<1>2. CASE \E p \in Ports, m \in Syncs : BridgeSync(p, m) \/ BridgeFollowUp(p, m)
  BY <1>2, <1>p, Zenon DEF BridgeSync, BridgeFollowUp, Sync!Next
<1>3. ASSUME NEW p \in Ports, NEW i \in SyncTicks[p], BridgeInterval(p, i)
      PROVE  Sync!Next
  <2>1. i \in Intervals
    BY DEF Intervals
  <2>. QED  BY <1>3, <1>p, <2>1, Zenon DEF BridgeInterval, Sync!Next
<1>4. CASE BridgeTick
  <2>1. alive /\ Tick /\ Sync!TransmitSyncs
    BY <1>4 DEF BridgeTick, TransmitSelected
  <2>2. CASE TickKeep
    <3>1. (\A p \in Ports : port'[p].role = port[p].role) /\ gmPriority' = gmPriority
      <4>1. \A p \in Ports : port'[p].role = Assigned(p).role
        BY <2>1, TickOutcome DEF BridgeInv
      <4>. QED  BY <2>2, <4>1 DEF TickKeep, Assigned
    <3>2. Sync!TickKeep
      BY <1>r, <2>1, <3>1 DEF Sync!TickKeep
    <3>. QED  BY <3>2 DEF Sync!Next, Sync!Tick
  <2>3. CASE TickReselect
    <3>1. PICK s \in Sync!Selections : Sync!Select(s)
      BY <2>3, SelectionIsConsistent DEF TickReselect
    <3>2. Sync!TickReselect(s)
      BY <2>1, <3>1 DEF Sync!TickReselect
    <3>. QED  BY <3>2 DEF Sync!Next, Sync!Tick
  <2>. QED  BY <2>1, <2>2, <2>3 DEF Tick
<1>5. CASE BridgeDeinit
  <2>1. alive /\ Deinit /\ Sync!RestartSyncs
    BY <1>5 DEF BridgeDeinit
  <2>2. CASE ReselectPending
    <3>1. \E s \in Sync!Selections : Sync!Select(s)
      BY <2>1, <2>2, SelectionIsConsistent DEF Deinit
    <3>. QED  BY <2>1, <3>1 DEF Sync!Next, Sync!Deinit
  <2>3. CASE ~ReselectPending
    <3>1. gmPriority' = AllOnes /\ \A p \in Ports : port'[p].role = "DISABLED"
      BY <2>1, <2>3, DeinitOutcome DEF BridgeInv, Deinit
    <3>2. gmPriority'.source = MaxSource
      BY <3>1 DEF AllOnes
    <3>3. [p \in Ports |-> SyncRole(port[p].role)]' = Sync!Disabled
      BY <1>p, <3>1 DEF Sync!Disabled, SyncRole
    <3>. QED  BY <2>1, <3>2, <3>3 DEF Sync!Next, Sync!Deinit
  <2>. QED  BY <2>2, <2>3
<1>6. CASE UNCHANGED bridgeVars
  BY <1>6 DEF bridgeVars, vars, syncVars, Sync!vars
<1>. QED  BY <1>1, <1>2, <1>3, <1>4, <1>5, <1>6 DEF BridgeNext

(* Every behaviour of the bridge is one of GptpSync: the roles and the      *)
(* grandmaster the sync handlers see change only with a tick or a restart,  *)
(* and only to a consistent selection.  What GptpSyncProofs shows of all    *)
(* consistent selections therefore holds of those the code makes.           *)
THEOREM BridgeImplementsSync == BridgeSpec => ImplementsSync
<1>1. BridgeInv /\ BridgeInv' /\ [BridgeNext]_bridgeVars => [Sync!Next]_(Sync!vars)
  BY SyncStep
<1>. QED  BY <1>1, SyncInitialised, BridgeInvariant, PTL DEF BridgeSpec, ImplementsSync

(***************************************************************************)
(* What GptpSyncProofs shows of every behaviour of GptpSync, said of the   *)
(* bridge.  The instance of the proofs has operators of its own, which are *)
(* those of Sync once expanded.                                            *)
(***************************************************************************)
SyncFacts == INSTANCE GptpSyncProofs WITH
               BootInterval <- BootTicks, Sources <- Neighbours, NoSource <- MaxSource, Messages <- Syncs,
               role <- [p \in Ports |-> SyncRole(port[p].role)],
               master <- gmPriority.source, port <- syncPort

LEMMA SyncAssumed == SyncFacts!SyncAssumption
<1>1. BootTicks \in Intervals
  <2>1. 0 \in Ports
    BY VectorsAssumption DEF Ports
  <2>. QED  BY <2>1, RolesAssumption DEF Intervals
<1>. QED
  BY <1>1, BridgeAssumption, VectorsAssumption DEF SyncFacts!MessageType, Neighbours

LEMMA SameInit == Sync!Init => SyncFacts!Init
  BY DEF SyncFacts!Init, Sync!Init, SyncFacts!Ports, Sync!Ports, SyncFacts!Disabled,
         Sync!Disabled, SyncFacts!BootPort, Sync!BootPort

LEMMA SameNext == [Sync!Next]_(Sync!vars) => [SyncFacts!Next]_(SyncFacts!vars)
  BY Zenon DEF
    SyncFacts!Next, Sync!Next, SyncFacts!vars, Sync!vars, SyncFacts!Ports, Sync!Ports,
    SyncFacts!Disabled, Sync!Disabled, SyncFacts!BootPort, Sync!BootPort,
    SyncFacts!ReceiveSync, Sync!ReceiveSync, SyncFacts!ReceiveFollowUp, Sync!ReceiveFollowUp,
    SyncFacts!SetInterval, Sync!SetInterval, SyncFacts!Tick, Sync!Tick, SyncFacts!TickKeep,
    Sync!TickKeep, SyncFacts!TickReselect, Sync!TickReselect, SyncFacts!Select, Sync!Select,
    SyncFacts!TransmitSyncs, Sync!TransmitSyncs, SyncFacts!Ticked, Sync!Ticked, SyncFacts!Sent,
    Sync!Sent, SyncFacts!Due, Sync!Due, SyncFacts!Sends, Sync!Sends, SyncFacts!AtMost,
    Sync!AtMost, SyncFacts!Selections, Sync!Selections, SyncFacts!Selection, Sync!Selection,
    SyncFacts!Consistent, Sync!Consistent, SyncFacts!PtpRoles, Sync!PtpRoles, SyncFacts!Deinit,
    Sync!Deinit, SyncFacts!RestartSyncs, Sync!RestartSyncs, SyncFacts!Restarted,
    Sync!Restarted, SyncFacts!Accepts, Sync!Accepts, SyncFacts!Respects, Sync!Respects,
    SyncFacts!UsedUp, Sync!UsedUp

LEMMA BridgeBehaves == BridgeSpec => SyncFacts!Behaviour
  BY BridgeImplementsSync, SameInit, SameNext, PTL DEF ImplementsSync, SyncFacts!Behaviour

(* The roles and the grandmaster are now those the best master clock        *)
(* algorithm selects from the announces.  Whatever it selects, a follow-up  *)
(* the bridge would accept belongs to the sync it took the time of, unless  *)
(* role or grandmaster changed since; no such time is used twice; and the   *)
(* bridge's own syncs keep their interval and their numbering.              *)
THEOREM BridgeSyncsInOrder ==
  BridgeSpec => /\ []Sync!MatchedWhileSteady /\ []Sync!SyncUsedOnce
                /\ []Sync!SyncPaced /\ Sync!MasterSequence
<1>a. SyncFacts!SyncAssumption
  BY SyncAssumed
<1>1. BridgeSpec => []Sync!MatchedWhileSteady
  <2>1. SyncFacts!MatchedWhileSteady => Sync!MatchedWhileSteady
    BY DEF SyncFacts!MatchedWhileSteady, Sync!MatchedWhileSteady, SyncFacts!Ports, Sync!Ports,
           SyncFacts!Accepts, Sync!Accepts, SyncFacts!Respects, Sync!Respects
  <2>2. SyncFacts!Behaviour => []SyncFacts!MatchedWhileSteady
    BY <1>a, SyncFacts!MatchedAlways
  <2>. QED  BY <2>1, <2>2, BridgeBehaves, PTL
<1>2. BridgeSpec => []Sync!SyncUsedOnce
  <2>1. SyncFacts!SyncUsedOnce => Sync!SyncUsedOnce
    BY DEF SyncFacts!SyncUsedOnce, Sync!SyncUsedOnce, SyncFacts!Ports, Sync!Ports,
           SyncFacts!Accepts, Sync!Accepts, SyncFacts!Respects, Sync!Respects
  <2>2. SyncFacts!Behaviour => []SyncFacts!SyncUsedOnce
    BY <1>a, SyncFacts!UsedOnceAlways
  <2>. QED  BY <2>1, <2>2, BridgeBehaves, PTL
<1>3. BridgeSpec => []Sync!SyncPaced
  <2>1. SyncFacts!SyncPaced => Sync!SyncPaced
    BY DEF SyncFacts!SyncPaced, Sync!SyncPaced, SyncFacts!Ports, Sync!Ports
  <2>2. SyncFacts!Behaviour => []SyncFacts!SyncPaced
    BY <1>a, SyncFacts!PacedAlways
  <2>. QED  BY <2>1, <2>2, BridgeBehaves, PTL
<1>4. BridgeSpec => Sync!MasterSequence
  <2>1. SyncFacts!MasterSequence => Sync!MasterSequence
    BY DEF SyncFacts!MasterSequence, Sync!MasterSequence, SyncFacts!Ports, Sync!Ports,
           SyncFacts!Restarted, Sync!Restarted, SyncFacts!vars, Sync!vars
  <2>2. SyncFacts!Behaviour => SyncFacts!MasterSequence
    BY <1>a, SyncFacts!NumberedAlways
  <2>. QED  BY <2>1, <2>2, BridgeBehaves, PTL
<1>. QED  BY <1>1, <1>2, <1>3, <1>4

=============================================================================
