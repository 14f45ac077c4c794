----------------------------- MODULE GptpRoles -----------------------------
(***************************************************************************)
(* The best master clock algorithm of one time-aware bridge (src/ptp):     *)
(* announce reception, the PortAnnounceInformation state machine of every  *)
(* port, the PortRoleSelection state machine of the bridge, and the tick   *)
(* that runs them.                                                         *)
(*                                                                         *)
(* The code runs on one cooperative thread: the OS calls vtss_gptp_receive *)
(* for a frame and vtss_gptp_tick once a second, each to completion, so    *)
(* each call is one action and the order of the calls is arbitrary.  What  *)
(* passes between calls is in `port' and the system variables below.       *)
(***************************************************************************)
EXTENDS PriorityVectors, Integers

CONSTANTS
  Announces,               \* announce messages the neighbours may send
  NoAnnounce,              \* rcvdMsg = FALSE
  MaxQualifiedSteps,       \* 255: the largest stepsRemoved that qualifies
  AnnounceReceiptTimeout,  \* per port, in announce intervals
  SyncReceiptTimeout,      \* per port, in sync intervals
  SyncTicks,               \* per port: the sync intervals, in ticks, that may be set
  BootTicks,               \* 2^3: the interval until one is set
  RxBufferReused           \* may the driver reuse a frame buffer before the tick reads it?

VARIABLES
  port,                \* per port: the fields of vtss_gptp_port_vars_t that BMCA uses
  syncTicks,           \* per port: SYNC_INTERVAL_TICKS, from currentLogSyncInterval
  gm,                  \* what the pointer gptpm.gmPriority points to
  gmPriority,          \* the vector it points to
  gmPresent,           \* gptpm.gmPresent
  masterStepsRemoved,  \* gptpm.masterStepsRemoved
  grandMaster,         \* gptpm.grand_master
  pathTrace,           \* gptpm.pathTrace, as the set of its clocks
  newMaster,           \* gptpm.newMaster
  reported             \* gptpm.new_master: what the last grandmaster change event carried

vars == <<port, syncTicks, gm, gmPriority, gmPresent, masterStepsRemoved, grandMaster,
          pathTrace, newMaster, reported>>

systemVars == <<gm, gmPriority, gmPresent, masterStepsRemoved, grandMaster,
                pathTrace, newMaster, reported>>

System == -1    \* gmPriority = &systemPriority
LastGm == -2    \* gmPriority = &lastGmPriority, which is all ones then

AnnounceType ==
  [root : Roots, steps : Steps, source : Sources, pathTrace : SUBSET Sources]

ASSUME RolesAssumption ==
  /\ Announces \subseteq AnnounceType
  /\ NoAnnounce \notin AnnounceType
  /\ MaxQualifiedSteps \in Nat
  /\ AnnounceReceiptTimeout \in [Ports -> Nat]
  /\ SyncReceiptTimeout \in [Ports -> Nat]
  /\ SyncTicks \in [Ports -> SUBSET Nat]
  /\ BootTicks \in Nat \ {0} /\ \A p \in Ports : BootTicks \in SyncTicks[p]
  /\ RxBufferReused \in BOOLEAN

States   == {"BEGIN", "DISABLED", "AGED", "CURRENT"}  \* where a run of the machine stops
InfoIs   == {"Disabled", "Received", "Aged", "Mine"}
PtpRoles == {"DISABLED", "MASTER", "SLAVE", "PASSIVE"}

PortType ==
  [ state            : States,              \* portAnnounceInformation_State
    able             : BOOLEAN,             \* portEnabled && pttPortEnabled && asCapable
    infoIs           : InfoIs,
    role             : PtpRoles,            \* selectedRole
    portPriority     : Vectors,
    portStepsRemoved : Steps,
    messageSteps     : Steps,               \* messagePriority.stepsRemoved
    rcvd             : Announces \cup {NoAnnounce},  \* *rcvdAnnouncePtr while rcvdMsg
    reselect         : BOOLEAN,
    selected         : BOOLEAN,
    updtInfo         : BOOLEAN ]

(* The states and values each variable ranges over. *)
TypeOK ==
  /\ port \in [Ports -> PortType]
  /\ syncTicks \in [Ports -> Nat] /\ \A p \in Ports : syncTicks[p] \in SyncTicks[p]
  /\ gm \in Ports \cup {System, LastGm}
  /\ gmPriority \in Vectors
  /\ gmPresent \in BOOLEAN
  /\ masterStepsRemoved \in Steps
  /\ grandMaster \in BOOLEAN
  /\ pathTrace \in SUBSET Sources
  /\ newMaster \in BOOLEAN
  /\ reported \in [root : Roots, steps : Steps]

----------------------------------------------------------------------------
(***************************************************************************)
(* Receipt timeouts.  Both counters are only ever reset (in the entry      *)
(* actions, in updtRolesTree and in gptp_sw_init), so they stay zero: a    *)
(* timeout has expired exactly when it is zero itself.  An announce        *)
(* interval is always one tick.  A sync interval is what the link delay    *)
(* machine set last; it is 0 ticks when the logarithm is negative or too   *)
(* large, since the shift then leaves no bit of the 1.                     *)
(***************************************************************************)
announceTimeoutCounter == 0
syncTimeoutCounter == 0

announceTimeout(p) == announceTimeoutCounter >= AnnounceReceiptTimeout[p]
syncTimeout(p, ticks) == syncTimeoutCounter >= ticks * SyncReceiptTimeout[p] * 2

----------------------------------------------------------------------------
(***************************************************************************)
(* PortAnnounceInformation, one run to quiescence of its do-while loop.    *)
(* UPDATE, RECEIVE, SUPERIOR, REPEATED and INFERIOR fall through to        *)
(* CURRENT within the run, so only the states it stops in are kept.        *)
(***************************************************************************)
EnterDisabled(r) ==
  [r EXCEPT !.state = "DISABLED", !.rcvd = NoAnnounce, !.infoIs = "Disabled",
            !.reselect = TRUE, !.selected = FALSE, !.portPriority = AllOnes]

(* Mutant: an aged port does not ask for a new selection. *)
EnterAgedSilently(r) ==
  [r EXCEPT !.state = "AGED", !.infoIs = "Aged", !.selected = FALSE]

EnterAged(r) ==
  [r EXCEPT !.state = "AGED", !.infoIs = "Aged", !.reselect = TRUE, !.selected = FALSE]

(* Mutant: the disabled entry actions run on every tick. *)
DisableAlways(r) == EnterDisabled(r)

(* A port that stops being able is disabled once; the entry is not repeated. *)
Disable(r) == IF r.state = "DISABLED" THEN r ELSE EnterDisabled(r)

(* UPDATE: the port takes over the vector it announces as master. *)
UpdateIfSelected(r, p, v, steps) ==
  IF r.selected /\ r.updtInfo
    THEN [r EXCEPT !.state = "CURRENT", !.infoIs = "Mine", !.updtInfo = FALSE,
                   !.portPriority = MasterPriority(v, p), !.portStepsRemoved = steps]
    ELSE r

(* Mutant: a superior announce is stored without asking for a selection. *)
EnterSuperiorSilently(r, message) ==
  [r EXCEPT !.portPriority = message, !.infoIs = "Received"]

(* SUPERIOR_MASTER_PORT *)
EnterSuperior(r, message) ==
  [r EXCEPT !.portPriority = message, !.infoIs = "Received",
            !.reselect = TRUE, !.selected = FALSE]

(* Mutant: any announce that differs from the stored vector replaces it. *)
DifferentMasterInfo(message, r) == message # r.portPriority

(* rcvInfo; repeated and inferior information is treated alike: forgotten. *)
SuperiorMasterInfo(message, r) == Better(message, r.portPriority)

(* RECEIVE, then SUPERIOR, REPEATED or INFERIOR by rcvInfo's comparison. *)
ReceiveIfPending(r, p) ==
  IF r.state = "CURRENT" /\ r.rcvd # NoAnnounce /\ ~r.updtInfo
    THEN LET message == MessagePriority(r.rcvd, p)
             heard   == [r EXCEPT !.messageSteps = message.steps, !.rcvd = NoAnnounce]
         IN  IF SuperiorMasterInfo(message, r) THEN EnterSuperior(heard, message) ELSE heard
    ELSE r

AgeIfSilent(r, p, present) ==
  IF /\ r.state = "CURRENT" /\ r.infoIs = "Received"
     /\ announceTimeout(p) \/ (syncTimeout(p, syncTicks[p]) /\ present)
     /\ ~r.updtInfo /\ r.rcvd = NoAnnounce
    THEN EnterAged(r)
    ELSE r

Settle(r, p, v, steps, present) ==
  IF ~r.able THEN Disable(r)
  ELSE IF r.state \in {"BEGIN", "DISABLED"} THEN EnterAged(Disable(r))
  ELSE AgeIfSilent(ReceiveIfPending(UpdateIfSelected(r, p, v, steps), p), p, present)

----------------------------------------------------------------------------
(***************************************************************************)
(* PortRoleSelection.                                                      *)
(***************************************************************************)
ReselectPending == \E p \in Ports : port[p].reselect

(* Mutant: a path is computed whether or not its information timed out. *)
PathWithoutTimeout(p) == OneHopFurther(port[p].portPriority)

(* The loop's gmPresent is the value of the previous selection; a restart   *)
(* selects after it has set the intervals anew.                             *)
gmPathPriority(p) ==
  IF ~announceTimeout(p) /\ (~gmPresent \/ ~syncTimeout(p, syncTicks'[p]))
    THEN OneHopFurther(port[p].portPriority)
    ELSE AllOnes

(* A path is excluded by the clockIdentity of its root, not of its source. *)
Candidates ==
  {p \in Ports : /\ gmPathPriority(p).root \notin SelfRoots
                 /\ Better(gmPathPriority(p), SystemPriority)}

(* The first of the best candidates: a later one must be strictly better. *)
FirstOfBest(p) ==
  /\ p \in Candidates
  /\ \A q \in Candidates :
       \/ Better(gmPathPriority(p), gmPathPriority(q))
       \/ gmPathPriority(p) = gmPathPriority(q) /\ p <= q

SelectGm == IF Candidates = {} THEN System ELSE CHOOSE p \in Ports : FirstOfBest(p)

VectorOf(g) == IF g = System THEN SystemPriority ELSE gmPathPriority(g)

(* From the last message heard on the port, whatever became of it. *)
StepsOf(g) == IF g = System THEN 0 ELSE NextStep(port[g].messageSteps)

(* Mutant: every port that hears the grandmaster becomes slave. *)
SlaveByRoot(r, p, g, v) ==
  CASE r.infoIs = "Disabled" -> "DISABLED"
    [] r.infoIs \in {"Aged", "Mine"} -> "MASTER"
    [] r.infoIs = "Received" -> IF r.portPriority.root = v.root THEN "SLAVE" ELSE "PASSIVE"

AssignedRole(r, p, g, v) ==
  CASE r.infoIs = "Disabled" -> "DISABLED"
    [] r.infoIs \in {"Aged", "Mine"} -> "MASTER"
    [] r.infoIs = "Received" /\ g = p -> "SLAVE"
    [] r.infoIs = "Received" /\ g # p /\ Better(MasterPriority(v, p), r.portPriority) -> "MASTER"
    [] r.infoIs = "Received" /\ g # p /\ ~Better(MasterPriority(v, p), r.portPriority) -> "PASSIVE"

(* Mutant: the steps a master port stored are not compared. *)
OutdatedVector(r, p, v, steps) == r.portPriority # MasterPriority(v, p)

Outdated(r, p, v, steps) ==
  r.portStepsRemoved # steps \/ r.portPriority # MasterPriority(v, p)

(* updtInfo: a master port whose stored vector is not the one to announce. *)
MustUpdate(r, p, g, v, steps) ==
  CASE r.infoIs = "Disabled" -> r.updtInfo
    [] r.infoIs = "Aged" -> TRUE
    [] r.infoIs = "Mine" -> r.updtInfo \/ Outdated(r, p, v, steps)
    [] r.infoIs = "Received" -> AssignedRole(r, p, g, v) = "MASTER"

(* clearReselectTree, the role loop of updtRolesTree, setSelectedTree *)
AssignRole(r, p, g, v, steps) ==
  [r EXCEPT !.role = AssignedRole(r, p, g, v), !.updtInfo = MustUpdate(r, p, g, v, steps),
            !.reselect = FALSE, !.selected = TRUE]

(* updtRolesTree's system variables, all but the path trace *)
updtRolesTree ==
  /\ gm' = SelectGm
  /\ gmPriority' = VectorOf(gm')
  /\ masterStepsRemoved' = StepsOf(gm')
  /\ gmPresent' = (gmPriority'.root \notin NoGmRoots)
  /\ grandMaster' = (gm' = System)

(* Mutant: pointers are compared instead of vectors. *)
GmPointerChanged == gm' # gm

(* lastGmPriority is the vector the pointer showed before the selection. *)
GmChanged == gmPriority' # gmPriority

----------------------------------------------------------------------------
(* gptp_sw_init on zeroed memory: INIT_BRIDGE, and no port asks to reselect. *)
BootPort ==
  [ state |-> "BEGIN", able |-> TRUE, infoIs |-> "Disabled", role |-> "DISABLED",
    portPriority |-> ZeroVector, portStepsRemoved |-> 0, messageSteps |-> 0,
    rcvd |-> NoAnnounce, reselect |-> FALSE, selected |-> FALSE, updtInfo |-> FALSE ]

Init ==
  /\ port = [p \in Ports |-> BootPort]
  /\ syncTicks = [p \in Ports |-> BootTicks]
  /\ gm = LastGm /\ gmPriority = AllOnes
  /\ gmPresent = FALSE /\ masterStepsRemoved = 0 /\ grandMaster = FALSE
  /\ pathTrace = {OwnSource}
  /\ newMaster = TRUE
  /\ reported = [root |-> 0, steps |-> 0]

(* Mutant: stepsRemoved is not limited. *)
QualifiedAtAnyDistance(m) == m.source # OwnSource /\ OwnSource \notin m.pathTrace

(* qualifyAnnounce, for paths that GPTP_MAX_PATH_TRACE entries hold: of a   *)
(* longer one the loop and the copy would go by the length in the frame.    *)
Qualified(m) ==
  /\ m.source # OwnSource
  /\ m.steps <= MaxQualifiedSteps
  /\ OwnSource \notin m.pathTrace

(* Mutant: the path trace is taken over whatever the port's role. *)
TraceOfAnyPort(p, m) == m.pathTrace

(* Only a slave port's announces carry the path of the grandmaster. *)
TraceAfter(p, m) == IF port[p].role = "SLAVE" THEN m.pathTrace ELSE pathTrace

(* An announce for port p: it replaces the one the tick has not read yet,   *)
(* and a disqualified one cancels it.                                       *)
ReceiveAnnounce(p, m) ==
  LET accepted == port[p].able /\ Qualified(m)
  IN  /\ port' = [port EXCEPT ![p].rcvd = IF accepted THEN m ELSE NoAnnounce]
      /\ pathTrace' = IF accepted THEN TraceAfter(p, m) ELSE pathTrace
      /\ UNCHANGED <<syncTicks, gm, gmPriority, gmPresent, masterStepsRemoved, grandMaster,
                     newMaster, reported>>

(* rcvdAnnouncePtr still points into a receive buffer the driver refills.   *)
ReuseRxBuffer(p, m) ==
  /\ RxBufferReused
  /\ port[p].rcvd # NoAnnounce
  /\ port' = [port EXCEPT ![p].rcvd = m]
  /\ UNCHANGED <<syncTicks, systemVars>>

(* The link delay machine and the pdelay handlers change asCapable and      *)
(* portEnabled of a port.                                                   *)
ChangeAble(p) ==
  /\ port' = [port EXCEPT ![p].able = ~@]
  /\ UNCHANGED <<syncTicks, systemVars>>

(* LinkDelaySyncIntervalSetting: the configured interval at its first run,  *)
(* in a tick that does not read it any more, or the one a message signals.  *)
(* No port is asked to reselect.                                            *)
SetSyncInterval(p, ticks) ==
  /\ syncTicks' = [syncTicks EXCEPT ![p] = ticks]
  /\ UNCHANGED <<port, systemVars>>

(* vtss_gptp_tick: select roles if a port asks for it, run every port's     *)
(* announce information machine, report a change of grandmaster.            *)
TickReselect ==
  /\ ReselectPending
  /\ UNCHANGED syncTicks
  /\ updtRolesTree
  /\ pathTrace' = IF gm' = System THEN {OwnSource} ELSE pathTrace
  /\ port' = [p \in Ports |->
                Settle(AssignRole(port[p], p, gm', gmPriority', masterStepsRemoved'),
                       p, gmPriority', masterStepsRemoved', gmPresent')]
  /\ newMaster' = FALSE
  /\ reported' = IF newMaster \/ GmChanged
                   THEN [root |-> gmPriority'.root, steps |-> masterStepsRemoved']
                   ELSE reported

TickKeep ==
  /\ ~ReselectPending
  /\ port' = [p \in Ports |->
                Settle(port[p], p, gmPriority, masterStepsRemoved, gmPresent)]
  /\ newMaster' = FALSE
  /\ reported' = IF newMaster
                   THEN [root |-> gmPriority.root, steps |-> masterStepsRemoved]
                   ELSE reported
  /\ UNCHANGED <<syncTicks, gm, gmPriority, gmPresent, masterStepsRemoved, grandMaster,
                 pathTrace>>

Tick == TickReselect \/ TickKeep

(* vtss_gptp_deinit: gptp_sw_init over the state the ports are in.  Their   *)
(* announce information is not cleared, and a port that asked to reselect   *)
(* makes the selection run on it at once.                                   *)
RestartedPort(r) == [r EXCEPT !.state = "BEGIN", !.able = TRUE, !.role = "DISABLED"]

Deinit ==
  /\ syncTicks' = [p \in Ports |-> BootTicks]
  /\ pathTrace' = {OwnSource}
  /\ newMaster' = TRUE
  /\ UNCHANGED reported
  /\ \/ /\ ReselectPending
        /\ updtRolesTree
        /\ port' = [p \in Ports |-> AssignRole(RestartedPort(port[p]), p, gm', gmPriority',
                                               masterStepsRemoved')]
     \/ /\ ~ReselectPending
        /\ gm' = LastGm
        /\ gmPriority' = AllOnes
        /\ port' = [p \in Ports |-> RestartedPort(port[p])]
        /\ UNCHANGED <<gmPresent, masterStepsRemoved, grandMaster>>

Next ==
  \/ \E p \in Ports, m \in Announces : ReceiveAnnounce(p, m)
  \/ \E p \in Ports, m \in Announces : ReuseRxBuffer(p, m)
  \/ \E p \in Ports : ChangeAble(p)
  \/ \E p \in Ports : \E ticks \in SyncTicks[p] : SetSyncInterval(p, ticks)
  \/ Tick
  \/ Deinit

(* vtss_gptp.h: vtss_gptp_tick "Must be called from OS once every second". *)
Spec == Init /\ [][Next]_vars /\ WF_vars(Tick)

----------------------------------------------------------------------------
(***************************************************************************)
(* Properties.                                                             *)
(***************************************************************************)
(* The grandmaster is the system itself or another, never both: a slave     *)
(* port is the one gmPriority points to, the bridge does not then claim to  *)
(* be grandmaster, and what the port knows is either still the received     *)
(* information it was chosen for or about to be selected on again.  Sync    *)
(* forwarding (process_rx_sync, transmit_sync) relies on all three.         *)
SlaveFollowsGm ==
  \A p \in Ports : port[p].role = "SLAVE" =>
    /\ gm = p
    /\ ~grandMaster
    /\ port[p].infoIs = "Received" \/ port[p].reselect
    /\ ~port[p].updtInfo

(* A bridge that takes itself for the grandmaster announces itself: its own *)
(* path trace, no steps removed, and it follows nobody, although announces  *)
(* keep arriving that overwrite the trace of a slave.                       *)
GrandmasterAlone ==
  gm = System =>
    /\ grandMaster
    /\ pathTrace = {OwnSource}
    /\ masterStepsRemoved = 0
    /\ \A p \in Ports : port[p].role # "SLAVE"

(* The vector a master port defends against its neighbours is the one its   *)
(* announces carry: transmit_announce sends gmPriority and                  *)
(* masterStepsRemoved, rcvInfo compares with portPriority.                  *)
MasterDefendsWhatItAnnounces ==
  \A p \in Ports : port[p].state = "CURRENT" /\ port[p].infoIs = "Mine" =>
    /\ port[p].portPriority = MasterPriority(gmPriority, p)
    /\ port[p].portStepsRemoved = masterStepsRemoved

(* Nothing a port has received is better than the grandmaster, unless a     *)
(* selection is pending: no information is lost between the announce        *)
(* information machines, which store it, and the selection that reads it    *)
(* one tick later.  (Of ports whose interval may become 0 ticks nothing is  *)
(* said: their path expires and revives without a request to select.)       *)
BestPathSelected ==
  ~ReselectPending =>
    \A p \in Ports :
      /\ port[p].state = "CURRENT" /\ port[p].infoIs = "Received"
      /\ AnnounceReceiptTimeout[p] > 0 /\ SyncReceiptTimeout[p] > 0 /\ 0 \notin SyncTicks[p]
      /\ port[p].portPriority.root \notin SelfRoots
      => ~Better(OneHopFurther(port[p].portPriority), gmPriority)

(* What a port holds as received came in an announce that qualified, even   *)
(* though the message is only read a tick after it was checked.             *)
ReceivedWasQualified ==
  \A p \in Ports : port[p].state = "CURRENT" /\ port[p].infoIs = "Received" =>
    /\ port[p].portPriority.source # OwnSource
    /\ port[p].portPriority.steps <= MaxQualifiedSteps
    /\ port[p].portPriority.portNumber = p + 1

(* The servo and the application are told of every new grandmaster          *)
(* (ptp_events_tx_gm_change), whatever selections happened in between.      *)
GmChangeReported == newMaster \/ reported.root = gmPriority.root

(* A port never replaces received information by worse information: it has  *)
(* to be disabled, to age or to become master in between.                   *)
ReceivedNeverWorsens ==
  [][\A p \in Ports :
       port[p].infoIs = "Received" /\ port'[p].infoIs = "Received" =>
         ~Better(port[p].portPriority, port'[p].portPriority)]_vars

(* A port whose receipt timeout is zero, as before any configuration, is    *)
(* never followed, however good the announces it receives: its path counts  *)
(* as expired in the selection that would choose it.                        *)
UnconfiguredNotFollowed ==
  \A p \in Ports : AnnounceReceiptTimeout[p] = 0 => gm # p

(* A tick that has something to do gets something done: no request for a    *)
(* selection is raised again by what serves it, no message is read again.   *)
Unsettled ==
  \/ newMaster \/ ReselectPending
  \/ \E p \in Ports :
       Settle(port[p], p, gmPriority, masterStepsRemoved, gmPresent) # port[p]

TickMoves == Unsettled => ENABLED <<Tick>>_vars

(* A port whose information aged gives up its old role: it takes over as    *)
(* master or is disabled.  The reselect request it raised is neither lost   *)
(* nor served while it still counts as received.                            *)
AgedPortTakesOver ==
  \A p \in Ports : (port[p].infoIs = "Aged") ~> (port[p].role \in {"MASTER", "DISABLED"})

(* Once frames stop, the machines come to rest: no port keeps asking for a  *)
(* selection and no able port leaves a received announce unread.  (A port   *)
(* disabled before the tick keeps one: see the hazards in the README.)      *)
AtRest ==
  \A p \in Ports : ~port[p].reselect /\ (port[p].able => port[p].rcvd = NoAnnounce)
ComesToRest == <>[][Tick]_vars => <>[]AtRest

(* 802.1AS-2011, 10.3.12.1.4 b), has gmPriority chosen among systemPriority *)
(* and the paths of the ports "for which the clockIdentity of the master    *)
(* port is not equal to thisClock".  updtRolesTree compares the root's      *)
(* clockIdentity instead, so that a vector this system announces itself, as *)
(* a port that is master holds it, can be selected as somebody else's.      *)
GmAnnouncedByAnother == gm \in Ports => gmPriority.source # OwnSource

(* vtss_gptp_private.h:390 calls announceTimeoutCounter "Ticks since last   *)
(* received announce": a port that hears no announce would have to time     *)
(* its grandmaster out.  The counter is incremented nowhere, so it does not.*)
SilentGrandmasterTimesOut ==
  \A p \in Ports :
    (port[p].infoIs = "Received") ~> (port[p].infoIs # "Received" \/ port[p].rcvd # NoAnnounce)

=============================================================================
