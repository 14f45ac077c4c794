----------------------------- MODULE GptpBridge -----------------------------
(***************************************************************************)
(* The time-aware bridge (src/ptp): the best master clock algorithm of     *)
(* GptpRoles and the syncs and follow-ups of GptpSync over one set of port *)
(* records.  The selection writes selectedRole and gmPriority, the sync    *)
(* side reads them; one tick runs both, the selection first.               *)
(*                                                                         *)
(* GptpSync takes any selection it calls Consistent.  Here there is only   *)
(* the one the code makes, and ImplementsSync says that it is among those. *)
(***************************************************************************)
EXTENDS GptpRoles

CONSTANTS
  SeqModulus,    \* as in GptpSync
  MaxTicks,      \* bound of the tick counters: no interval is longer
  Syncs,         \* syncs that may arrive; their follow-ups look the same here
  NoSync

VARIABLES
  syncPort,      \* per port: the fields of vtss_gptp_port_vars_t that GptpSync uses
  alive,         \* the processor has not trapped
  taken, steady, since   \* auxiliary, as in GptpSync

syncVars   == <<syncPort, alive, taken, steady, since>>
bridgeVars == <<vars, syncVars>>

(* A neighbour is a clock that is neither this one nor all ones. *)
Neighbours == Sources \ {OwnSource, MaxSource}

(* What transmit_sync, process_rx_sync and process_rx_fup ask of a role. *)
SyncRole(r) == IF r \in {"MASTER", "SLAVE"} THEN r ELSE "OTHER"

(* GptpSync's intervals are those GptpRoles times its receipts by. *)
Intervals == UNION {SyncTicks[p] : p \in Ports}

Sync == INSTANCE GptpSync WITH
          BootInterval <- BootTicks, Sources <- Neighbours, NoSource <- MaxSource, Messages <- Syncs,
          role <- [p \in Ports |-> SyncRole(port[p].role)],
          master <- gmPriority.source, port <- syncPort

ASSUME BridgeAssumption ==
  /\ SeqModulus \in Nat \ {0} /\ MaxTicks \in Nat
  /\ Intervals \subseteq 0..MaxTicks
  /\ Syncs \subseteq [source : Neighbours, seq : 0..(SeqModulus - 1)]
  /\ NoSync \notin [source : Neighbours, seq : 0..(SeqModulus - 1)]
  /\ \A m \in Announces : m.source # MaxSource
  /\ RxBufferReused => \A m \in Announces : m.source # OwnSource

----------------------------------------------------------------------------
(* Frames, and what the peer delay side does. *)
BridgeAnnounce(p, m) == alive /\ ReceiveAnnounce(p, m) /\ UNCHANGED syncVars

BridgeReuse(p, m) == alive /\ ReuseRxBuffer(p, m) /\ UNCHANGED syncVars

BridgeAble(p) == alive /\ ChangeAble(p) /\ UNCHANGED syncVars

BridgeSync(p, m) == UNCHANGED vars /\ Sync!ReceiveSync(p, m)

BridgeFollowUp(p, f) == UNCHANGED vars /\ Sync!ReceiveFollowUp(p, f)

(* One field, currentLogSyncInterval, that both sides read. *)
BridgeInterval(p, i) == SetSyncInterval(p, i) /\ Sync!SetInterval(p, i)

(* Mutant: the syncs are sent before the roles are selected. *)
TransmitBeforeSelecting ==
  LET old == [p \in Ports |-> SyncRole(port[p].role)]
      new == [p \in Ports |-> SyncRole(port'[p].role)]
  IN  /\ syncPort' = [p \in Ports |-> Sync!Ticked(syncPort[p], old[p])]
      /\ since' = [p \in Ports |-> IF Sync!Sends(p, old) THEN 0
                                    ELSE Sync!AtMost(MaxTicks, since[p] + 1)]
      /\ steady' = [p \in Ports |-> /\ steady[p] /\ new[p] = old[p]
                                     /\ gmPriority'.source = gmPriority.source]
      /\ UNCHANGED <<alive, taken>>

(* vtss_gptp_tick: the selection and the announce information machines of   *)
(* GptpRoles, and syncs by the roles that were just selected.               *)
TransmitSelected == Sync!TransmitSyncs

BridgeTick == alive /\ Tick /\ TransmitSelected

(* vtss_gptp_deinit: gptp_sw_init over the fields of both. *)
BridgeDeinit == alive /\ Deinit /\ Sync!RestartSyncs

----------------------------------------------------------------------------
BridgeInit ==
  /\ Init
  /\ syncPort = [p \in Ports |-> Sync!BootPort]
  /\ alive = TRUE
  /\ taken = [p \in Ports |-> NoSync]
  /\ steady = [p \in Ports |-> TRUE]
  /\ since = [p \in Ports |-> 0]

BridgeNext ==
  \/ \E p \in Ports, m \in Announces : BridgeAnnounce(p, m) \/ BridgeReuse(p, m)
  \/ \E p \in Ports : BridgeAble(p)
  \/ \E p \in Ports, m \in Syncs : BridgeSync(p, m) \/ BridgeFollowUp(p, m)
  \/ \E p \in Ports : \E i \in SyncTicks[p] : BridgeInterval(p, i)
  \/ BridgeTick
  \/ BridgeDeinit

BridgeSpec == BridgeInit /\ [][BridgeNext]_bridgeVars

----------------------------------------------------------------------------
(***************************************************************************)
(* Properties.                                                             *)
(***************************************************************************)
(* The bridge is a GptpSync: whatever announces come, whatever ages or is   *)
(* disabled and whenever it restarts, the roles and the grandmaster that    *)
(* the sync handlers see change only with a tick or a restart, and only to  *)
(* a selection in which a slave port is alone and follows a neighbour.      *)
ImplementsSync == Sync!Init /\ [][Sync!Next]_(Sync!vars)

(* The clock has one source: at no time would follow-ups be accepted on two *)
(* ports, nor any while the bridge counts itself as the grandmaster or is   *)
(* without a selection, although the flags a follow-up is checked against   *)
(* outlive every change of role; and unless a selection is pending on the   *)
(* port, the follow-up is from the clock whose announce the port holds.     *)
OneTimeSource ==
  \A p \in Ports, f \in Syncs : Sync!Accepts(p, f) =>
    /\ gm = p /\ ~grandMaster
    /\ port[p].reselect \/ f.source = port[p].portPriority.source
    /\ \A q \in Ports \ {p}, g \in Syncs : ~Sync!Accepts(q, g)

=============================================================================
