------------------------------ MODULE GptpSync ------------------------------
(***************************************************************************)
(* Synchronisation (src/ptp): the sync and follow-up receive handlers of a *)
(* slave port and the syncs a master port sends from the tick.  Both use   *)
(* one field, syncSequenceId.                                              *)
(*                                                                         *)
(* Roles and grandmaster come from GptpRoles: a tick and a restart may     *)
(* assign any that Consistent allows.  What the clock does with an         *)
(* accepted pair of messages is GptpServo; what the syncs carry besides    *)
(* their number is left out.                                               *)
(***************************************************************************)
EXTENDS Integers

CONSTANTS
  NumPorts,      \* gptpm.numPorts
  Sources,       \* the port identities of neighbours
  OwnSource,     \* the identity of this system
  NoSource,      \* an identity nobody has: all ones, before the first selection
  SeqModulus,    \* 2^16: syncSequenceId wraps
  Intervals,     \* sync intervals in ticks that may be configured or signalled
  MaxTicks,      \* bound of the tick counters: no interval is longer
  BootInterval,  \* 2^3 ticks, until the link delay machine runs
  Messages,      \* syncs that may arrive; their follow-ups look the same here
  NoSync

VARIABLES
  role,          \* per port: selectedRole
  master,        \* gmPriority->sourcePortIdentity
  port,          \* per port: the fields of vtss_gptp_port_vars_t that are used here
  alive,         \* the processor has not trapped
  taken,         \* auxiliary: the sync whose receive time syncRxTimestampTemp is, unless used
  steady,        \* auxiliary: role and master are the ones under which it was taken
  since          \* auxiliary: ticks since the last sync sent on the port

vars == <<role, master, port, alive, taken, steady, since>>

Ports    == 0..(NumPorts - 1)
PtpRoles == {"MASTER", "SLAVE", "OTHER"}    \* disabled or passive

MessageType == [source : Sources, seq : 0..(SeqModulus - 1)]

ASSUME SyncAssumption ==
  /\ NumPorts \in Nat \ {0} /\ SeqModulus \in Nat \ {0}
  /\ MaxTicks \in Nat /\ Intervals \subseteq 0..MaxTicks
  /\ BootInterval \in Intervals
  /\ Messages \subseteq MessageType /\ NoSync \notin MessageType
  /\ OwnSource \notin Sources /\ NoSource \notin Sources \cup {OwnSource}

AtMost(limit, n) == IF n <= limit THEN n ELSE limit

PortType ==
  [ seq      : 0..(SeqModulus - 1),  \* syncSequenceId
    valid    : BOOLEAN,              \* syncSequenceIdValid
    waiting  : BOOLEAN,              \* waiting_for_fup
    counter  : 0..MaxTicks,          \* syncCounter
    interval : Intervals ]           \* SYNC_INTERVAL_TICKS, from currentLogSyncInterval

Selection == [role : [Ports -> PtpRoles], master : Sources \cup {OwnSource}]

(* SlaveFollowsGm of GptpRoles: a slave port follows a neighbour and is the *)
(* only one.                                                                *)
Consistent(s) ==
  \A p \in Ports : s.role[p] = "SLAVE" =>
    s.master \in Sources /\ \A q \in Ports \ {p} : s.role[q] # "SLAVE"

Selections == {s \in Selection : Consistent(s)}

(* The states and values each variable ranges over. *)
TypeOK ==
  /\ role \in [Ports -> PtpRoles]
  /\ master \in Sources \cup {OwnSource, NoSource}
  /\ port \in [Ports -> PortType]
  /\ alive \in BOOLEAN
  /\ taken \in [Ports -> Messages \cup {NoSync}]
  /\ steady \in [Ports -> BOOLEAN]
  /\ since \in [Ports -> 0..MaxTicks]

----------------------------------------------------------------------------
(* Reception.                                                              *)

(* Mutant: a sync is taken whatever the port's role. *)
RespectsInAnyRole(p, m) == m.source = master

(* process_rx_sync: from the master, on a slave port *)
Respects(p, m) == role[p] = "SLAVE" /\ m.source = master

ReceiveSync(p, m) ==
  /\ alive /\ Respects(p, m)
  /\ port' = [port EXCEPT ![p].seq = m.seq, ![p].valid = TRUE, ![p].waiting = TRUE]
  /\ taken' = [taken EXCEPT ![p] = m]
  /\ steady' = [steady EXCEPT ![p] = TRUE]
  /\ UNCHANGED <<role, master, alive, since>>

(* Mutant: a follow-up is accepted whatever its sequence number. *)
AcceptsAnySequence(p, f) ==
  Respects(p, f) /\ port[p].valid /\ port[p].waiting

(* process_rx_fup's condition *)
Accepts(p, f) ==
  /\ Respects(p, f)
  /\ port[p].valid /\ port[p].seq = f.seq
  /\ port[p].waiting

(* Mutant: an accepted follow-up leaves the sync to be followed up again. *)
NotUsedUp(r) == r

(* "used up" *)
UsedUp(r) == [r EXCEPT !.waiting = FALSE, !.valid = FALSE]

(* The loop that would send syncs goes through current_sm, which is NULL    *)
(* outside the tick: the processor traps, or finds no master port there.    *)
(* It may also trap before, on a rate ratio of zero that is divided by.     *)
ReceiveFollowUp(p, f) ==
  /\ alive /\ Accepts(p, f)
  /\ port' = [port EXCEPT ![p] = UsedUp(@)]
  /\ taken' = [taken EXCEPT ![p] = NoSync]
  /\ alive' \in BOOLEAN
  /\ UNCHANGED <<role, master, steady, since>>

(* LinkDelaySyncIntervalSetting, at its first run or by a signal *)
SetInterval(p, i) ==
  /\ alive
  /\ port' = [port EXCEPT ![p].interval = i]
  /\ UNCHANGED <<role, master, alive, taken, steady, since>>

----------------------------------------------------------------------------
(* The tick: a selection if one is pending, then syncs on master ports.    *)
Due(r) == r.counter + 1 >= r.interval

(* Mutant: the number of a sync does not wrap. *)
SentUnwrapped(r) == [r EXCEPT !.counter = 0, !.seq = @ + 1]

(* Mutant: the counter runs on after a sync. *)
SentWithoutReset(r) == [r EXCEPT !.seq = (@ + 1) % SeqModulus]

(* transmit_sync *)
Sent(r) == [r EXCEPT !.counter = 0, !.seq = (@ + 1) % SeqModulus]

(* Mutant: a tick that sends nothing is not counted. *)
TickedUncounted(r, newRole) == IF newRole = "MASTER" /\ Due(r) THEN Sent(r) ELSE r

Ticked(r, newRole) ==
  CASE newRole # "MASTER"           -> r
    [] newRole = "MASTER" /\ Due(r)  -> Sent(r)
    [] newRole = "MASTER" /\ ~Due(r) -> [r EXCEPT !.counter = AtMost(MaxTicks, @ + 1)]

Sends(p, newRole) == newRole[p] = "MASTER" /\ Due(port[p])

Select(s) ==
  master' = s.master /\ role' = s.role

TransmitSyncs ==
  /\ port' = [p \in Ports |-> Ticked(port[p], role'[p])]
  /\ steady' = [p \in Ports |-> steady[p] /\ role'[p] = role[p] /\ master' = master]
  /\ since' = [p \in Ports |-> IF Sends(p, role') THEN 0 ELSE AtMost(MaxTicks, since[p] + 1)]
  /\ UNCHANGED <<alive, taken>>

TickReselect(s) == alive /\ Select(s) /\ TransmitSyncs

TickKeep == alive /\ UNCHANGED <<role, master>> /\ TransmitSyncs

Tick == TickKeep \/ \E s \in Selections : TickReselect(s)

----------------------------------------------------------------------------
(* vtss_gptp_deinit: gptp_sw_init over the records; waiting_for_fup stays.  *)
Restarted(r) ==
  [r EXCEPT !.seq = 0, !.valid = FALSE, !.counter = 0, !.interval = BootInterval]

Disabled == [p \in Ports |-> "OTHER"]

RestartSyncs ==
  /\ port' = [p \in Ports |-> Restarted(port[p])]
  /\ taken' = [p \in Ports |-> NoSync]
  /\ steady' = [p \in Ports |-> TRUE]
  /\ UNCHANGED <<alive, since>>

(* Without a pending reselect request no role is assigned. *)
Deinit ==
  /\ alive
  /\ \/ role' = Disabled /\ master' = NoSource
     \/ \E s \in Selections : Select(s)
  /\ RestartSyncs

BootPort == [seq |-> 0, valid |-> FALSE, waiting |-> FALSE, counter |-> 0,
             interval |-> BootInterval]

Init ==
  /\ role = Disabled /\ master = NoSource
  /\ port = [p \in Ports |-> BootPort]
  /\ alive = TRUE
  /\ taken = [p \in Ports |-> NoSync]
  /\ steady = [p \in Ports |-> TRUE]
  /\ since = [p \in Ports |-> 0]

Next ==
  \/ \E p \in Ports, m \in Messages : ReceiveSync(p, m) \/ ReceiveFollowUp(p, m)
  \/ \E p \in Ports, i \in Intervals : SetInterval(p, i)
  \/ Tick
  \/ Deinit

(* The OS calls the tick once a second as long as the processor runs. *)
Spec == Init /\ [][Next]_vars /\ WF_vars(Tick)

----------------------------------------------------------------------------
(***************************************************************************)
(* Properties.                                                             *)
(***************************************************************************)
(* Whatever was lost, doubled, reordered or sent by others, a follow-up     *)
(* that would be accepted now belongs to the sync whose receive time it     *)
(* completes, as long as role and master have not changed in between.       *)
MatchedWhileSteady ==
  \A p \in Ports, f \in Messages : Accepts(p, f) /\ steady[p] => taken[p] = f

(* The receive time of a sync enters the clock once: after that no          *)
(* follow-up is accepted before another sync, on whichever port, in         *)
(* whichever role it was in between.                                        *)
SyncUsedOnce ==
  \A p \in Ports, f \in Messages : Accepts(p, f) => taken[p] # NoSync

(* While a port stays master its syncs are numbered without a gap and       *)
(* without a repeat, although syncs arrive that use the same field: the     *)
(* number advances by one, with every sync and at no other time.            *)
MasterSequence ==
  [][\A p \in Ports : role[p] = "MASTER" /\ role'[p] = "MASTER" =>
       \/ port'[p].seq = port[p].seq /\ since'[p] >= since[p]
       \/ port'[p].seq = (port[p].seq + 1) % SeqModulus /\ since'[p] = 0
       \/ port'[p] = Restarted(port[p])]_vars

(* Two syncs on a port are never closer than the interval of the second,    *)
(* whatever roles the port had and whatever intervals were signalled: the   *)
(* counter a sync waits for is never ahead of the ticks since the last one. *)
SyncPaced ==
  \A p \in Ports : port[p].counter <= since[p]

(* While a master port has a sync to send sooner or later there is a tick   *)
(* to take: one that counts, sends or selects.                              *)
SyncOutstanding == alive /\ \E p \in Ports : role[p] = "MASTER" /\ since[p] # 0

TickMoves == SyncOutstanding => ENABLED <<Tick>>_vars

(* A port that stays master goes on sending syncs, until a restart.         *)
KeepsSyncing ==
  <>[][~Deinit]_vars =>
    \A p \in Ports : <>[](alive /\ role[p] = "MASTER") => []<>(since[p] = 0)

(* vtss_gptp.c:2256: process_rx_fup makes certain that the sequence ID      *)
(* matches "the last valid SYNC message": the one it has the time of.       *)
MatchesLastSync ==
  \A p \in Ports, f \in Messages : Accepts(p, f) => taken[p] = f

=============================================================================
