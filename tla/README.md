# A TLA+ verification of the AVB-Switch protocol code

AVB-Switch is the audio/video bridging software of an embedded Ethernet
switch: the time synchronisation protocol gPTP (IEEE 802.1AS, `src/ptp`) and the
stream reservation protocol MSRP (over MRP of IEEE 802.1ak, `src/msrp`).  It is
C for a small processor, one cooperative thread: the operating system calls
`vtss_*_receive` for a frame, `vtss_*_tick` on a timer and
`vtss_*_more_work`, and each call runs to its end.  There are no tests.  What is
hard is therefore not preemption but *order*: which frames, ticks, capability
changes and restarts come between which two ticks, what one call leaves behind for the
next (flags, counters, pointers into a receive buffer), and what a state
machine that loops until it rests does with values it read before the loop.

This directory holds TLA+ modules for that behaviour, TLC configurations that
check them on small instances, and TLAPS proofs for every instance.
`PROJECT.json` maps every definition to its source lines.

## 1. Inventory

| Component | Source | State | Operations |
|---|---|---|---|
| Priority vectors | `gptpstatmch.c` 39-60, 273-318, 587-643; `vtss_gptp_private.h` 200-237 | none | comparison, one hop further, as announced, as received |
| BMCA: announce reception, PortAnnounceInformation, PortRoleSelection | `gptpstatmch.c` 133-743; `vtss_gptp.c` 1445-1452 | per port: infoIs, portPriority, selectedRole, rcvdMsg/rcvdAnnouncePtr, reselect, selected, updtInfo; system: gmPriority, gmPresent, masterStepsRemoved, pathTrace | `process_rx_announce`, the machines' runs, `updtRolesTree` |
| Peer delay: MDPdelayReq, LinkDelaySyncIntervalSetting | `gptpstatmch.c` 746-1330; `vtss_gptp.c` 2540-2712 | per port: machine state, timer, sequence number, stored response and follow-up, lost and multiple counts, asCapable, interval | tick, `process_rx_pdelay_*`, `process_rx_signaling` |
| Tick | `vtss_gptp.c` 975-1125, 2716-2722 | timerTicks, current_sm, newMaster | select roles, transmit announces and syncs, run the ports' machines, report a new grandmaster |
| Initialisation, configuration | `vtss_gptp.c` 1128-1410 | the configurations | `gptp_hw_init`, `gptp_sw_init`, `set_config`, `set_portconfig`, `deinit` |
| Sync, follow-up, servo | `vtss_gptp.c` 760-985, 1645-2380 | syncSequenceId(+Valid), waiting_for_fup, rxSourcePortIdentity, rxPreciseOriginTimeStamp, rtcChangesAllowed, RTC | `process_rx_sync`, `process_rx_fup`, `transmit_sync`, `rtc_update_servo` |
| Time arithmetic | `vtss_gptp.c` 73-616, 1458-1640, 1876-1965 | none | 64-bit multiply, divide, shift, timestamps |
| MRP tables | `vtss_msrp.c` 54-373 (compiled), 380-1176 (disabled) | none | applicant, registrar, leave-all transitions |
| MAD | `vtss_msrp.c` 2649-2827, 2999-3276 | per attribute: app_state, reg_state; per participant: timers, leaveall, next_to_process | events, transmission opportunities, tick |
| MAP and reservations | `vtss_msrp.c` 1387-2119 | attribute, stream and reservation tables | join and leave indications, propagation |
| MSRP PDUs | `vtss_msrp.c` 2122-2646, 2831-2994 | send buffer | packed events, merging, parsing |
| Outside `src/` | `vtss_*_os.h`, `h2_send_frame`, `get_*` of the platform | | the environment of the models |

The components interact in three ways.  `vtss_gptp_tick` runs the role
selection, then for every port the link delay machine, the peer delay machine and
the announce machine, then the grandmaster event.  The receive handlers run
one machine each or leave a flag for the tick.  And they share the port record:
the peer delay side writes `asCapable` and `portEnabled`, which gate the
announce side; the role selection writes `selectedRole` and `gmPriority`, which gate
the sync side.

What makes each correct, in one sentence:

* **BMCA** - every port's role, the grandmaster, the path trace and the vector a
  master port compares with describe one selection, however many announces came
  since; nothing better that was received is forgotten.
* **Peer delay** - a port is capable only after a complete, matching exchange
  with a near neighbour; requests are paced and never stop by
  themselves, except after three ambiguous ones.
* **Sync** - what is forwarded belongs to one sync of the present grandmaster.
* **MAD** - a registration exists as long as some neighbour declares it, no longer.
* **MAP** - every port but the source declares what is registered.
* **PDUs, tables, arithmetic** - decode inverts encode, tables agree with the
  disabled originals, words wrap where they should.

The list of what is hard to test, line by line, is "hazards" in `PROJECT.json`.

## 2. Modules

| Module | Models |
|---|---|
| `PriorityVectors` | the vectors and their order |
| `GptpRoles` (extends it) | the best master clock algorithm of one bridge |
| `GptpPdelay` | the peer delay measurement of all ports of one bridge |
| `GptpSync` | syncs and follow-ups of one bridge, over the roles the selection assigns |
| `GptpBridge` (extends `GptpRoles`, instantiates `GptpSync`) | both over one set of ports: the tick selects, then sends by the roles just selected |
| `GptpArithmetic` | 64-bit arithmetic in pairs of words, timestamps, rate ratio and delay, as functions |
| `GptpServo` (extends it) | what a peer delay measurement stores and what an accepted follow-up does to the clock's rate |
| `MrpTables` | the applicant, registrar and leave-all tables as compiled |
| `StreamReservation` | what MSRP promises: register, reserve and declare in one step; the abstract specification of `Msrp` |
| `Msrp` (extends `MrpTables`) | MSRP of one bridge: attributes, reservations, propagation, timers |
| `MCGptpRoles`, `MCGptpPdelay`, `MCGptpSync`, `MCGptpBridge`, `MCGptpServo`, `MCMsrp` | messages and configurations for TLC |
| `GptpRolesProofs`, `GptpPdelayProofs`, `GptpSyncProofs`, `GptpBridgeProofs`, `GptpArithmeticProofs`, `GptpServoProofs`, `MrpTablesProofs`, `MsrpProofs` | theorems and proofs |

### PriorityVectors

The code compares 28-byte vectors with `memcmp`.  A field is modelled by its
rank: what the algorithm sees of an identity is its order and whether it
carries this clock's `clockIdentity`.  That also means that all source
identities a comparison cannot tell apart share a rank.  `stepsRemoved`
keeps its wrap-around (`NextStep`, modulo `MaxSteps + 1`, 2^16 in the code).

### GptpRoles

One action per call, since calls do not overlap:

| Action | Call |
|---|---|
| `ReceiveAnnounce(p, m)` | `process_rx_announce` -> `PortAnnounceReceive_StateMachine` -> `qualifyAnnounce` |
| `TickReselect`, `TickKeep` | `vtss_gptp_tick` -> `vtss_gptp_more_work`, with and without `PortRoleSelection_StateMachine` |
| `Deinit` | `vtss_gptp_deinit` -> `gptp_sw_init` -> the selection machine's first run |
| `ChangeAble(p)` | whatever the peer delay side does to `asCapable` and `portEnabled` |
| `SetSyncInterval(p, ticks)` | the link delay machine sets `currentLogSyncInterval`, at its first run or by a signal |
| `ReuseRxBuffer(p, m)` | the driver refills the buffer `rcvdAnnouncePtr` points into |

Inside a tick, `AssignRole` is what the selection does to a port's record and
`Settle` the whole run of PortAnnounceInformation.  UPDATE, RECEIVE, SUPERIOR,
REPEATED and INFERIOR never outlive a run of the machine (each falls through to
CURRENT before the loop ends), so `state` has only the four the
machine stops in.  `gm` is what the pointer `gmPriority` points to and the
variable `gmPriority` the vector there; `pathTrace` is a set because only
membership is asked for.

Not in the module: the leap second and time source fields an announce carries
into the system, statistics, `newInfo`, `lastGmPriority` after the
comparison made of it, and the announces and syncs sent (their content is `gmPriority`,
`masterStepsRemoved` and `pathTrace`).  `announceTimeoutCounter` and
`syncTimeoutCounter` are constants 0 because nothing increments them; what they are compared with is
not constant: `syncTimeout(p, ticks)` is a multiple of the sync interval in ticks, `syncTicks`, and an
interval whose logarithm is negative or too large is 0 ticks, so that a timeout that is configured
expires all the same.

Nor is a path trace longer than the array for it (`GPTP_MAX_PATH_TRACE`, `gptpstatmch.c` 162-221):
its loop and its copy go by the length in the frame, past both arrays, and what follows is not
described.  The announces of the model fit.

### GptpPdelay

Every iteration of the loop of `MDPdelayReq_StateMachine` is an action, as the
loop compares identities and sequence numbers *before* it starts and goes on
with the verdict after it changed the sequence number.  `run` is the call in
progress: its port, whether it is part of a tick, and those verdicts.

| Action | Code |
|---|---|
| `Tick` | the port loop of `vtss_gptp_more_work`: link delay machine, timer, peer delay machine (the announce machine is GptpRoles') |
| `StayDisabled`, `StartMeasuring`, `SendNext`, `TakeTimestamp`, `MissTimestamp`, `GiveUpResponse`, `AcceptResponse`, `GiveUpFollowUp`, `AcceptFollowUp` | one transition each, with its entry action |
| `Return` | the iteration in which the state does not change; `End` goes on to the tick's next port |
| `ReceiveResponse`, `ReceiveFollowUp` | `process_rx_pdelay_resp(_fup)` and the machine's run |
| `ReuseRespBuffer(p, m)`, `ReuseFollowUpBuffer(p, m)` | the driver refills the buffers `rcvdPdelayRespPtr` and `rcvdPdelayRespFollowUpPtr` point into; the next call compares what is there then (`gptpstatmch.c` 1095-1108), and a measurement reads the responder from it (1008) |
| `ReceiveSignal` | `process_rx_signaling` and the link delay machine |
| `ReceiveOwnRequest` | `process_rx_pdelay_req` on this system's own request |
| `Deinit` | `vtss_gptp_deinit` |

`sent` and `answered` are auxiliary and constrain nothing.  A request of
another clock changes no state of this component and is left out.  The
arithmetic of the rate ratio and the delay is a choice among its outcomes
(`RateRatios`, `PropTimes`).  `1 << log` is `2^log` within the int, 0 ticks for a
negative logarithm, and the constant `OverShift`, any value the build may make
of it, beyond.  `initialLogPdelayReqInterval` is never copied from the
configuration, so `InitialLog` is 0 in the code.

`TimestampPort` is the index at which `transmit_pdelay_request` stores the
transmit time.  It is 8, what the loop over the correction field leaves in `i`,
while the ports are 0..7: the code as configured is the instance
`TimestampPort = NumPorts`, in which no port gets a timestamp.  On a platform with
more ports (`get_platform_data` sets the number) port 8 gets them all; that
instance, `TimestampPort < NumPorts`, exercises the rest of the machine.
A response matches if its port number and sequence id equal the
machine's; the port number is compared 0-based with a 1-based one and the
sequence id is read with the two octets after it, so that a compliant answer to
the code as configured is in the set `Foreign`.

### GptpSync

| Action | Code |
|---|---|
| `ReceiveSync(p, m)` | `process_rx_sync`; what is not from the master on a slave port changes nothing |
| `ReceiveFollowUp(p, f)` | `process_rx_fup` up to and with the loop that forwards the time |
| `SetInterval(p, i)` | the link delay machine, at its first run or by a signal |
| `TickReselect(s)`, `TickKeep` | `vtss_gptp_more_work`: selection, then `transmit_sync` on every master port that is due |
| `Deinit` | `vtss_gptp_deinit` -> `gptp_sw_init` over the live records: `waiting_for_fup` stays |

`port` holds the fields `syncSequenceId` (`seq`, the number last received *and*
the number last sent), `syncSequenceIdValid`, `waiting_for_fup`, `syncCounter` and
the interval; `role` and `master` are `selectedRole` and the source of
`gmPriority`.  A selection may be any that `Consistent` allows: a slave port follows
a neighbour and is the only one, which is the invariant `SlaveFollowsGm` proved of
`GptpRoles`.  Disabled and passive ports behave alike here and are both `OTHER`.
`taken`, `steady` and `since` are auxiliary and constrain nothing.

When a follow-up is accepted, `process_rx_fup` goes on to `transmit_sync` through
`current_sm`, which is NULL outside a tick (`vtss_gptp.c` 2367): the processor
traps, or reads something that is no master port.  `alive` is that choice;
after a trap nothing happens any more.  It also stands for the divisions by `neighborRateRatio` and
`rateRatio` before that (`vtss_gptp.c` 2305-2324), either of which may be 0.

Not in the module: what the messages carry (origin time, correction field, the
rate ratio), the servo, and the announces a tick sends together with the syncs.

### GptpBridge

`GptpSync` takes any selection it calls `Consistent`, at any tick.  `GptpBridge` replaces that
choice by the code's: its roles and grandmaster are those of `GptpRoles`
(`Sync == INSTANCE GptpSync WITH role <- ..., master <- gmPriority.source, port <- syncPort`),
and `BridgeTick` is the order of `vtss_gptp_more_work`: `PortRoleSelection_StateMachine`,
then syncs by the roles it left, then the announce information machines.  Frames of
either protocol, capability changes and restarts come in between.  `currentLogSyncInterval` is
one field: the announce side times its receipts by it and the sync side its sending, so
`BridgeInterval` sets both and the intervals of `GptpSync` are those of `SyncTicks`.  `ImplementsSync`
is the refinement: `Sync!Spec` over the mapped state, so that what is proved of
`GptpSync` for every consistent selection holds of the one the algorithm makes.
`OneTimeSource` relates the two halves: the flags a follow-up is checked against
outlive every change of role, and still no two ports accept one.

### GptpArithmetic and GptpServo

The compiler has no 64-bit type; `_INT64` and `_UINT64` are pairs of words.
`GptpArithmetic` models a pair by the number it stands for, so a shift, a carry or a borrow between
the words is what it does to that number, while what works on parts of it is step by step
what the code does: `Multiply` on half words (the cross products are added in one
word, `vtss_gptp.c` 84), the negations around `Int64TimesInt64`, `LeftmostBit` by halving, and the
shift-and-subtract loop of `Uint64DivMod`.  A word has `2^LogBits` bits: 5 in the code, 3
for TLC.

| Action | Code |
|---|---|
| `Measure(e)` | `computePdelayRateRatio`, `computePropTime` on the four timestamps `e` of an exchange, both enabled |
| `ForgetInitial`, `ForgetRatio` | entry actions of MDPdelayReq_RESET and INITIAL_SEND_PDELAY_REQ |
| `FollowUp(rx, tx, correction, ratio)` | `process_rx_fup` from line 2264: a difference of a second, or beyond `RESET_THRESHOLD_NS`, resets the clock, others go through `rtc_update_servo` to `set_rtc_increment` |
| `AckGrandmasterChange` | `ptp_events_tx_gm_change`, `ack_grandmaster_change` |
| `Deinit(nom)` | `gptp_sw_init`: the loop's state survives, the nominal increment is read from a local that is never written |

`goal`, `exactRatio` and `exactDelay` are auxiliary: the same quantities in plain
integers.  The master's rate ratio is any word, since it is computed from a variable
(`tempRate1`, `vtss_gptp.c` 2045) that is never assigned.  The timestamps come from
`time_since_boot`, a macro of the platform; they may be any of a set that contains both sides of
the wrap of the seconds.  Left out of `FollowUp` is the computation of `upSTreamTxTime`
(`vtss_gptp.c` 2305-2324), which the servo does not read; where its divisors are 0 the call traps,
which is `alive` in `GptpSync`.

### MrpTables and Msrp

The tables are initialised by position, and neither the columns nor the numbers of
received events follow `enum mrp_event`: `mad_attr_event` looks the numbers on
the wire (`enum mrp_attr_event`) up as if they were `enum mrp_event`, the row of VN lacks
a column, and the columns from 10 on are those of other events.  `MrpTables` is
what is compiled; `Msrp` looks up what the code looks up.  Three consequences are
theorems of `MrpTablesProofs` and decide what `Msrp` contains:

* no event that is raised makes an applicant send (`NothingIsSent`): `doTx`, the encoding and
  merging of messages, a full PDU and `next_to_process` are unreachable;
* no registrar indicates a leave or becomes empty (`NothingIsWithdrawn`): the leave
  indication and its propagation are unreachable;
* the leave-all machine and the leave timer move nothing (`LeaveAllIsInert`, `LeaveTimerIsInert`).

| Action | Code |
|---|---|
| `BeginFrame(p)`, `EndFrame` | entry and return of `vtss_msrp_receive` |
| `ReceiveNewStream` | `vtss_msrp_allocate_stream`, `get_attribute_reg`, `mad_attr_event` |
| `ReceiveKnownStream` | `vtss_msrp_find_stream`, `find_attribute_by_existing_stream_info`, `mad_attr_event` |
| `ReceiveDomain(e)` | the event of a domain, given to the attribute of the message before |
| `ReceiveLeaveAll(type)` | `mad_attrtype_event` with R_LA, then `mad_participant_event` |
| `MoreWork`, `Tick` | `vtss_msrp_more_work` (also before a configuration is stored) and `vtss_msrp_tick` |
| `Deinit` | `vtss_msrp_deinit` -> `msrp_sw_init`; streams and reservations stay |

A frame is several actions, one for each value in it, because `pAttribute` lives
from one message to the next; ticks and restarts wait for its end.  A machine is a
record with its direction, stream, type and the state of that direction, a port's
machines a sequence in the order of the slots, since slots are taken in order and never
given back.  `mad_attr_event` is the pair `ApplicantEvent` and `RegistrarEvent`; a
join indication reserves (`Reserve`) and declares on other ports (`Targets`, `Declaration`)
in one step.

What C leaves open is a choice.  `find_attribute_by_existing_stream_info`
compares the address of a field with a number, so it finds nothing, and then ends
without a `return`: `FallOff` is the set of what it may deliver, slots, NULL or `Elsewhere`, memory
that is no attribute of the port's.  `vtss_msrp_find_stream` does not ask whether an entry is in use, so
`ZeroStream`, the identity zero, is found in the first unused entry and taken as known
(`IsFound`, `IsNew`).  `decode_threepacked` divides a signed octet, so an event may be negative:
`Arriving` is `WireEvents` with one value for all of -5..-1, which looks up before its row, finds zeros
or what is not the table's.  An event for `Elsewhere`, or a negative one, has no effect or runs over.
`Active` asks of a registrar what the code asks, whether its state has the number of `MRP_MT`, which is that of
`MRP_REGISTRAR_L2`.  The
participants from 1 on have no port (`msrp_sw_init` sets
`participants->port`, the first one's, over and over): what is read through it is
`NullPointToPoint`.  Beyond the tables of 5 streams, 24 attributes and 30
reservations, whose searches run to 10, to `MRP_MAX_ATTRS` and off the
end of a function, and after a write through NULL, `defined` is FALSE and nothing more is
claimed.  The first PDU of a participant is padded from `send_ptr`, still NULL: either.

`StreamReservation` is what is left when tables, slots, frames and timers are taken away:
the sets of attributes registered, declared and reserved.  `ImplementsReservation`
maps the machines to those sets; a write through NULL or past a table is its `Break`.

Not in the module: the parameters of streams and the four-packed events copied along,
bandwidths (`msrp_check_port_bandwidth`, `vtss_msrp.c` 1985, always grants, and
`msrp_set_port_bandwidth`, 1977, only calls the driver), the record of the domain
received and the domain declared (no event ever visits it), parsing of the frame.

## 3. Runs

The runs of `GptpRoles` and `GptpPdelay` check for deadlock; there is none, as a tick is always
possible or a call is running; nor is there in `GptpServo`.  Those of `GptpSync`, `GptpBridge` and `Msrp`
do not: a trapped processor and undefined memory are final states.

| Run | Bounds | Shows |
|---|---|---|
| `gptp_roles` | 2 ports, 4 identities, steps 0..3 with limit 1, 2 announces (a better clock one hop away, and a still better one from too far), receive buffers refilled before the tick | type, `SlaveFollowsGm`, `GrandmasterAlone`, `MasterDefendsWhatItAnnounces`, `BestPathSelected`, `GmChangeReported` and `ReceivedNeverWorsens` with running timeouts, whatever the tick finds in a receive buffer |
| `gptp_roles_aging` | 2 announces (the second from too far), port 0 with a sync interval that becomes 0 ticks and 8 again, port 1 with announce timeout 0, this system not grandmaster capable, no buffer refilled | information expires as fast as it comes: `UnconfiguredNotFollowed`, `ReceivedWasQualified`, `TickMoves` (a tick has something to do whenever something is unsettled), and under a fair tick `AgedPortTakesOver`, `ComesToRest` |
| `pdelay` | 2 ports without timestamps, timer up to 2, receive buffers refilled | code as configured: `CeasesAfterThree`, `OneRequestPerCall` |
| `pdelay_stamped` | 1 port with timestamps, sequence numbers modulo 8, own, foreign and late answers, receive buffers refilled | the whole machine: `CapableHasMeasured`, `AcceptsNothingOlder`, `CallsMove` (no call gets stuck, and between two calls there is a tick to take), `KeepsRequesting` |
| `gptp_sync` | 2 ports, 2 neighbours, 3 syncs, sequence numbers modulo 2, intervals 1 and 2 | `MatchedWhileSteady`, `SyncUsedOnce`, `SyncPaced`, `MasterSequence`, `KeepsSyncing` with syncs and follow-ups lost, doubled and reordered, every consistent selection, and restarts |
| `gptp_bridge` | 2 ports, a better grandmaster heard on either, its syncs and follow-ups with one of two sequence numbers, an interval of a tick, so that a master port sends with every tick and counts its number up; a receive buffer may be refilled, with the one announce there is | `OneTimeSource`, and that every step is one of `GptpSync`'s (`ImplementsSync`) |
| `gptp_servo` | words of 8 bits, a second of 50 ns, reset threshold 20, acquire threshold 2; timestamps around the wrap of the seconds, before the epoch and with something in the upper word; one neighbour whose clock is set back | `MeasurementIsExact`, `RateIsGoal`, `LockTellsOffset`, `NothingAccumulates` |
| `msrp` | 2 ports, 2 streams (one arrives as a talker and with a listener, the other with a listener) and the identity zero (with a listener), negative events, 2 attributes per port, the failed search delivering NULL, the first attribute or memory that is none, join period 1 | that every step is one of `StreamReservation` (`ImplementsReservation`); `RegisteredIsReserved`, `RegisteredIsPropagated`, `DeclaredIsRegistered`, `ReservationsFit`, `FairStepsMove` (a frame can end, and an idle bridge can tick), `KeepsOffering` |
| `gptp_silence`, `gptp_own_vector`, `sync_stale`, `msrp_self` | | violations, section 4 |

Why the bounds are enough.  Two ports give every pair of roles (slave with
master or passive, both aged) and the comparison between candidates; a third adds no new pair.
Four identities are two that are better than this system (or one, in `gptp_roles_aging`, and one that
is not), self and all ones.  In `gptp_roles` the announce from too far is the better one and never qualifies, so
that it is held, selected and announced only out of a refilled buffer; what a port holds of the other one,
what it announces and what it defends then differ in clock and in steps.  In `gptp_roles_aging` buffers
are not refilled, since that is the hypothesis of `ReceivedWasQualified`.  Steps wrap at 4 with the limit
at 1, so qualified and wrapped values both occur.  In `GptpPdelay` the counts of
responses, of ambiguous requests and of lost answers saturate where
the code compares them; the timer saturates at the longest interval signalled (it is
only compared with intervals from below); sequence numbers modulo 8 keep four
successive requests apart (a request adds 2: once in the entry action, once in
`transmit_pdelay_request`).  In `GptpSync` two sequence numbers suffice to be equal or
not; a counter saturates at the longest interval, where it is compared.  In `Msrp` a
port's attributes are full after two, so that a registration with its
declaration, two registrations, and every way of running over occur.  There the second stream and the identity
zero come with listeners only: a talker's propagation differs in its type alone, and what `FallOff` does not
tell apart need not arrive twice; `msrp_self` has all types of attributes.  `GptpBridge`
has one announce and one sync because everything about several of them is in the runs of its halves;
what only it can show needs two ports that compete for the slave's role, and numbers and intervals in which a sync
sent shows: with two sequence numbers and an interval of a tick each tick changes the number of exactly the ports
that were master, so syncs sent by the roles before the selection are not those of `GptpSync`.  In
`GptpServo` thresholds, second and word keep the order they have in the code (the reset
threshold is less than half a second, eight times the acquire threshold less than the reset
threshold, two seconds less than half a word), and offsets fall on every side
of every threshold.  The
reservations (six per stream: two port pointers and three types) are as many as 30 are for
the code's five streams.  `MeasurementIsExact` speaks of intervals of less than a word of
nanoseconds, four seconds; beyond, the ratio is computed with as many bits less as the interval has
more, by design of the shifts.  Its delay is that of exchanges of less than a quarter of that, with a
neighbour not half as fast again: beyond, `long_multiply_high` loses a carry (`vtss_gptp.c` 84).

**Fairness.**  `vtss_gptp.h` 357-361: `vtss_gptp_tick` "Must be called from OS
once every second".  `GptpRoles` assumes `WF(Tick)`, the tick being always
enabled.  In `GptpPdelay` the tick waits for a running call to end, so it is
`SF(Tick)`, with `WF(Step(p))`: a call that has begun runs on.  `GptpSync` assumes
`WF(Tick)` (the tick is enabled until a trap), `Msrp` `SF(Tick)` with `WF(EndFrame)`: a frame is
finite (`vtss_msrp.h` 323-327 asks for the tick in the same words).  Nothing is assumed
of frames or of the neighbours.

## 4. Findings

Each is a run TLC must find violated; the quoted lines are in `PROJECT.json`.

1. `gptp_silence`: the announce receipt timeout never counts, so a slave follows a silent grandmaster for ever.
2. `gptp_own_vector`: the selection counts what this system announces itself among the paths to a grandmaster.  When the port to the grandmaster is disabled, a master port's own announce is the best path: the bridge has no slave port, does not become grandmaster, and goes on announcing the lost clock, a step further at every selection (802.1AS-2011, in `src/standards`, 10.3.12.1.4 b, leaves those vectors out by the sender's clockIdentity; the code compares the root's).
3. `sync_stale`: `syncSequenceId` serves reception and transmission; a slave port that was master for a tick accepts the follow-up of a sync it never took.  While role and master stay, it cannot happen (`MatchedWhileSteady`).
4. `msrp_self`: a talker is declared on the very port it is registered on, because the port it is compared with is NULL or the last one.

Met while modelling, and modelled as the code has it, without a run of their own: a request's
transmit time goes to port index 8, what a finished loop left in `i` (`vtss_gptp.c` 2658), so that no ticked port becomes as
capable and in the composed program no announce is accepted after a port's first tick - which is
why `able` is an input of `GptpRoles`, checked for every behaviour of the peer delay
side; a negative signalled interval is zero ticks, and the machine then sends without end in one
call (`OneRequestPerCall` is proved without such signals); the case for
126 in `gptpstatmch.c` 1258 falls through and stores 126 as the interval; a response is compared before the loop that sends the next request, and may be accepted as the answer to that one
(`gptpstatmch.c` 1098; nothing older is, `AcceptsNothingOlder`); the
number of requests with several responses counts over unanswered
ones (`gptpstatmch.c` 952, `vtss_gptp.c` 2683); a response with another sequence number that comes while
the follow-up is awaited replaces the one accepted, with its receive time, and the measurement uses it
(`vtss_gptp.c` 2673-2680, `gptpstatmch.c` 1190-1194); `vtss_gptp_deinit` selects roles from the old records when a
request is pending (`vtss_gptp.h` 307), and `vtss_msrp_deinit` keeps streams and
reservations; nothing MSRP declares is ever transmitted (section 2), and nothing it registers ever ends (`NothingEnds`).
Of the servo: the coefficients of acquired mode are zeroed "will be inferred from the port mode" (`vtss_gptp.c` 1197) and never
set, so that within the lock nothing is corrected, up to eight times the acquire threshold; the bounds of
the integral are compared without sign, so that it is always at one of them (`NothingAccumulates`); the derivative sums up differences that
cancel out; the master's rate ratio and the nominal increment come from uninitialised
variables; a nominal increment of zero is divided by; and the check at `gptpstatmch.c` 782 misses a neighbour's clock set
back by less than a second, which then gives an arbitrary ratio.

## 5. Proofs

`GptpRolesProofs` proves, for every number of ports, every set of identities and
announces and every configuration of the timeouts, from the named assumptions
`VectorsAssumption` and `RolesAssumption` alone:

| Theorem | Property | Argument |
|---|---|---|
| `TypeCorrect` | `TypeOK` | inductive; the types of `Settle`, `AssignRole` and the selection as lemmas; that `SelectGm` chooses a port needs `FirstOfBestExists`: a nonempty set of candidates has a first best one (proved with two least-element arguments, no induction over data) |
| `SlaveFollowsGmInvariant` | `SlaveFollowsGm` | inductive with `TypeOK`, over `StepCases`, which reduces a step to: frames change only `rcvd`, `able` and the path trace; a tick assigns a role and settles; a restart |
| `GrandmasterAloneInvariant` | `GrandmasterAlone` | the trace changes only for a slave port, and with `gm = System` there is none |
| `MasterDefendsInvariant` | `MasterDefendsWhatItAnnounces` | inductive with `TypeOK`: a selection that changes the announced vector finds the stored one outdated and sets `updtInfo`, and the port's run in the same tick takes the new one over |
| `BestPathInvariant` | `BestPathSelected` | `SelectionIsBest`: no candidate is better than the chosen one; new information always carries `reselect` |
| `GmChangeReportedInvariant` | `GmChangeReported` | inductive on its own |
| `ReceivedNeverWorsensProperty` | `ReceivedNeverWorsens` | from `StateMatchesInfo`: `state` and `infoIs` agree |
| `ReceivedWasQualifiedInvariant` | `ReceivedWasQualified` | assumes `~RxBufferReused`; strengthened by "what is pending has qualified" |
| `UnconfiguredInvariant` | `UnconfiguredNotFollowed` | the port's path is all ones, which is no candidate |
| `OnlyImprovesProperty` | | the other side of `gptp_silence`: a port of `Timed` (no timeout is zero, and no sync interval that may be set is 0 ticks) never finds itself silent, so an able one that is current stays current (`TimedStaysCurrent`); what takes the place of the received vector is better than it, or better than the announced one that was better |
| `LostGmIsKeptProperty` | | the consequence of `gptp_own_vector`: a vector a port of `Timed` announces for a better clock is a candidate (`SelectsWhatItAnnounces`), and while the system is the grandmaster no port announces one (`GmAnnouncesItself`, inductive) |
| `AgedPortTakesOverInTime` | `AgedPortTakesOver` | liveness: an aged port that has not taken over has its request standing (`AgedAsks`), a frame leaves both alone (`FrameOutcome`), and the tick serves it; no step, a restart included, ends the wait in any other way |
| `ComesToRestInTime` | `ComesToRest` | liveness, by stages: each tick without a frame enters the next of five and no tick leaves one backwards: every port in its place (`InPlace`), no announce unread (`Heard`), only aged ports asking (`OnlyAgedAsk`), none left to age (`NoneLeftToAge`), nothing unsettled |

`GptpPdelayProofs` proves, from `PdelayAssumption` alone, for every number of
ports, every `TimestampPort`, every set of messages and signals and every width:

| Theorem | Property | Argument |
|---|---|---|
| `PdelayTypeCorrect` | `TypeOK` | inductive; every entry action keeps the record type |
| `CapableInvariant` | `CapableHasMeasured` | `Measuring`: a port other than `TimestampPort` is never stamped and so never waits for a response; where the responder's identity is read there is a response (`rcvdResp` or WAIT_FOLLOW_UP) |
| `NoneCapableAsConfigured` | | if `TimestampPort` is none of the ports, as on a platform of up to eight, no port becomes capable by measuring: one that is capable has just been restarted and its machine is still in `NOT_ENABLED` |
| `NothingOlderAccepted` | `AcceptsNothingOlder` | the invariant `AllFresh`: a response that passed the comparison before the loop answers the last request, or the last but one after exactly one request in the same call; a second request, or a reset, leaves no response stored.  Which request is the last is known by more than its number, so the width of the number plays no part beyond keeping four apart |
| `CeaseInvariant` | `CeasesAfterThree` | the port's own count is at least the number of successive ambiguous requests while it is on, and a machine that does not enter its loop belongs to a port that is off (else clearing the count there would lose requests) |
| `OneRequestInvariant` | `OneRequestPerCall` | assumes `NoNegativeInterval`: then `Interval` is at least 1, and after a request, whose timer is 0, every guard of a port without timestamps is false; uses `Measuring` |
| `LoopIsBounded` | | every iteration lowers a measure (`StepsLeft`) of at most 18, if no negative interval is signalled: the loop of `MDPdelayReq_StateMachine` ends, whatever is stored |
| `EveryCallReturns` | | liveness: so every call ends, a tick after a call for each port; rests on `CallsMove` |
| `KeepsRequestingInTime` | `KeepsRequesting` | liveness, from `NoNegativeInterval` and `IntervalsFit` (the timer's bound covers the initial and all signalled intervals): every iteration lowers a measure (`StepFalls`), although a reset leads back to sending, so at most eighteen follow each other on a port, a tick comes to the ports in order, every call ends (`CallsEnd`) and every tick visits every port (`TickVisits`); `KeptInvariant` says that between calls an enabled port waits with a timer below its bound, so the tick advances it (`TimerAdvances`) until a request is due |

The lemmas come in three layers: what an entry action does to a record, what a
call does to the ports (`EndEffect`, `BeginTickEffect`, `TransmitEffect`), and
one case per action for each invariant.  What a refilled buffer can disturb is one lemma, `RefillKeeps`: only
the stored message changes, no invariant speaks of one between calls except that it is there, and a call
compares it anew.

`GptpSyncProofs` proves, from `SyncAssumption` alone, for every number of ports, every
set of neighbours, messages and intervals and every width of the number:

| Theorem | Property | Argument |
|---|---|---|
| `SyncTypeCorrect` | `TypeOK` | inductive |
| `MatchedInvariant`, `UsedOnceInvariant` | `MatchedWhileSteady`, `SyncUsedOnce` | one strengthening, `Held`: a port whose number is valid and waited for holds a sync, and while steady its number is that sync's and its source the master; a restart clears the valid flag, without which the waiting one does no harm |
| `PacedInvariant` | `SyncPaced` | inductive: the counter moves only with the ticks since the last sync |
| `MasterSequenceProperty` | `MasterSequence` | from `TypeOK`: on a master port neither handler changes anything |
| `KeepsSyncingInTime` | `KeepsSyncing` | liveness: while a port reigns, each tick sends on it or brings its counter nearer to the longest interval (`ReignFalls`), and nothing received or signalled takes that back |

`GptpBridgeProofs` proves, from the assumptions of both halves and `BridgeAssumption`:

| Theorem | Property | Argument |
|---|---|---|
| `BridgeSyncsInOrder` | `GptpSync`'s four safety properties | an instance of `GptpSyncProofs`, whose invariants are proved of `Behaviour`, the specification without fairness: what implements it has them |
| `OneTimeSourceInvariant` | `OneTimeSource` | from the invariants of `GptpRoles`: only a slave port accepts, the slave is the port the grandmaster was chosen from and holds its announce |
| `BridgeImplementsSync` | `ImplementsSync` | initial states map to initial states; a frame is a stutter or the same frame of `GptpSync`, a tick with a selection is its `TickReselect` (the selection is `Consistent` by `SlaveFollowsGm`), one without its `TickKeep`, a restart its `Deinit` |

`GptpArithmeticProofs` and `GptpServoProofs` prove, from `ArithmeticAssumption`,
`WidthAssumption` and `ServoAssumption`, for every width of a word, all thresholds and all timestamps:

| Theorem | Property | Argument |
|---|---|---|
| `DivisionIsExact` | | `LeftmostBitIsExact`: halving finds the leftmost bit; so the divisor is aligned with the dividend without losing a bit, and after each bit of the quotient the dividend is what the bits so far and the rest make up (`Remains`) |
| `ServoTypeCorrect` | `TypeOK` | every operator of `GptpArithmetic` keeps its words; that the two recursions of the division deliver a number at all rests on `SetInduction` and `Recursion`, first-order forms of induction and recursion derived from the well-founded order of the library |
| `LockTellsOffsetInvariant` | `LockTellsOffset` | inductive with `TypeOK`, by the three ways through `rtc_update_servo` |
| `NothingAccumulatesInvariant` | `NothingAccumulates` | any sum is beyond one of the bounds as they are compared; derivative and previous offset change together |
| `RateIsGoalInvariant` | `RateIsGoal` | along the data: sums and differences keep the nanoseconds and end normal (`DifferenceIsExact`), so the reset is decided on the true distance (`ResetIsExact`); the coefficient has no lower half, so its product with the offset loses no carry (`SignedProductIsExact`), and its shift leaves twice the offset (`AdjustmentIsExact`); the division is exact |
| `MeasurementIsExactInvariant` | `MeasurementIsExact` | intervals that fit in a word have their seconds in half a word, and are exact (`ElapsedIsExact`); the ratio by the division; the delay as long as the upper halves of interval and ratio add up to less than a half (`NoCarryLost`), which is where its bounds come from |

`WidthAssumption` says what one power of two is to the next, which the provers do not know; half
a word is a multiple of eight (`M \div 8` has no lower half), the reset threshold is
less than a second, and a second of nanoseconds is at least half a word and at most a quarter of one, as in the code.
`WellFormed` timestamps have less than an eighth of the signed upper word: beyond, the
differences wrap.  `RateIsGoal` supposes a nominal increment that fits in a
word and is not zero, since nothing initialises it.

`MrpTablesProofs` proves, by cases over rows and events, `NothingIsSent`, `NothingIsWithdrawn`,
`LeaveAllIsInert` and `LeaveTimerIsInert` (section 2).  `MsrpProofs` proves, from
`MsrpAssumption`, for every number of ports, streams, machines and reservations and every outcome of the
failed search:

| Theorem | Property | Argument |
|---|---|---|
| `MsrpTypeCorrect` | `TypeOK` | inductive; slots are taken in order, so a machine that exists lies within its table while `defined` |
| `MsrpReserves` | `ImplementsReservation` | refinement: an event is one `Register` or a stutter, `Deinit` is `Restart`, running over is `Break` |
| `NothingEndsProperty` | | the kinds of steps of the refinement: one keeps all, registers one more, or is a restart, and only `Deinit` is one; no leave, leave-all or timer takes anything back |
| `RegisteredIsReservedInvariant`, `RegisteredIsPropagatedInvariant`, `DeclaredIsRegisteredInvariant` | the same | invariants of `StreamReservation`, carried over by the refinement |
| `ReservationsFitInvariant` | `ReservationsFit` | assumes six reservations per stream: none is made twice, and the ports' pointers take two values (a counting argument with the library's theorems on cardinality) |
| `KeepsOfferingInTime` | `KeepsOffering` | liveness: every frame ends and between two frames the tick comes (`TickComes`); a tick starts the timer of a port without an opportunity, no request sets a running one anew (`TimerGoesOn`), and each tick takes one off (`TimerFalls`) |

**Liveness.**  The six theorems on liveness use the fairness of `Spec` and two devices.

The first is about ENABLED, which this version of the prover cannot expand.  Weak or strong fairness of
a call says something only where the call is enabled and changes something, so each theorem names that fact
as a hypothesis and no more: `TickMoves` in `GptpRoles` and `GptpSync`, `CallsMove` in `GptpPdelay`,
`FairStepsMove` in `Msrp`.  They are predicates on states, defined beside the properties, and the runs
`gptp_roles_aging`, `pdelay_stamped` and `msrp` check them as invariants.  `TickMoves` of `GptpSync` is not in a run:
it holds by the form of `Tick`, which may always select other roles as long as the processor runs.

The second replaces induction, which the provers cannot instantiate for temporal formulas.  That a counter
which falls again and again reaches zero is shown for a distance of 1, then of 2, 4 and so on by
doubling, each step a lemma of propositional temporal logic (`FallsAllTheWay`), up to 2^32.  That bound is no
restriction of the code: counters, port numbers and timers are words of 32 bits (`vars_ulong32`).

Only model-checked: those facts about ENABLED, and nothing else that a passing run checks.

## 6. What is left

Every component with behaviour of its own has a module, and every module its proofs.  What would
add to it:

1. `GptpRoles` and `GptpPdelay` composed, with `ChangeAble` as what the peer delay side may do.
   With the code as configured no port is capable for longer than a tick (section 4), so the composition
   shows something only of a platform with more ports.
2. PortAnnounceInformation iteration by iteration, refining `Settle`.
3. The disabled MRP tables (`#if 0`) as the specification the compiled ones fall short of.
4. Two or three bridges, and information that circulates.

## 7. Not modelled

* *MSRP PDU encoding and merging* (`vtss_msrp.c` 2122-2646): no event the code raises makes an
  applicant send (`NothingIsSent`), so none of it is ever run.  Parsing is in `Msrp` as far as it decides
  which event reaches which attribute.
* *Frame layout and field access*, among them the bytes of timestamps and of the correction
  field, statistics, logging: no state.  The models start at the `process_rx_*` handlers:
  `vtss_gptp_receive` itself casts an octet of the frame to the message pointer it
  passes on (`vtss_gptp.c` 2732), which no model of its callees could survive.
* *The content of the syncs and announces sent*: rate ratio, origin and correction go to the
  neighbours and are not read again.
* *A path trace longer than its array* (`gptpstatmch.c` 162-221) and what a refilled buffer would make of
  one: the reads and copies beyond the arrays are undefined, and no field of the model would survive them.
* *`upSTreamTxTime`* (`vtss_gptp.c` 2305-2324), for the times of syncs sent; that its divisors may be 0 is in
  `GptpSync` as a trap (`alive`).
* *Configuration*: `set_config` and `set_portconfig` copy records; the models range over the fields
  they use.
* *End-to-end delays* (`computeDelayRateRatio`) and helpers nothing calls.
* *The clock itself*, `time_since_boot`, the driver and the operating system (not in the repository),
  `gptp_bpdu.h` (compiled out), the standards documents.
