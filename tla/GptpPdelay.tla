----------------------------- MODULE GptpPdelay -----------------------------
(***************************************************************************)
(* Peer delay measurement (src/ptp): the MDPdelayReq and                   *)
(* LinkDelaySyncIntervalSetting state machines of every port, the pdelay   *)
(* and signaling receive handlers and the tick that drives them.           *)
(*                                                                         *)
(* MDPdelayReq_StateMachine loops until its state stops changing.  Every   *)
(* iteration is an action here, because what the loop compares was read    *)
(* before it began; `run' is the call in progress.  Calls do not overlap   *)
(* (one cooperative thread).                                               *)
(***************************************************************************)
EXTENDS Integers, FiniteSets

CONSTANTS
  NumPorts,        \* gptpm.numPorts, from get_platform_data
  TimestampPort,   \* 8: the index transmit_pdelay_request's loop leaves in `i'
  AllowedLost,     \* allowedLostResponses
  SeqModulus,      \* 2^16: pdelayReqSequenceId wraps
  InitialLog,      \* initialLogPdelayReqInterval
  MaxTimer,        \* bound of pdelayIntervalTimer: no interval is longer
  ShiftWidth,      \* bits of the int that 1 << log is computed in
  OverShift,       \* what the build makes of 1 << log for a log that is too large
  Responses,       \* pdelay responses that may arrive
  FollowUps,       \* pdelay response follow-ups that may arrive
  Signals,         \* signaling messages that may arrive
  NoMessage        \* the follow-up of rcvdPdelayRespFollowUp = FALSE

VARIABLES
  port,      \* per port: the fields of vtss_gptp_port_vars_t that are used here
  run,       \* the port whose machine runs, and what it compared beforehand
  sent,      \* auxiliary: requests transmitted in this run, up to 2
  answered   \* auxiliary: successive requests answered more than once, up to 3

vars == <<port, run, sent, answered>>

Ports == 0..(NumPorts - 1)

(* KeepInterval is linkDelayInterval -128, ToInitial is 126. *)
KeepInterval == -128
ToInitial    == 126

MessageType == [id : 0..NumPorts, seq : Nat, own : BOOLEAN]
SignalType  == [log : Int, ratio : BOOLEAN, delay : BOOLEAN]

ASSUME PdelayAssumption ==
  /\ NumPorts \in Nat \ {0} /\ TimestampPort \in Nat /\ AllowedLost \in Nat
  /\ SeqModulus \in Nat \ {0} /\ InitialLog \in Int /\ MaxTimer \in Nat
  /\ ShiftWidth \in Nat /\ OverShift \in Nat
  /\ \A n \in 0..(ShiftWidth - 1) : 2^n \in Nat \ {0}    \* no shift within the int loses the one
  /\ Responses \subseteq MessageType /\ FollowUps \subseteq MessageType
  /\ Signals \subseteq SignalType
  /\ NoMessage \notin MessageType

States == {"NOT_ENABLED", "INITIAL_SEND", "RESET", "SEND",
           "WAIT_RESP", "WAIT_FOLLOW_UP", "WAIT_INTERVAL"}

PortType ==
  [ state      : States,                   \* mdPdelayReq_State
    enabled    : BOOLEAN,                  \* portEnabled
    asCapable  : BOOLEAN,
    timer      : 0..MaxTimer,              \* pdelayIntervalTimer
    seq        : 0..(SeqModulus - 1),      \* pdelayReqSequenceId
    stamped    : BOOLEAN,                  \* rcvdMDTimestampReceive
    rcvdResp   : BOOLEAN,                  \* rcvdPdelayResp
    resp       : Responses \cup {NoMessage},   \* *rcvdPdelayRespPtr
    fup        : FollowUps \cup {NoMessage},   \* *rcvdPdelayRespFollowUpPtr while flagged
    lost       : 0..(AllowedLost + 1),     \* lostResponses
    first      : BOOLEAN,                  \* initPdelayRespReceived
    ratioValid : BOOLEAN,                  \* neighborRateRatioValid
    near       : BOOLEAN,                  \* neighborPropDelay <= neighborPropDelayThresh
    responses  : 0..2,                     \* pdelayResponses: none, one, several
    multiple   : 0..3,                     \* multiplePdelayResponses
    linkSet    : BOOLEAN,                  \* link delay machine past NOT_ENABLED
    log        : Int,                      \* currentLogPdelayReqInterval
    ratio      : BOOLEAN,                  \* computeNeighborRateRatio
    delay      : BOOLEAN ]                 \* computeNeighborPropDelay

RunType == [at : 0..NumPorts, tick : BOOLEAN, looping : BOOLEAN,
            idOk : BOOLEAN, seqOk : BOOLEAN, fupOk : BOOLEAN]

Idle == [at |-> NumPorts, tick |-> FALSE, looping |-> FALSE,
         idOk |-> FALSE, seqOk |-> FALSE, fupOk |-> FALSE]

(* The states and values each variable ranges over. *)
TypeOK ==
  /\ port \in [Ports -> PortType]
  /\ run \in RunType
  /\ sent \in 0..2
  /\ answered \in [Ports -> 0..3]

AtMost(limit, n) == IF n <= limit THEN n ELSE limit

----------------------------------------------------------------------------
(* The LinkDelaySyncIntervalSetting machine. *)
(* PDELAY_REQ_INTERVAL_TICKS: a negative logarithm shifts the one away. *)
Interval(log) ==
  CASE log < 0 -> 0
    [] log \in 0..(ShiftWidth - 1) -> 2^log
    [] log >= ShiftWidth -> OverShift

Due(r) == r.timer >= Interval(r.log)

(* One run of the machine on a port without a pending signal. *)
LinkDelay(r) ==
  IF ~r.enabled THEN [r EXCEPT !.linkSet = FALSE]
  ELSE IF r.linkSet THEN r
  ELSE [r EXCEPT !.linkSet = TRUE, !.log = InitialLog, !.ratio = TRUE, !.delay = TRUE]

(* SET_INTERVALS: the case for 126 falls through to the default. *)
SetIntervals(r, s) ==
  [r EXCEPT !.log = IF s.log = KeepInterval THEN @ ELSE s.log,
            !.ratio = s.ratio, !.delay = s.delay]

----------------------------------------------------------------------------
(* The MDPdelayReq machine: entry actions. *)
EnterNotEnabled(r) ==
  [r EXCEPT !.state = "NOT_ENABLED", !.asCapable = FALSE, !.multiple = 0]

(* transmit_pdelay_request flags ports[i], not ports[port]: `i' is the loop  *)
(* variable of the correction field, 8 by then.                             *)
Transmit(ports) ==
  IF TimestampPort \in Ports
    THEN [ports EXCEPT ![TimestampPort].stamped = TRUE]
    ELSE ports

NextSeq(r, n) == (r.seq + n) % SeqModulus

EnterInitialSend(r) ==
  [r EXCEPT !.state = "INITIAL_SEND", !.first = FALSE, !.stamped = FALSE,
            !.seq = 1 % SeqModulus, !.rcvdResp = FALSE, !.fup = NoMessage, !.timer = 0,
            !.lost = 0, !.asCapable = FALSE, !.ratioValid = FALSE,
            !.responses = 0, !.multiple = 0]

(* The count of requests with several responses, before and after SEND.     *)
(* A request without a response leaves it alone.                            *)
MultipleAfter(r) ==
  CASE r.responses = 0 -> r.multiple
    [] r.responses = 1 -> 0
    [] r.responses = 2 -> AtMost(3, r.multiple + 1)

(* Mutant: the fourth request with several responses stops the port. *)
TooManyAtFour(r) == r.responses = 2 /\ r.multiple + 1 > 3

TooMany(r) == r.responses = 2 /\ r.multiple + 1 >= 3

(* Mutant: the interval timer is not restarted. *)
EnterSendWithoutTimer(r) ==
  [r EXCEPT !.state = "SEND", !.seq = NextSeq(r, 2), !.multiple = MultipleAfter(r),
            !.enabled = @ /\ ~TooMany(r), !.responses = 0]

EnterSend(r) ==
  [r EXCEPT !.state = "SEND", !.seq = NextSeq(r, 2), !.timer = 0,
            !.multiple = MultipleAfter(r), !.enabled = @ /\ ~TooMany(r), !.responses = 0]

(* Mutant: the lost responses are counted one further. *)
EnterResetLate(r) ==
  [r EXCEPT !.state = "RESET", !.first = FALSE, !.rcvdResp = FALSE, !.fup = NoMessage,
            !.lost = IF @ <= AllowedLost + 1 THEN @ + 1 ELSE @,
            !.asCapable = @ /\ r.lost <= AllowedLost + 1]

EnterReset(r) ==
  [r EXCEPT !.state = "RESET", !.first = FALSE, !.rcvdResp = FALSE, !.fup = NoMessage,
            !.lost = IF @ <= AllowedLost THEN @ + 1 ELSE @,
            !.asCapable = @ /\ r.lost <= AllowedLost]

(* computePdelayRateRatio: the timestamps decide between a new valid ratio,  *)
(* a difference too small for one, and timestamps that run backwards.       *)
RateRatios(r) ==
  IF ~r.ratio THEN {r}
  ELSE IF ~r.first THEN {[r EXCEPT !.first = TRUE]}
  ELSE {r, [r EXCEPT !.ratioValid = TRUE], [r EXCEPT !.first = FALSE, !.ratioValid = FALSE]}

(* computePropTime: the delay is any once there is a ratio. *)
PropTimes(r) ==
  IF r.delay /\ r.ratioValid THEN {[r EXCEPT !.near = b] : b \in BOOLEAN} ELSE {r}

(* Mutant: a neighbour counts as capable however far it is. *)
MeasuredAtAnyDelay(r) ==
  { [m EXCEPT !.state = "WAIT_INTERVAL", !.fup = NoMessage, !.lost = 0,
              !.asCapable = ~r.resp.own /\ m.ratioValid] :
      m \in UNION {PropTimes(n) : n \in RateRatios(r)} }

(* WAITING_FOR_PDELAY_INTERVAL_TIMER *)
Measured(r) ==
  { [m EXCEPT !.state = "WAIT_INTERVAL", !.fup = NoMessage, !.lost = 0,
              !.asCapable = m.near /\ ~r.resp.own /\ m.ratioValid] :
      m \in UNION {PropTimes(n) : n \in RateRatios(r)} }

----------------------------------------------------------------------------
(***************************************************************************)
(* A run of the machine.  What it compares is read before its loop, and    *)
(* portEnabled is examined only there.                                     *)
(***************************************************************************)
Answers(m, r, p) == m.id = p /\ m.seq = r.seq

RunAt(p, r, tick) ==
  [ at |-> p, tick |-> tick, looping |-> r.enabled,
    idOk  |-> r.rcvdResp /\ r.resp.id = p,
    seqOk |-> r.rcvdResp /\ r.resp.seq = r.seq,
    fupOk |-> r.fup # NoMessage /\ Answers(r.fup, r, p) ]

Begin(ports, p, tick) ==
  /\ port' = ports
  /\ run' = RunAt(p, ports[p], tick)
  /\ sent' = 0
  /\ UNCHANGED answered

(* What the tick does on a port before it runs the machine. *)
Ticked(r) == [LinkDelay(r) EXCEPT !.timer = AtMost(MaxTimer, @ + 1)]

BeginTick(ports, p) == Begin([ports EXCEPT ![p] = Ticked(@)], p, TRUE)

(* Mutant: the loop goes on although its state did not change. *)
EndWithoutReturn(ports) == port' = ports /\ UNCHANGED <<run, sent, answered>>

(* The run ends; a tick goes on to the next port. *)
End(ports) ==
  IF run.tick /\ run.at + 1 < NumPorts
    THEN BeginTick(ports, run.at + 1)
    ELSE /\ port' = ports /\ run' = Idle /\ sent' = 0
         /\ UNCHANGED answered

Enter(p, record) ==
  /\ port' = [port EXCEPT ![p] = record]
  /\ UNCHANGED <<run, sent, answered>>

In(p, states) == run.at = p /\ run.looping /\ port[p].state \in states

----------------------------------------------------------------------------
(* One iteration of the loop each. *)
StayDisabled(p) ==
  /\ run.at = p /\ ~run.looping
  /\ End([port EXCEPT ![p] = IF @.state = "NOT_ENABLED" THEN @ ELSE EnterNotEnabled(@)])

StartMeasuring(p) ==
  /\ In(p, {"NOT_ENABLED"})
  /\ port' = Transmit([port EXCEPT ![p] = EnterInitialSend(@)])
  /\ sent' = AtMost(2, sent + 1)
  /\ answered' = [answered EXCEPT ![p] = 0]
  /\ UNCHANGED run

SendNext(p) ==
  /\ \/ In(p, {"RESET"})
     \/ In(p, {"WAIT_INTERVAL"}) /\ Due(port[p])
  /\ port' = Transmit([port EXCEPT ![p] = EnterSend(@)])
  /\ sent' = AtMost(2, sent + 1)
  /\ answered' = [answered EXCEPT ![p] = IF port[p].responses = 2 THEN AtMost(3, @ + 1) ELSE 0]
  /\ UNCHANGED run

TakeTimestamp(p) ==
  /\ In(p, {"INITIAL_SEND", "SEND"}) /\ port[p].stamped
  /\ Enter(p, [port[p] EXCEPT !.state = "WAIT_RESP", !.stamped = FALSE])

MissTimestamp(p) ==
  /\ In(p, {"INITIAL_SEND", "SEND"}) /\ ~port[p].stamped /\ Due(port[p])
  /\ Enter(p, EnterReset(port[p]))

(* Mutant: the port a response was sent to is not compared. *)
ResponseFailsBySequence(p) == Due(port[p]) \/ (port[p].rcvdResp /\ ~run.seqOk)

(* The interval is over, or the response is none to this request. *)
ResponseFails(p) ==
  Due(port[p]) \/ (port[p].rcvdResp /\ ~(run.idOk /\ run.seqOk))

GiveUpResponse(p) ==
  /\ In(p, {"WAIT_RESP"}) /\ ResponseFails(p)
  /\ Enter(p, EnterReset(port[p]))

AcceptResponse(p) ==
  /\ In(p, {"WAIT_RESP"}) /\ ~ResponseFails(p) /\ port[p].rcvdResp
  /\ Enter(p, [port[p] EXCEPT !.state = "WAIT_FOLLOW_UP", !.rcvdResp = FALSE])

(* Mutant: a follow-up is awaited without limit. *)
AnsweredAgain(p) == port[p].rcvdResp /\ run.seqOk

(* The interval is over, or the request was answered again. *)
FollowUpFails(p) == Due(port[p]) \/ (port[p].rcvdResp /\ run.seqOk)

GiveUpFollowUp(p) ==
  /\ In(p, {"WAIT_FOLLOW_UP"}) /\ FollowUpFails(p)
  /\ Enter(p, EnterReset(port[p]))

AcceptFollowUp(p) ==
  /\ In(p, {"WAIT_FOLLOW_UP"}) /\ ~FollowUpFails(p)
  /\ port[p].fup # NoMessage /\ run.fupOk
  /\ \E m \in Measured(port[p]) : Enter(p, m)

(* No transition is left: the state did not change in the iteration. *)
Settled(p) ==
  \/ In(p, {"INITIAL_SEND", "SEND"}) /\ ~port[p].stamped /\ ~Due(port[p])
  \/ In(p, {"WAIT_RESP"}) /\ ~ResponseFails(p) /\ ~port[p].rcvdResp
  \/ /\ In(p, {"WAIT_FOLLOW_UP"}) /\ ~FollowUpFails(p)
     /\ port[p].fup = NoMessage \/ ~run.fupOk
  \/ In(p, {"WAIT_INTERVAL"}) /\ ~Due(port[p])

Return(p) == Settled(p) /\ End(port)

Step(p) ==
  \/ StayDisabled(p) \/ StartMeasuring(p) \/ SendNext(p)
  \/ TakeTimestamp(p) \/ MissTimestamp(p)
  \/ GiveUpResponse(p) \/ AcceptResponse(p)
  \/ GiveUpFollowUp(p) \/ AcceptFollowUp(p)
  \/ Return(p)

----------------------------------------------------------------------------
(* The calls. *)
Tick == run = Idle /\ BeginTick(port, 0)

ReceiveResponse(p, m) ==
  /\ run = Idle
  /\ Begin([port EXCEPT ![p].rcvdResp = TRUE, ![p].resp = m,
                        ![p].responses = AtMost(2, @ + 1)], p, FALSE)

ReceiveFollowUp(p, m) ==
  /\ run = Idle
  /\ Begin([port EXCEPT ![p].fup = m], p, FALSE)

(* rcvdPdelayRespPtr and rcvdPdelayRespFollowUpPtr point into the receive   *)
(* buffers, which the driver refills between two calls: a later call reads  *)
(* what is there then, the response also after its flag was cleared.        *)
ReuseRespBuffer(p, m) ==
  /\ run = Idle
  /\ port[p].resp # NoMessage
  /\ port' = [port EXCEPT ![p].resp = m]
  /\ UNCHANGED <<run, sent, answered>>

ReuseFollowUpBuffer(p, m) ==
  /\ run = Idle
  /\ port[p].fup # NoMessage
  /\ port' = [port EXCEPT ![p].fup = m]
  /\ UNCHANGED <<run, sent, answered>>

(* A signal is handled at once or, before the machine initialised, dropped. *)
ReceiveSignal(p, s) ==
  /\ run = Idle
  /\ port' = [port EXCEPT ![p] =
       IF @.enabled /\ @.linkSet THEN SetIntervals(@, s) ELSE LinkDelay(@)]
  /\ UNCHANGED <<run, sent, answered>>

(* A request of this system, sent on port q, comes back on port p. *)
ReceiveOwnRequest(p, q) ==
  /\ run = Idle
  /\ port' = [r \in Ports |-> IF r \in {p, q} THEN [port[r] EXCEPT !.enabled = FALSE]
                              ELSE port[r]]
  /\ UNCHANGED <<run, sent, answered>>

(* vtss_gptp_deinit *)
Restarted(r) ==
  [r EXCEPT !.state = "NOT_ENABLED", !.enabled = TRUE, !.asCapable = TRUE,
            !.timer = 0, !.near = TRUE]

Deinit ==
  /\ run = Idle
  /\ port' = [p \in Ports |-> Restarted(port[p])]
  /\ answered' = [p \in Ports |-> 0]
  /\ UNCHANGED <<run, sent>>

(* gptp_sw_init on zeroed memory *)
BootPort ==
  [ state |-> "NOT_ENABLED", enabled |-> TRUE, asCapable |-> TRUE, timer |-> 0, seq |-> 0,
    stamped |-> FALSE, rcvdResp |-> FALSE, resp |-> NoMessage, fup |-> NoMessage,
    lost |-> 0, first |-> FALSE, ratioValid |-> FALSE, near |-> TRUE, responses |-> 0,
    multiple |-> 0, linkSet |-> FALSE, log |-> 0, ratio |-> FALSE, delay |-> FALSE ]

Init ==
  /\ port = [p \in Ports |-> BootPort]
  /\ run = Idle
  /\ sent = 0
  /\ answered = [p \in Ports |-> 0]

Next ==
  \/ Tick
  \/ \E p \in Ports : Step(p)
  \/ \E p \in Ports, m \in Responses : ReceiveResponse(p, m)
  \/ \E p \in Ports, m \in FollowUps : ReceiveFollowUp(p, m)
  \/ \E p \in Ports, m \in Responses : ReuseRespBuffer(p, m)
  \/ \E p \in Ports, m \in FollowUps : ReuseFollowUpBuffer(p, m)
  \/ \E p \in Ports, s \in Signals : ReceiveSignal(p, s)
  \/ \E p, q \in Ports : ReceiveOwnRequest(p, q)
  \/ Deinit

(* A call runs on to its end. *)
RunsOn(p) == WF_vars(Step(p))

CallsRunOn == \A p \in Ports : RunsOn(p)

(* The OS calls the tick once a second, between other calls too. *)
Spec == Init /\ [][Next]_vars /\ SF_vars(Tick) /\ CallsRunOn

----------------------------------------------------------------------------
(***************************************************************************)
(* Properties.                                                             *)
(***************************************************************************)
(* A port counts as capable only after an exchange with its neighbour that  *)
(* gave a rate ratio and a short delay, however many resets lie in between, *)
(* or between a restart and the tick that follows.  Only the port that      *)
(* transmit_pdelay_request takes timestamps for ever gets there.            *)
CapableHasMeasured ==
  \A p \in Ports : port[p].asCapable /\ port[p].state # "NOT_ENABLED" =>
    /\ p = TimestampPort
    /\ port[p].ratioValid /\ port[p].near /\ port[p].resp # NoMessage
    /\ port[p].state # "INITIAL_SEND"

(* A port whose last three requests were each answered more than once stops *)
(* for good, whatever responses, follow-ups and ticks came in between       *)
(* (AVnu_PTP-5, quoted at vtss_gptp.c:2683).                                *)
CeasesAfterThree ==
  \A p \in Ports : answered[p] = 3 => ~port[p].enabled

(* A port that takes no timestamp sends at most one request in a call, as   *)
(* long as no neighbour signals a negative interval: the reset after an     *)
(* interval without a timestamp does not repeat within the call.            *)
OneRequestPerCall ==
  \A p \in Ports : run.at = p /\ p # TimestampPort => sent <= 1

(* A call in progress always has an iteration to make or an end to reach,   *)
(* whatever its loop compared before it began, and between two calls there  *)
(* is always a tick to take.                                                *)
TickMoves == run = Idle => ENABLED <<Tick>>_vars

StepMoves(p) == run.at = p => ENABLED <<Step(p)>>_vars

CallsMove == TickMoves /\ \A p \in Ports : StepMoves(p)

(* An enabled port keeps sending requests: no lost, late or foreign answer  *)
(* and no signalled interval keeps the machine waiting for ever.            *)
KeepsRequesting ==
  \A p \in Ports : port[p].enabled ~> (~port[p].enabled \/ (run.at = p /\ sent > 0))

(* What the machine accepts is never older than one request.  It answers    *)
(* the last request, or the one before, and that only in the very call that *)
(* sent the last, which compared beforehand; and it was sent to this port.  *)
AnswersLatest(m, p) ==
  /\ m.id = p
  /\ m.seq = port[p].seq \/ (sent = 1 /\ (m.seq + 2) % SeqModulus = port[p].seq)

AcceptsNothingOlder ==
  [][\A p \in Ports :
       /\ port[p].state = "WAIT_RESP" /\ port'[p].state = "WAIT_FOLLOW_UP" =>
            AnswersLatest(port[p].resp, p)
       /\ port[p].state = "WAIT_FOLLOW_UP" /\ port'[p].state = "WAIT_INTERVAL" =>
            AnswersLatest(port[p].fup, p)]_vars

=============================================================================
