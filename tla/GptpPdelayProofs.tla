-------------------------- MODULE GptpPdelayProofs --------------------------
(***************************************************************************)
(* Proofs about GptpPdelay: type correctness, the safety properties of its *)
(* runs, that every call returns, and that requests never end.  First what *)
(* an entry action does to the record of a port, then what a call does to  *)
(* the ports, then one lemma per invariant for the steps of the machine    *)
(* and one for the calls; at the end what counts down, and why it does.    *)
(***************************************************************************)
EXTENDS GptpPdelay, TLAPS

(***************************************************************************)
(* Types.  A record is updated with variables first: the solver is at home *)
(* with those, not with the literals of the definitions.                   *)
(***************************************************************************)
LEMMA AtMostType ==
  ASSUME NEW limit \in Nat, NEW n \in Nat
  PROVE  AtMost(limit, n) \in 0..limit
  BY DEF AtMost

LEMMA NextSeqType ==
  ASSUME NEW r \in PortType, NEW n \in Nat
  PROVE  NextSeq(r, n) \in 0..(SeqModulus - 1)
  BY PdelayAssumption DEF NextSeq, PortType

LEMMA LiteralTypes ==
  /\ "NOT_ENABLED" \in States /\ "INITIAL_SEND" \in States /\ "RESET" \in States
  /\ "SEND" \in States /\ "WAIT_RESP" \in States /\ "WAIT_FOLLOW_UP" \in States
  /\ "WAIT_INTERVAL" \in States
  /\ 0 \in 0..MaxTimer /\ 1 % SeqModulus \in 0..(SeqModulus - 1)
  /\ 0 \in 0..(AllowedLost + 1) /\ 0 \in 0..2 /\ 0 \in 0..3
  /\ NoMessage \in FollowUps \cup {NoMessage}
  /\ TRUE \in BOOLEAN /\ FALSE \in BOOLEAN
  BY PdelayAssumption DEF States

LEMMA EnterNotEnabledType ==
  ASSUME NEW r \in PortType  PROVE EnterNotEnabled(r) \in PortType
<1>1. ASSUME NEW s \in States, NEW a \in BOOLEAN, NEW m \in 0..3
      PROVE  [r EXCEPT !.state = s, !.asCapable = a, !.multiple = m] \in PortType
  BY DEF PortType
<1>. QED  BY <1>1, LiteralTypes, Zenon DEF EnterNotEnabled

LEMMA EnterInitialSendType ==
  ASSUME NEW r \in PortType  PROVE EnterInitialSend(r) \in PortType
<1>1. ASSUME NEW s \in States, NEW b \in BOOLEAN, NEW q \in 0..(SeqModulus - 1),
             NEW g \in FollowUps \cup {NoMessage}, NEW t \in 0..MaxTimer,
             NEW n \in 0..(AllowedLost + 1), NEW c \in 0..2, NEW m \in 0..3
      PROVE  [r EXCEPT !.state = s, !.first = b, !.stamped = b, !.seq = q, !.rcvdResp = b,
                       !.fup = g, !.timer = t, !.lost = n, !.asCapable = b, !.ratioValid = b,
                       !.responses = c, !.multiple = m] \in PortType
  BY ZenonT(60) DEF PortType
<1>. QED  BY <1>1, LiteralTypes, ZenonT(60) DEF EnterInitialSend

LEMMA EnterSendType ==
  ASSUME NEW r \in PortType  PROVE EnterSend(r) \in PortType
<1>1. MultipleAfter(r) \in 0..3
  <2>1. r.responses \in 0..2 /\ r.multiple \in 0..3
    BY DEF PortType
  <2>. QED  BY <2>1 DEF MultipleAfter, AtMost
<1>2. NextSeq(r, 2) \in 0..(SeqModulus - 1) /\ (r.enabled /\ ~TooMany(r)) \in BOOLEAN
  BY NextSeqType
<1>3. ASSUME NEW s \in States, NEW q \in 0..(SeqModulus - 1), NEW t \in 0..MaxTimer,
             NEW m \in 0..3, NEW b \in BOOLEAN, NEW c \in 0..2
      PROVE  [r EXCEPT !.state = s, !.seq = q, !.timer = t, !.multiple = m, !.enabled = b,
                       !.responses = c] \in PortType
  BY DEF PortType
<1>. QED  BY <1>1, <1>2, <1>3, LiteralTypes, Zenon DEF EnterSend

LEMMA EnterResetType ==
  ASSUME NEW r \in PortType  PROVE EnterReset(r) \in PortType
<1>. DEFINE n == IF r.lost <= AllowedLost THEN r.lost + 1 ELSE r.lost
            a == r.asCapable /\ r.lost <= AllowedLost
<1>1. n \in 0..(AllowedLost + 1) /\ a \in BOOLEAN
  <2>1. r.lost \in 0..(AllowedLost + 1)
    BY DEF PortType
  <2>. QED  BY <2>1, PdelayAssumption
<1>2. EnterReset(r) = [r EXCEPT !.state = "RESET", !.first = FALSE, !.rcvdResp = FALSE,
                                !.fup = NoMessage, !.lost = n, !.asCapable = a]
  BY DEF EnterReset
<1>3. ASSUME NEW s \in States, NEW b \in BOOLEAN, NEW g \in FollowUps \cup {NoMessage},
             NEW k \in 0..(AllowedLost + 1), NEW c \in BOOLEAN
      PROVE  [r EXCEPT !.state = s, !.first = b, !.rcvdResp = b, !.fup = g, !.lost = k,
                       !.asCapable = c] \in PortType
  BY DEF PortType
<1>. HIDE DEF n, a
<1>4. ASSUME NEW k \in 0..(AllowedLost + 1), NEW c \in BOOLEAN
      PROVE  [r EXCEPT !.state = "RESET", !.first = FALSE, !.rcvdResp = FALSE,
                       !.fup = NoMessage, !.lost = k, !.asCapable = c] \in PortType
  BY <1>3, LiteralTypes, Zenon
<1>. QED  BY <1>1, <1>2, <1>4, Zenon

LEMMA RestartedType ==
  ASSUME NEW r \in PortType  PROVE Restarted(r) \in PortType
<1>1. ASSUME NEW s \in States, NEW b \in BOOLEAN, NEW t \in 0..MaxTimer
      PROVE  [r EXCEPT !.state = s, !.enabled = b, !.asCapable = b, !.timer = t,
                       !.near = b] \in PortType
  BY DEF PortType
<1>. QED  BY <1>1, LiteralTypes, Zenon DEF Restarted

LEMMA RateRatiosType ==
  ASSUME NEW r \in PortType, NEW n \in RateRatios(r)  PROVE n \in PortType
<1>1. ASSUME NEW b \in BOOLEAN
      PROVE  /\ [r EXCEPT !.first = b] \in PortType
             /\ [r EXCEPT !.ratioValid = b] \in PortType
             /\ [r EXCEPT !.first = b, !.ratioValid = b] \in PortType
  BY DEF PortType
<1>2. \/ n = r \/ n = [r EXCEPT !.first = TRUE] \/ n = [r EXCEPT !.ratioValid = TRUE]
      \/ n = [r EXCEPT !.first = FALSE, !.ratioValid = FALSE]
  BY Zenon DEF RateRatios
<1>. QED  BY <1>1, <1>2, LiteralTypes, Zenon

LEMMA PropTimesType ==
  ASSUME NEW r \in PortType, NEW n \in PropTimes(r)  PROVE n \in PortType
<1>1. ASSUME NEW b \in BOOLEAN  PROVE [r EXCEPT !.near = b] \in PortType
  BY DEF PortType
<1>2. n = r \/ \E b \in BOOLEAN : n = [r EXCEPT !.near = b]
  BY Zenon DEF PropTimes
<1>. QED  BY <1>1, <1>2, Zenon

(* A completed measurement: the ratio, then the delay, then the verdict. *)
LEMMA MeasuredSteps ==
  ASSUME NEW r \in PortType, NEW m \in Measured(r)
  PROVE  \E n \in RateRatios(r) : \E k \in PropTimes(n) :
           m = [k EXCEPT !.state = "WAIT_INTERVAL", !.fup = NoMessage, !.lost = 0,
                         !.asCapable = k.near /\ ~r.resp.own /\ k.ratioValid]
<1>1. PICK k \in UNION {PropTimes(n) : n \in RateRatios(r)} :
        m = [k EXCEPT !.state = "WAIT_INTERVAL", !.fup = NoMessage, !.lost = 0,
                      !.asCapable = k.near /\ ~r.resp.own /\ k.ratioValid]
  BY DEF Measured
<1>2. PICK n \in RateRatios(r) : k \in PropTimes(n)
  OBVIOUS
<1>. QED  BY <1>1, <1>2, Zenon

LEMMA MeasuredType ==
  ASSUME NEW r \in PortType, NEW m \in Measured(r)  PROVE m \in PortType
<1>0. PICK n \in RateRatios(r) : \E k \in PropTimes(n) :
        m = [k EXCEPT !.state = "WAIT_INTERVAL", !.fup = NoMessage, !.lost = 0,
                      !.asCapable = k.near /\ ~r.resp.own /\ k.ratioValid]
  BY MeasuredSteps, ZenonT(60)
<1>1. PICK k \in PropTimes(n) :
        m = [k EXCEPT !.state = "WAIT_INTERVAL", !.fup = NoMessage, !.lost = 0,
                      !.asCapable = k.near /\ ~r.resp.own /\ k.ratioValid]
  BY <1>0
<1>2. k \in PortType
  BY RateRatiosType, PropTimesType, Zenon
<1>3. (k.near /\ ~r.resp.own /\ k.ratioValid) \in BOOLEAN
  OBVIOUS
<1>4. ASSUME NEW s \in States, NEW g \in FollowUps \cup {NoMessage},
             NEW n2 \in 0..(AllowedLost + 1), NEW b \in BOOLEAN
      PROVE  [k EXCEPT !.state = s, !.fup = g, !.lost = n2, !.asCapable = b] \in PortType
  BY <1>2 DEF PortType
<1>. QED  BY <1>1, <1>3, <1>4, LiteralTypes, Zenon

LEMMA LinkDelayType ==
  ASSUME NEW r \in PortType  PROVE LinkDelay(r) \in PortType
<1>1. ASSUME NEW b \in BOOLEAN, NEW l \in Int
      PROVE  /\ [r EXCEPT !.linkSet = b] \in PortType
             /\ [r EXCEPT !.linkSet = b, !.log = l, !.ratio = b, !.delay = b] \in PortType
  BY DEF PortType
<1>2. InitialLog \in Int
  BY PdelayAssumption
<1>. QED  BY <1>1, <1>2, LiteralTypes, Zenon DEF LinkDelay

LEMMA TickedType ==
  ASSUME NEW r \in PortType  PROVE Ticked(r) \in PortType
<1>1. LinkDelay(r) \in PortType
  BY LinkDelayType
<1>2. ASSUME NEW q \in PortType, NEW t \in 0..MaxTimer
      PROVE  [q EXCEPT !.timer = t] \in PortType
  BY DEF PortType
<1>3. ASSUME NEW q \in PortType  PROVE AtMost(MaxTimer, q.timer + 1) \in 0..MaxTimer
  <2>1. q.timer + 1 \in Nat /\ MaxTimer \in Nat
    BY PdelayAssumption DEF PortType
  <2>. QED  BY <2>1, AtMostType
<1>. QED  BY <1>1, <1>2, <1>3, Zenon DEF Ticked

(***************************************************************************)
(* What the entry actions do to the fields the invariants speak of.        *)
(***************************************************************************)
LEMMA ResetEffect ==
  ASSUME NEW r \in PortType
  PROVE  /\ EnterReset(r).state = "RESET"
         /\ EnterReset(r).asCapable => r.asCapable
         /\ ~EnterReset(r).rcvdResp
         /\ EnterReset(r).stamped = r.stamped /\ EnterReset(r).ratioValid = r.ratioValid
         /\ EnterReset(r).near = r.near /\ EnterReset(r).resp = r.resp
         /\ EnterReset(r).enabled = r.enabled /\ EnterReset(r).multiple = r.multiple
         /\ EnterReset(r).log = r.log
  BY DEF EnterReset, PortType

LEMMA SendEffect ==
  ASSUME NEW r \in PortType
  PROVE  /\ EnterSend(r).state = "SEND" /\ EnterSend(r).timer = 0
         /\ EnterSend(r).enabled = (r.enabled /\ ~TooMany(r))
         /\ EnterSend(r).multiple = MultipleAfter(r)
         /\ EnterSend(r).asCapable = r.asCapable /\ EnterSend(r).rcvdResp = r.rcvdResp
         /\ EnterSend(r).stamped = r.stamped /\ EnterSend(r).ratioValid = r.ratioValid
         /\ EnterSend(r).near = r.near /\ EnterSend(r).resp = r.resp
         /\ EnterSend(r).log = r.log
  BY DEF EnterSend, PortType

LEMMA InitialSendEffect ==
  ASSUME NEW r \in PortType
  PROVE  /\ EnterInitialSend(r).state = "INITIAL_SEND" /\ EnterInitialSend(r).timer = 0
         /\ ~EnterInitialSend(r).asCapable /\ ~EnterInitialSend(r).rcvdResp
         /\ ~EnterInitialSend(r).stamped /\ EnterInitialSend(r).multiple = 0
         /\ EnterInitialSend(r).enabled = r.enabled /\ EnterInitialSend(r).log = r.log
  BY DEF EnterInitialSend, PortType

LEMMA TickedEffect ==
  ASSUME NEW r \in PortType
  PROVE  /\ Ticked(r).state = r.state /\ Ticked(r).enabled = r.enabled
         /\ Ticked(r).asCapable = r.asCapable /\ Ticked(r).rcvdResp = r.rcvdResp
         /\ Ticked(r).stamped = r.stamped /\ Ticked(r).ratioValid = r.ratioValid
         /\ Ticked(r).near = r.near /\ Ticked(r).resp = r.resp
         /\ Ticked(r).multiple = r.multiple
         /\ Ticked(r).log \in {r.log, InitialLog}
  BY DEF Ticked, LinkDelay, PortType

LEMMA MeasuredEffect ==
  ASSUME NEW r \in PortType, NEW m \in Measured(r)
  PROVE  /\ m.state = "WAIT_INTERVAL" /\ m.enabled = r.enabled
         /\ m.asCapable => m.near /\ m.ratioValid
         /\ m.stamped = r.stamped /\ m.rcvdResp = r.rcvdResp
         /\ m.resp = r.resp /\ m.multiple = r.multiple /\ m.log = r.log
<1>1. PICK n \in RateRatios(r) : \E k \in PropTimes(n) :
        m = [k EXCEPT !.state = "WAIT_INTERVAL", !.fup = NoMessage, !.lost = 0,
                      !.asCapable = k.near /\ ~r.resp.own /\ k.ratioValid]
  BY MeasuredSteps, Zenon
<1>2. PICK k \in PropTimes(n) :
        m = [k EXCEPT !.state = "WAIT_INTERVAL", !.fup = NoMessage, !.lost = 0,
                      !.asCapable = k.near /\ ~r.resp.own /\ k.ratioValid]
  BY <1>1
<1>3. /\ n.enabled = r.enabled /\ n.stamped = r.stamped /\ n.rcvdResp = r.rcvdResp
      /\ n.resp = r.resp /\ n.multiple = r.multiple /\ n.log = r.log
  BY DEF RateRatios, PortType
<1>4. n \in PortType /\ k \in PortType
  BY RateRatiosType, PropTimesType, Zenon
<1>5. /\ k.enabled = n.enabled /\ k.stamped = n.stamped /\ k.rcvdResp = n.rcvdResp
      /\ k.resp = n.resp /\ k.multiple = n.multiple /\ k.log = n.log
  BY <1>4 DEF PropTimes, PortType
<1>6. /\ m.state = "WAIT_INTERVAL" /\ m.asCapable = (k.near /\ ~r.resp.own /\ k.ratioValid)
      /\ m.near = k.near /\ m.ratioValid = k.ratioValid
      /\ m.enabled = k.enabled /\ m.stamped = k.stamped /\ m.rcvdResp = k.rcvdResp
      /\ m.resp = k.resp /\ m.multiple = k.multiple /\ m.log = k.log
  BY <1>2, <1>4 DEF PortType
<1>. QED  BY <1>3, <1>5, <1>6

(***************************************************************************)
(* What the calls do to the ports as a whole.                              *)
(***************************************************************************)
LEMMA TransmitEffect ==
  ASSUME NEW ports \in [Ports -> PortType]
  PROVE  /\ Transmit(ports) \in [Ports -> PortType]
         /\ \A p \in Ports \ {TimestampPort} : Transmit(ports)[p] = ports[p]
         /\ TimestampPort \in Ports =>
              Transmit(ports)[TimestampPort] = [ports[TimestampPort] EXCEPT !.stamped = TRUE]
<1>1. ASSUME NEW r \in PortType, NEW b \in BOOLEAN
      PROVE  [r EXCEPT !.stamped = b] \in PortType
  BY DEF PortType
<1>2. CASE TimestampPort \in Ports
  <2>. DEFINE q == TimestampPort
              e == [ports[q] EXCEPT !.stamped = TRUE]
  <2>1. e \in PortType
    BY <1>1, <1>2, LiteralTypes, Zenon
  <2>2. Transmit(ports) = [ports EXCEPT ![q] = e]
    BY <1>2 DEF Transmit
  <2>. HIDE DEF q, e
  <2>3. /\ [ports EXCEPT ![q] = e] \in [Ports -> PortType]
        /\ \A p \in Ports \ {q} : [ports EXCEPT ![q] = e][p] = ports[p]
        /\ q \in Ports => [ports EXCEPT ![q] = e][q] = e
    BY <2>1
  <2>. QED  BY <2>2, <2>3 DEF q, e
<1>3. CASE TimestampPort \notin Ports
  BY <1>3 DEF Transmit
<1>. QED  BY <1>2, <1>3

(* The port a tick goes on to. *)
LEMMA BeginTickEffect ==
  ASSUME NEW ports \in [Ports -> PortType], NEW q \in Ports, BeginTick(ports, q)
  PROVE  /\ port' \in [Ports -> PortType]
         /\ \A p \in Ports : port'[p] \in {ports[p], Ticked(ports[p])}
         /\ run' = RunAt(q, port'[q], TRUE)
         /\ sent' = 0 /\ UNCHANGED answered
<1>. DEFINE e == Ticked(ports[q])
<1>1. e \in PortType
  BY TickedType
<1>2. port' = [ports EXCEPT ![q] = e] /\ run' = RunAt(q, port'[q], TRUE)
      /\ sent' = 0 /\ UNCHANGED answered
  BY DEF BeginTick, Begin
<1>3. e \in {ports[q], Ticked(ports[q])}
  OBVIOUS
<1>. HIDE DEF e
<1>4. /\ [ports EXCEPT ![q] = e] \in [Ports -> PortType]
      /\ \A p \in Ports \ {q} : [ports EXCEPT ![q] = e][p] = ports[p]
      /\ [ports EXCEPT ![q] = e][q] = e
  BY <1>1
<1>5. ASSUME NEW p \in Ports  PROVE port'[p] \in {ports[p], Ticked(ports[p])}
  <2>1. CASE p = q
    BY <1>2, <1>3, <1>4, <2>1, Zenon
  <2>2. CASE p # q
    BY <1>2, <1>4, <2>2
  <2>. QED  BY <2>1, <2>2
<1>. QED  BY <1>2, <1>4, <1>5

LEMMA RunAtType ==
  ASSUME NEW p \in Ports, NEW r \in PortType, NEW tick \in BOOLEAN
  PROVE  /\ RunAt(p, r, tick) \in RunType
         /\ RunAt(p, r, tick).at = p /\ RunAt(p, r, tick).looping = r.enabled
<1>1. p \in 0..NumPorts /\ r.enabled \in BOOLEAN
  BY PdelayAssumption DEF Ports, PortType
<1>. QED  BY <1>1 DEF RunAt, RunType

LEMMA IdleType == Idle \in RunType /\ Idle.at \notin Ports
  BY PdelayAssumption DEF Idle, RunType, Ports

(* After a run there is none, or the tick's on the next port. *)
LEMMA EndEffect ==
  ASSUME NEW ports \in [Ports -> PortType], run \in RunType, run.at \in Ports, End(ports)
  PROVE  /\ port' \in [Ports -> PortType]
         /\ \A p \in Ports : port'[p] \in {ports[p], Ticked(ports[p])}
         /\ run' = Idle \/ \E q \in Ports : run' = RunAt(q, port'[q], TRUE)
         /\ sent' = 0 /\ UNCHANGED answered
<1>1. CASE run.tick /\ run.at + 1 < NumPorts
  <2>1. run.at + 1 \in Ports /\ BeginTick(ports, run.at + 1)
    BY <1>1, PdelayAssumption DEF End, Ports
  <2>. QED  BY <2>1, BeginTickEffect
<1>2. CASE ~(run.tick /\ run.at + 1 < NumPorts)
  BY <1>2 DEF End
<1>. QED  BY <1>1, <1>2

(***************************************************************************)
(* Type correctness.                                                       *)
(***************************************************************************)
LEMMA InitTypes == Init => TypeOK
<1>. SUFFICES ASSUME Init PROVE TypeOK
  OBVIOUS
<1>1. BootPort \in PortType
  <2>1. ASSUME NEW t \in 0..MaxTimer, NEW q \in 0..(SeqModulus - 1), NEW c \in 0..2,
               NEW n \in 0..(AllowedLost + 1), NEW m \in 0..3, NEW l \in Int,
               NEW s \in States, NEW a \in BOOLEAN, NEW b \in BOOLEAN
        PROVE  [ state |-> s, enabled |-> a, asCapable |-> a, timer |-> t, seq |-> q,
                 stamped |-> b, rcvdResp |-> b, resp |-> NoMessage, fup |-> NoMessage,
                 lost |-> n, first |-> b, ratioValid |-> b, near |-> a, responses |-> c,
                 multiple |-> m, linkSet |-> b, log |-> l, ratio |-> b, delay |-> b ]
                 \in PortType
    BY DEF PortType
  <2>2. 0 \in 0..(SeqModulus - 1) /\ 0 \in Int
    BY PdelayAssumption
  <2>. QED  BY <2>1, <2>2, LiteralTypes, ZenonT(60) DEF BootPort
<1>2. port \in [Ports -> PortType] /\ answered \in [Ports -> 0..3]
  BY <1>1 DEF Init
<1>. QED  BY <1>2, IdleType DEF Init, TypeOK

LEMMA EnterKeepsTypes ==
  ASSUME TypeOK, NEW p \in Ports, NEW r \in PortType, Enter(p, r)
  PROVE  TypeOK'
  BY DEF Enter, TypeOK

LEMMA StepTypes ==
  ASSUME TypeOK, NEW p \in Ports, Step(p)
  PROVE  TypeOK'
<1>t. /\ port \in [Ports -> PortType] /\ port[p] \in PortType
      /\ run \in RunType /\ sent \in 0..2 /\ answered \in [Ports -> 0..3]
  BY DEF TypeOK
<1>a. AtMost(2, sent + 1) \in 0..2
  BY <1>t DEF AtMost
<1>s. ASSUME NEW s \in States, NEW b \in BOOLEAN
      PROVE  /\ [port[p] EXCEPT !.state = s, !.stamped = b] \in PortType
             /\ [port[p] EXCEPT !.state = s, !.rcvdResp = b] \in PortType
  BY <1>t DEF PortType
<1>e. ASSUME NEW ports \in [Ports -> PortType], run.at = p, End(ports)
      PROVE  TypeOK'
  <2>1. /\ port' \in [Ports -> PortType] /\ sent' = 0 /\ UNCHANGED answered
        /\ run' = Idle \/ \E q \in Ports : run' = RunAt(q, port'[q], TRUE)
    BY <1>t, <1>e, EndEffect
  <2>2. run' \in RunType
    <3>1. ASSUME NEW q \in Ports  PROVE RunAt(q, port'[q], TRUE) \in RunType
      BY <2>1, RunAtType
    <3>. QED  BY <2>1, <3>1, IdleType
  <2>. QED  BY <1>t, <2>1, <2>2 DEF TypeOK
<1>1. CASE StayDisabled(p)
  <2>. DEFINE r == IF port[p].state = "NOT_ENABLED" THEN port[p] ELSE EnterNotEnabled(port[p])
  <2>1. r \in PortType
    BY <1>t, EnterNotEnabledType
  <2>2. run.at = p /\ End([port EXCEPT ![p] = r])
    BY <1>1 DEF StayDisabled
  <2>. HIDE DEF r
  <2>3. [port EXCEPT ![p] = r] \in [Ports -> PortType]
    BY <1>t, <2>1
  <2>. QED  BY <1>e, <2>2, <2>3
<1>2. CASE StartMeasuring(p)
  <2>1. [port EXCEPT ![p] = EnterInitialSend(port[p])] \in [Ports -> PortType]
    BY <1>t, EnterInitialSendType
  <2>2. port' \in [Ports -> PortType]
    BY <1>2, <2>1, TransmitEffect DEF StartMeasuring
  <2>3. answered' \in [Ports -> 0..3]
    BY <1>t, <1>2 DEF StartMeasuring
  <2>. QED  BY <1>t, <1>a, <1>2, <2>2, <2>3 DEF StartMeasuring, TypeOK
<1>3. CASE SendNext(p)
  <2>1. [port EXCEPT ![p] = EnterSend(port[p])] \in [Ports -> PortType]
    BY <1>t, EnterSendType
  <2>2. port' \in [Ports -> PortType]
    BY <1>3, <2>1, TransmitEffect DEF SendNext
  <2>3. answered' \in [Ports -> 0..3]
    <3>1. (IF port[p].responses = 2 THEN AtMost(3, answered[p] + 1) ELSE 0) \in 0..3
      BY <1>t DEF AtMost
    <3>2. answered' = [answered EXCEPT ![p] =
                         IF port[p].responses = 2 THEN AtMost(3, answered[p] + 1) ELSE 0]
      BY <1>3, SMTT(20) DEF SendNext
    <3>. QED  BY <1>t, <3>1, <3>2, SMTT(30)
  <2>. QED  BY <1>t, <1>a, <1>3, <2>2, <2>3 DEF SendNext, TypeOK
<1>4. CASE TakeTimestamp(p) \/ AcceptResponse(p)
  BY <1>4, <1>s, LiteralTypes, EnterKeepsTypes DEF TakeTimestamp, AcceptResponse
<1>5. CASE MissTimestamp(p) \/ GiveUpResponse(p) \/ GiveUpFollowUp(p)
  BY <1>t, <1>5, EnterResetType, EnterKeepsTypes
  DEF MissTimestamp, GiveUpResponse, GiveUpFollowUp
<1>6. CASE AcceptFollowUp(p)
  BY <1>t, <1>6, MeasuredType, EnterKeepsTypes DEF AcceptFollowUp
<1>7. CASE Return(p)
  <2>1. run.at = p /\ End(port)
    BY <1>7 DEF Return, Settled, In
  <2>. QED  BY <1>t, <1>e, <2>1
<1>. QED  BY <1>1, <1>2, <1>3, <1>4, <1>5, <1>6, <1>7 DEF Step

(* A receive buffer that the driver refills between two calls. *)
Refills(p) ==
  \/ \E m \in Responses : ReuseRespBuffer(p, m)
  \/ \E m \in FollowUps : ReuseFollowUpBuffer(p, m)

LEMMA RefillKeeps ==
  ASSUME port \in [Ports -> PortType], NEW q \in Ports, Refills(q)
  PROVE  /\ run = Idle /\ run' = run /\ sent' = sent /\ answered' = answered
         /\ port' \in [Ports -> PortType]
         /\ \A p \in Ports :
              /\ port'[p].state = port[p].state /\ port'[p].timer = port[p].timer
              /\ port'[p].log = port[p].log /\ port'[p].stamped = port[p].stamped
              /\ port'[p].enabled = port[p].enabled /\ port'[p].multiple = port[p].multiple
              /\ port'[p].asCapable = port[p].asCapable /\ port'[p].near = port[p].near
              /\ port'[p].ratioValid = port[p].ratioValid
              /\ port'[p].rcvdResp = port[p].rcvdResp
              /\ port[p].resp # NoMessage => port'[p].resp # NoMessage
<1>1. ASSUME NEW m \in Responses, ReuseRespBuffer(q, m)
      PROVE  \E r \in PortType :
               /\ port' = [port EXCEPT ![q] = r] /\ r = [port[q] EXCEPT !.resp = m]
               /\ r.resp # NoMessage
  <2>1. m # NoMessage
    BY PdelayAssumption
  <2>2. [port[q] EXCEPT !.resp = m] \in PortType /\ [port[q] EXCEPT !.resp = m].resp = m
    BY DEF PortType
  <2>3. port' = [port EXCEPT ![q] = [port[q] EXCEPT !.resp = m]]
    BY <1>1 DEF ReuseRespBuffer
  <2>. QED  BY <2>1, <2>2, <2>3, Zenon
<1>2. ASSUME NEW m \in FollowUps, ReuseFollowUpBuffer(q, m)
      PROVE  \E r \in PortType :
               /\ port' = [port EXCEPT ![q] = r] /\ r = [port[q] EXCEPT !.fup = m]
  <2>1. [port[q] EXCEPT !.fup = m] \in PortType
    BY DEF PortType
  <2>2. port' = [port EXCEPT ![q] = [port[q] EXCEPT !.fup = m]]
    BY <1>2 DEF ReuseFollowUpBuffer
  <2>. QED  BY <2>1, <2>2, Zenon
<1>3. run = Idle /\ run' = run /\ sent' = sent /\ answered' = answered
  BY DEF Refills, ReuseRespBuffer, ReuseFollowUpBuffer
<1>4. CASE \E m \in Responses : ReuseRespBuffer(q, m)
  <2>1. PICK m \in Responses, r \in PortType :
          /\ port' = [port EXCEPT ![q] = r] /\ r = [port[q] EXCEPT !.resp = m]
          /\ r.resp # NoMessage
    BY <1>1, <1>4, Zenon
  <2>2. \A p \in Ports : port'[p] = port[p] \/ (p = q /\ port'[p] = r)
    BY <2>1
  <2>. QED  BY <1>3, <2>1, <2>2 DEF PortType
<1>5. CASE \E m \in FollowUps : ReuseFollowUpBuffer(q, m)
  <2>1. PICK m \in FollowUps, r \in PortType :
          port' = [port EXCEPT ![q] = r] /\ r = [port[q] EXCEPT !.fup = m]
    BY <1>2, <1>5, Zenon
  <2>2. \A p \in Ports : port'[p] = port[p] \/ (p = q /\ port'[p] = r)
    BY <2>1
  <2>. QED  BY <1>3, <2>1, <2>2 DEF PortType
<1>. QED  BY <1>4, <1>5 DEF Refills

LEMMA CallTypes ==
  ASSUME TypeOK, [Next]_vars
  PROVE  TypeOK'
<1>t. /\ port \in [Ports -> PortType]
      /\ run \in RunType /\ sent \in 0..2 /\ answered \in [Ports -> 0..3]
  BY DEF TypeOK
<1>b. ASSUME NEW p \in Ports, NEW r \in PortType, Begin([port EXCEPT ![p] = r], p, FALSE)
      PROVE  TypeOK'
  <2>1. [port EXCEPT ![p] = r] \in [Ports -> PortType] /\ [port EXCEPT ![p] = r][p] \in PortType
    BY <1>t
  <2>2. RunAt(p, [port EXCEPT ![p] = r][p], FALSE) \in RunType
    BY <2>1, RunAtType
  <2>3. /\ port' = [port EXCEPT ![p] = r] /\ run' = RunAt(p, [port EXCEPT ![p] = r][p], FALSE)
        /\ sent' = 0 /\ UNCHANGED answered
    BY <1>b, Zenon DEF Begin
  <2>4. sent' \in 0..2 /\ answered' \in [Ports -> 0..3] /\ run' \in RunType
    BY <1>t, <2>2, <2>3, LiteralTypes, Zenon
  <2>5. port' \in [Ports -> PortType]
    BY <2>1, <2>3, Zenon
  <2>. QED  BY <2>4, <2>5 DEF TypeOK
<1>1. CASE Tick
  <2>1. BeginTick(port, 0) /\ 0 \in Ports
    BY <1>1, PdelayAssumption DEF Tick, Ports
  <2>2. /\ port' \in [Ports -> PortType] /\ run' = RunAt(0, port'[0], TRUE)
        /\ sent' = 0 /\ UNCHANGED answered
    BY <1>t, <2>1, BeginTickEffect
  <2>3. run' \in RunType
    BY <2>1, <2>2, RunAtType
  <2>4. sent' \in 0..2 /\ answered' \in [Ports -> 0..3]
    BY <1>t, <2>2
  <2>. QED  BY <2>2, <2>3, <2>4 DEF TypeOK
<1>2. ASSUME NEW p \in Ports, Step(p)  PROVE TypeOK'
  BY <1>2, StepTypes
<1>3. ASSUME NEW p \in Ports, NEW m \in Responses, ReceiveResponse(p, m)  PROVE TypeOK'
  <2>. DEFINE n == AtMost(2, port[p].responses + 1)
  <2>1. n \in 0..2
    BY <1>t DEF AtMost, PortType
  <2>2. ASSUME NEW q \in PortType, NEW b \in BOOLEAN, NEW k \in 0..2,
               NEW g \in Responses \cup {NoMessage}
        PROVE  [q EXCEPT !.rcvdResp = b, !.resp = g, !.responses = k] \in PortType
    BY DEF PortType
  <2>3. [port EXCEPT ![p].rcvdResp = TRUE, ![p].resp = m, ![p].responses = AtMost(2, @ + 1)]
        = [port EXCEPT ![p] = [port[p] EXCEPT !.rcvdResp = TRUE, !.resp = m, !.responses = n]]
    BY <1>t DEF PortType
  <2>. HIDE DEF n
  <2>4. [port[p] EXCEPT !.rcvdResp = TRUE, !.resp = m, !.responses = n] \in PortType
    <3>1. port[p] \in PortType /\ m \in Responses \cup {NoMessage}
      BY <1>t
    <3>. QED  BY <2>1, <2>2, <3>1, LiteralTypes, Zenon
  <2>. QED  BY <1>3, <1>b, <2>3, <2>4 DEF ReceiveResponse
<1>4. ASSUME NEW p \in Ports, NEW m \in FollowUps, ReceiveFollowUp(p, m)  PROVE TypeOK'
  <2>1. [port[p] EXCEPT !.fup = m] \in PortType
    BY <1>t DEF PortType
  <2>2. [port EXCEPT ![p].fup = m] = [port EXCEPT ![p] = [port[p] EXCEPT !.fup = m]]
    OBVIOUS
  <2>. QED  BY <1>4, <1>b, <2>1, <2>2 DEF ReceiveFollowUp
<1>5. ASSUME NEW p \in Ports, NEW s \in Signals, ReceiveSignal(p, s)  PROVE TypeOK'
  <2>. DEFINE l == IF s.log = KeepInterval THEN port[p].log ELSE s.log
  <2>1. s.log \in Int /\ s.ratio \in BOOLEAN /\ s.delay \in BOOLEAN
    BY PdelayAssumption DEF SignalType
  <2>2. l \in Int
    BY <1>t, <2>1 DEF PortType
  <2>3. SetIntervals(port[p], s) = [port[p] EXCEPT !.log = l, !.ratio = s.ratio, !.delay = s.delay]
    BY DEF SetIntervals
  <2>. HIDE DEF l
  <2>4. SetIntervals(port[p], s) \in PortType
    <3>1. ASSUME NEW q \in PortType, NEW i \in Int, NEW a \in BOOLEAN, NEW b \in BOOLEAN
          PROVE  [q EXCEPT !.log = i, !.ratio = a, !.delay = b] \in PortType
      BY DEF PortType
    <3>2. port[p] \in PortType
      BY <1>t
    <3>3. [port[p] EXCEPT !.log = l, !.ratio = s.ratio, !.delay = s.delay] \in PortType
      BY <2>1, <2>2, <3>1, <3>2, Zenon
    <3>. QED  BY <2>3, <3>3, Zenon
  <2>5. LinkDelay(port[p]) \in PortType
    BY <1>t, LinkDelayType
  <2>. QED  BY <1>5, <1>t, <2>4, <2>5 DEF ReceiveSignal, TypeOK
<1>6. ASSUME NEW p \in Ports, NEW q \in Ports, ReceiveOwnRequest(p, q)  PROVE TypeOK'
  <2>1. ASSUME NEW r \in PortType, NEW b \in BOOLEAN
        PROVE  [r EXCEPT !.enabled = b] \in PortType
    BY DEF PortType
  <2>2. port' \in [Ports -> PortType]
    BY <1>6, <1>t, <2>1, LiteralTypes DEF ReceiveOwnRequest
  <2>. QED  BY <1>6, <1>t, <2>2 DEF ReceiveOwnRequest, TypeOK
<1>7. CASE Deinit
  <2>1. port' \in [Ports -> PortType]
    BY <1>7, <1>t, RestartedType DEF Deinit
  <2>. QED  BY <1>7, <1>t, <2>1 DEF Deinit, TypeOK
<1>8. CASE UNCHANGED vars
  BY <1>8, <1>t DEF vars, TypeOK
<1>9. ASSUME NEW q \in Ports, Refills(q)  PROVE TypeOK'
  BY <1>9, <1>t, RefillKeeps DEF TypeOK
<1>. QED  BY <1>1, <1>2, <1>3, <1>4, <1>5, <1>6, <1>7, <1>8, <1>9 DEF Next, Refills

(* Every field keeps its range, the counters their bounds, in every order   *)
(* of ticks, responses, signals, echoes and restarts: lostResponses stops   *)
(* one above the limit it is compared with, the others where they saturate. *)
THEOREM PdelayTypeCorrect == Spec => []TypeOK
<1>1. Init => TypeOK
  BY InitTypes
<1>2. TypeOK /\ [Next]_vars => TypeOK'
  BY CallTypes
<1>. QED  BY <1>1, <1>2, PTL DEF Spec

(***************************************************************************)
(* Capable ports have measured.  A port that takes no timestamp never gets *)
(* past SEND; the one that does keeps what it measured while it is         *)
(* capable; and wherever the responder's identity is read there is a       *)
(* response.                                                               *)
(***************************************************************************)
Measuring(p, r) ==
  /\ p # TimestampPort =>
       ~r.stamped /\ r.state \notin {"WAIT_RESP", "WAIT_FOLLOW_UP", "WAIT_INTERVAL"}
  /\ r.asCapable /\ r.state # "NOT_ENABLED" =>
       /\ p = TimestampPort
       /\ r.ratioValid /\ r.near /\ r.resp # NoMessage
       /\ r.state # "INITIAL_SEND"
  /\ r.rcvdResp \/ r.state = "WAIT_FOLLOW_UP" => r.resp # NoMessage

AllMeasuring(ports) == \A p \in Ports : Measuring(p, ports[p])

LEMMA TickedMeasuring ==
  ASSUME NEW p \in Ports, NEW r \in PortType, Measuring(p, r)
  PROVE  Measuring(p, Ticked(r))
  BY TickedEffect DEF Measuring

LEMMA EndMeasuring ==
  ASSUME NEW ports \in [Ports -> PortType], run \in RunType, run.at \in Ports, End(ports),
         AllMeasuring(ports)
  PROVE  AllMeasuring(port')
<1>. SUFFICES ASSUME NEW p \in Ports PROVE Measuring(p, port'[p])
  BY DEF AllMeasuring
<1>1. port'[p] \in {ports[p], Ticked(ports[p])}
  BY EndEffect
<1>. QED  BY <1>1, TickedMeasuring DEF AllMeasuring

LEMMA TransmitMeasuring ==
  ASSUME NEW ports \in [Ports -> PortType], AllMeasuring(ports)
  PROVE  AllMeasuring(Transmit(ports))
<1>. SUFFICES ASSUME NEW p \in Ports PROVE Measuring(p, Transmit(ports)[p])
  BY DEF AllMeasuring
<1>1. ASSUME NEW r \in PortType, Measuring(TimestampPort, r)
      PROVE  Measuring(TimestampPort, [r EXCEPT !.stamped = TRUE])
  BY <1>1 DEF Measuring, PortType
<1>2. CASE p = TimestampPort
  <2>1. ports[TimestampPort] \in PortType /\ Measuring(TimestampPort, ports[TimestampPort])
    BY <1>2 DEF AllMeasuring
  <2>2. Measuring(TimestampPort, [ports[TimestampPort] EXCEPT !.stamped = TRUE])
    BY <1>1, <2>1, Zenon
  <2>3. Transmit(ports)[TimestampPort] = [ports[TimestampPort] EXCEPT !.stamped = TRUE]
    BY <1>2, TransmitEffect
  <2>. QED  BY <1>2, <2>2, <2>3, Zenon
<1>3. CASE p # TimestampPort
  BY <1>3, TransmitEffect DEF AllMeasuring
<1>. QED  BY <1>2, <1>3

LEMMA OneMeasuring ==
  ASSUME NEW ports \in [Ports -> PortType], AllMeasuring(ports),
         NEW p \in Ports, NEW r \in PortType, Measuring(p, r)
  PROVE  AllMeasuring([ports EXCEPT ![p] = r]) /\ [ports EXCEPT ![p] = r] \in [Ports -> PortType]
<1>1. [ports EXCEPT ![p] = r] \in [Ports -> PortType]
  OBVIOUS
<1>2. ASSUME NEW q \in Ports  PROVE Measuring(q, [ports EXCEPT ![p] = r][q])
  <2>1. CASE q = p
    <3>1. [ports EXCEPT ![p] = r][q] = r
      BY <2>1
    <3>. QED  BY <2>1, <3>1
  <2>2. CASE q # p
    <3>1. [ports EXCEPT ![p] = r][q] = ports[q]
      BY <2>2
    <3>. QED  BY <3>1 DEF AllMeasuring
  <2>. QED  BY <2>1, <2>2
<1>. QED  BY <1>1, <1>2 DEF AllMeasuring

LEMMA StepMeasuring ==
  ASSUME TypeOK, AllMeasuring(port), NEW p \in Ports, Step(p)
  PROVE  AllMeasuring(port')
<1>. DEFINE r == port[p]
<1>t. port \in [Ports -> PortType] /\ r \in PortType /\ run \in RunType /\ Measuring(p, r)
  BY DEF TypeOK, AllMeasuring
<1>s. ASSUME NEW q \in PortType, NEW s \in States, NEW b \in BOOLEAN
      PROVE  /\ [q EXCEPT !.state = s, !.stamped = b] \in PortType
             /\ [q EXCEPT !.state = s, !.rcvdResp = b] \in PortType
  BY DEF PortType
<1>e. ASSUME NEW q \in PortType, Measuring(p, q), Enter(p, q)  PROVE AllMeasuring(port')
  BY <1>e, <1>t, OneMeasuring DEF Enter
<1>1. CASE StayDisabled(p)
  <2>. DEFINE q == IF r.state = "NOT_ENABLED" THEN r ELSE EnterNotEnabled(r)
  <2>1. q \in PortType
    BY <1>t, EnterNotEnabledType
  <2>2. Measuring(p, q)
    BY <1>t DEF Measuring, EnterNotEnabled, PortType
  <2>3. run.at = p /\ End([port EXCEPT ![p] = q])
    BY <1>1 DEF StayDisabled
  <2>. HIDE DEF q
  <2>. QED  BY <1>t, <2>1, <2>2, <2>3, OneMeasuring, EndMeasuring
<1>2. CASE StartMeasuring(p)
  <2>1. EnterInitialSend(r) \in PortType /\ Measuring(p, EnterInitialSend(r))
    BY <1>t, EnterInitialSendType, InitialSendEffect DEF Measuring
  <2>2. port' = Transmit([port EXCEPT ![p] = EnterInitialSend(r)])
    BY <1>2 DEF StartMeasuring
  <2>. QED  BY <1>t, <2>1, <2>2, OneMeasuring, TransmitMeasuring
<1>3. CASE SendNext(p)
  <2>1. r.state \in {"RESET", "WAIT_INTERVAL"}
    BY <1>3 DEF SendNext, In
  <2>2. EnterSend(r) \in PortType /\ Measuring(p, EnterSend(r))
    BY <1>t, <2>1, EnterSendType, SendEffect DEF Measuring
  <2>3. port' = Transmit([port EXCEPT ![p] = EnterSend(r)])
    BY <1>3 DEF SendNext
  <2>. QED  BY <1>t, <2>2, <2>3, OneMeasuring, TransmitMeasuring
<1>4. CASE TakeTimestamp(p)
  <2>. DEFINE q == [r EXCEPT !.state = "WAIT_RESP", !.stamped = FALSE]
  <2>1. Enter(p, q) /\ r.stamped /\ r.state \in {"INITIAL_SEND", "SEND"}
    BY <1>4 DEF TakeTimestamp, In
  <2>2. q \in PortType
    BY <1>s, <1>t, LiteralTypes, Zenon
  <2>3. Measuring(p, q)
    BY <1>t, <2>1 DEF Measuring, PortType
  <2>. QED  BY <1>e, <2>1, <2>2, <2>3
<1>5. CASE AcceptResponse(p)
  <2>. DEFINE q == [r EXCEPT !.state = "WAIT_FOLLOW_UP", !.rcvdResp = FALSE]
  <2>1. Enter(p, q) /\ r.rcvdResp /\ r.state = "WAIT_RESP"
    BY <1>5 DEF AcceptResponse, In
  <2>2. q \in PortType
    BY <1>s, <1>t, LiteralTypes, Zenon
  <2>3. Measuring(p, q)
    BY <1>t, <2>1 DEF Measuring, PortType
  <2>. QED  BY <1>e, <2>1, <2>2, <2>3
<1>6. CASE MissTimestamp(p) \/ GiveUpResponse(p) \/ GiveUpFollowUp(p)
  <2>1. Enter(p, EnterReset(r)) /\ r.state # "NOT_ENABLED"
    BY <1>6 DEF MissTimestamp, GiveUpResponse, GiveUpFollowUp, In
  <2>2. EnterReset(r) \in PortType /\ Measuring(p, EnterReset(r))
    BY <1>t, <2>1, EnterResetType, ResetEffect DEF Measuring
  <2>. QED  BY <1>e, <2>1, <2>2
<1>7. CASE AcceptFollowUp(p)
  <2>1. PICK m \in Measured(r) : Enter(p, m)
    BY <1>7 DEF AcceptFollowUp
  <2>2. r.state = "WAIT_FOLLOW_UP"
    BY <1>7 DEF AcceptFollowUp, In
  <2>3. m \in PortType /\ Measuring(p, m)
    BY <1>t, <2>2, MeasuredType, MeasuredEffect DEF Measuring
  <2>. QED  BY <1>e, <2>1, <2>3
<1>8. CASE Return(p)
  <2>1. run.at = p /\ End(port)
    BY <1>8 DEF Return, Settled, In
  <2>. QED  BY <1>t, <2>1, EndMeasuring
<1>. QED  BY <1>1, <1>2, <1>3, <1>4, <1>5, <1>6, <1>7, <1>8 DEF Step

LEMMA CallMeasuring ==
  ASSUME TypeOK, AllMeasuring(port), [Next]_vars
  PROVE  AllMeasuring(port')
<1>t. port \in [Ports -> PortType] /\ \A p \in Ports : port[p] \in PortType /\ Measuring(p, port[p])
  BY DEF TypeOK, AllMeasuring
<1>1. CASE Tick
  <2>1. BeginTick(port, 0) /\ 0 \in Ports
    BY <1>1, PdelayAssumption DEF Tick, Ports
  <2>2. \A p \in Ports : port'[p] \in {port[p], Ticked(port[p])}
    BY <1>t, <2>1, BeginTickEffect
  <2>. QED  BY <1>t, <2>2, TickedMeasuring DEF AllMeasuring
<1>2. ASSUME NEW p \in Ports, Step(p)  PROVE AllMeasuring(port')
  BY <1>2, StepMeasuring
<1>3. ASSUME NEW p \in Ports, NEW m \in Responses, ReceiveResponse(p, m)
      PROVE  AllMeasuring(port')
  <2>1. m # NoMessage
    BY PdelayAssumption
  <2>2. port' = [port EXCEPT ![p].rcvdResp = TRUE, ![p].resp = m, ![p].responses = AtMost(2, @ + 1)]
    BY <1>3 DEF ReceiveResponse, Begin
  <2>3. ASSUME NEW q \in Ports, q # p  PROVE port'[q] = port[q]
    BY <1>t, <2>2, <2>3
  <2>4. /\ port'[p].state = port[p].state /\ port'[p].stamped = port[p].stamped
        /\ port'[p].asCapable = port[p].asCapable /\ port'[p].ratioValid = port[p].ratioValid
        /\ port'[p].near = port[p].near /\ port'[p].resp = m
    BY <1>t, <2>2 DEF PortType
  <2>5. Measuring(p, port'[p])
    BY <1>t, <2>1, <2>4 DEF Measuring
  <2>. QED  BY <1>t, <2>3, <2>5 DEF AllMeasuring
<1>4. ASSUME NEW p \in Ports, NEW m \in FollowUps, ReceiveFollowUp(p, m)
      PROVE  AllMeasuring(port')
  <2>1. port' = [port EXCEPT ![p].fup = m]
    BY <1>4 DEF ReceiveFollowUp, Begin
  <2>2. ASSUME NEW q \in Ports  PROVE Measuring(q, port'[q])
    BY <1>t, <2>1 DEF Measuring, PortType
  <2>. QED  BY <2>2 DEF AllMeasuring
<1>5. ASSUME NEW p \in Ports, NEW s \in Signals, ReceiveSignal(p, s)
      PROVE  AllMeasuring(port')
  <2>1. ASSUME NEW r \in PortType, Measuring(p, r)
        PROVE  Measuring(p, SetIntervals(r, s)) /\ Measuring(p, LinkDelay(r))
    BY <2>1 DEF Measuring, SetIntervals, LinkDelay, PortType
  <2>2. ASSUME NEW q \in Ports  PROVE Measuring(q, port'[q])
    <3>1. CASE q = p
      <4>1. port'[p] \in {SetIntervals(port[p], s), LinkDelay(port[p])}
        BY <1>5, <1>t DEF ReceiveSignal
      <4>. QED  BY <1>t, <2>1, <3>1, <4>1
    <3>2. CASE q # p
      BY <1>5, <1>t, <3>2 DEF ReceiveSignal
    <3>. QED  BY <3>1, <3>2
  <2>. QED  BY <2>2 DEF AllMeasuring
<1>6. ASSUME NEW p \in Ports, NEW q \in Ports, ReceiveOwnRequest(p, q)
      PROVE  AllMeasuring(port')
  <2>1. ASSUME NEW n \in Ports, NEW r \in PortType, Measuring(n, r)
        PROVE  Measuring(n, [r EXCEPT !.enabled = FALSE])
    BY <2>1 DEF Measuring, PortType
  <2>. QED  BY <1>6, <1>t, <2>1 DEF ReceiveOwnRequest, AllMeasuring
<1>7. CASE Deinit
  <2>1. ASSUME NEW n \in Ports, NEW r \in PortType, Measuring(n, r)
        PROVE  Measuring(n, Restarted(r))
    BY <2>1 DEF Measuring, Restarted, PortType
  <2>. QED  BY <1>7, <1>t, <2>1 DEF Deinit, AllMeasuring
<1>8. CASE UNCHANGED vars
  BY <1>8 DEF vars
<1>9. ASSUME NEW q \in Ports, Refills(q)  PROVE AllMeasuring(port')
  BY <1>9, <1>t, RefillKeeps DEF AllMeasuring, Measuring
<1>. QED  BY <1>1, <1>2, <1>3, <1>4, <1>5, <1>6, <1>7, <1>8, <1>9 DEF Next, Refills

(* Whatever is lost, doubled or late: a capable port has measured, and only *)
(* the port transmit_pdelay_request takes timestamps for is ever capable    *)
(* after its first tick.                                                    *)
THEOREM CapableInvariant == Spec => []CapableHasMeasured
<1>1. Init => AllMeasuring(port)
  BY DEF Init, BootPort, AllMeasuring, Measuring
<1>2. TypeOK /\ AllMeasuring(port) /\ [Next]_vars => AllMeasuring(port)'
  BY CallMeasuring DEF AllMeasuring
<1>3. AllMeasuring(port) => CapableHasMeasured
  BY DEF AllMeasuring, Measuring, CapableHasMeasured
<1>. QED  BY <1>1, <1>2, <1>3, PdelayTypeCorrect, PTL DEF Spec

(* In the code the index is that of no port, and what CapableHasMeasured    *)
(* asks of a capable port holds of none: after the tick that follows a      *)
(* start no port is ever capable, whatever its neighbour answers.           *)
THEOREM NoneCapableAsConfigured ==
  ASSUME TimestampPort \notin Ports
  PROVE  Spec => [](\A p \in Ports : port[p].asCapable => port[p].state = "NOT_ENABLED")
<1>1. CapableHasMeasured => \A p \in Ports : port[p].asCapable => port[p].state = "NOT_ENABLED"
  BY DEF CapableHasMeasured
<1>. QED  BY <1>1, CapableInvariant, PTL

(***************************************************************************)
(* Requests answered more than once.  The port's own count is at least the *)
(* number of successive ones, except where the port is off: there the      *)
(* machine clears the count, and only a restart turns the port on again.   *)
(***************************************************************************)
Counting(r, a) == r.enabled => a < 3 /\ a <= r.multiple

AllCounting(ports) == \A p \in Ports : Counting(ports[p], answered[p])

(* The loop is not entered only where the port is off. *)
OffOutsideLoop == \A p \in Ports : run.at = p /\ ~run.looping => ~port[p].enabled

Cease == AllCounting(port) /\ OffOutsideLoop

LEMMA EndCounting ==
  ASSUME NEW ports \in [Ports -> PortType], run \in RunType, run.at \in Ports, End(ports),
         AllCounting(ports)
  PROVE  Cease'
<1>1. /\ \A p \in Ports : port'[p] \in {ports[p], Ticked(ports[p])}
      /\ port' \in [Ports -> PortType] /\ answered' = answered
      /\ run' = Idle \/ \E q \in Ports : run' = RunAt(q, port'[q], TRUE)
  BY EndEffect
<1>2. ASSUME NEW p \in Ports  PROVE Counting(port'[p], answered'[p])
  BY <1>1, TickedEffect DEF AllCounting, Counting
<1>3. OffOutsideLoop'
  <2>1. CASE run' = Idle
    BY <2>1, IdleType DEF OffOutsideLoop
  <2>2. ASSUME NEW q \in Ports, run' = RunAt(q, port'[q], TRUE)  PROVE OffOutsideLoop'
    <3>1. run'.at = q /\ run'.looping = port'[q].enabled
      BY <1>1, <2>2, RunAtType
    <3>. QED  BY <3>1 DEF OffOutsideLoop
  <2>. QED  BY <1>1, <2>1, <2>2
<1>. QED  BY <1>2, <1>3 DEF Cease, AllCounting

LEMMA TransmitKeeps ==
  ASSUME NEW ports \in [Ports -> PortType], NEW p \in Ports
  PROVE  /\ Transmit(ports)[p].enabled = ports[p].enabled
         /\ Transmit(ports)[p].multiple = ports[p].multiple
         /\ Transmit(ports)[p].log = ports[p].log
         /\ Transmit(ports)[p].state = ports[p].state
         /\ Transmit(ports)[p].timer = ports[p].timer
<1>1. ASSUME NEW r \in PortType
      PROVE  LET q == [r EXCEPT !.stamped = TRUE]
             IN  q.enabled = r.enabled /\ q.multiple = r.multiple /\ q.log = r.log
                 /\ q.state = r.state /\ q.timer = r.timer
  BY DEF PortType
<1>2. CASE p = TimestampPort
  <2>1. Transmit(ports)[p] = [ports[p] EXCEPT !.stamped = TRUE] /\ ports[p] \in PortType
    BY <1>2, TransmitEffect
  <2>. QED  BY <1>1, <2>1
<1>3. CASE p # TimestampPort
  BY <1>3, TransmitEffect
<1>. QED  BY <1>2, <1>3

LEMMA StepCounting ==
  ASSUME TypeOK, Cease, NEW p \in Ports, Step(p)
  PROVE  Cease'
<1>. DEFINE r == port[p]
<1>t. /\ port \in [Ports -> PortType] /\ r \in PortType /\ run \in RunType
      /\ answered \in [Ports -> 0..3] /\ Counting(r, answered[p]) /\ AllCounting(port)
      /\ OffOutsideLoop
  BY DEF TypeOK, Cease, AllCounting
<1>e. ASSUME NEW q \in PortType, q.enabled = r.enabled, q.multiple = r.multiple,
             Enter(p, q), run.looping, run.at = p
      PROVE  Cease'
  <2>1. port' = [port EXCEPT ![p] = q] /\ run' = run /\ answered' = answered
    BY <1>e DEF Enter
  <2>2. ASSUME NEW n \in Ports
        PROVE  port'[n].enabled = port[n].enabled /\ port'[n].multiple = port[n].multiple
    BY <1>e, <1>t, <2>1
  <2>. QED  BY <1>t, <2>1, <2>2 DEF Cease, AllCounting, Counting, OffOutsideLoop
(* A request goes out: the new counts agree where the port stays on. *)
<1>x. ASSUME NEW q \in PortType, NEW a \in 0..3, Counting(q, a), run.looping, run.at = p,
             port' = Transmit([port EXCEPT ![p] = q]), run' = run,
             answered' = [answered EXCEPT ![p] = a]
      PROVE  Cease'
  <2>. DEFINE ports == [port EXCEPT ![p] = q]
  <2>1. ports \in [Ports -> PortType] /\ ports[p] = q
        /\ \A n \in Ports \ {p} : ports[n] = port[n]
    BY <1>t, <1>x
  <2>2. /\ answered'[p] = a
        /\ \A n \in Ports \ {p} : answered'[n] = answered[n]
    BY <1>t, <1>x
  <2>3. port' = Transmit(ports)
    BY <1>x
  <2>. HIDE DEF ports
  <2>4. ASSUME NEW n \in Ports
        PROVE  port'[n].enabled = ports[n].enabled /\ port'[n].multiple = ports[n].multiple
    BY <2>1, <2>3, TransmitKeeps
  <2>5. ASSUME NEW n \in Ports  PROVE Counting(port'[n], answered'[n])
    <3>1. port'[n].enabled = ports[n].enabled /\ port'[n].multiple = ports[n].multiple
      BY <2>4
    <3>2. Counting(ports[n], answered'[n])
      <4>1. CASE n = p
        BY <1>x, <2>1, <2>2, <4>1
      <4>2. CASE n # p
        <5>1. ports[n] = port[n] /\ answered'[n] = answered[n]
          BY <2>1, <2>2, <4>2
        <5>. QED  BY <1>t, <5>1 DEF AllCounting
      <4>. QED  BY <4>1, <4>2
    <3>. QED  BY <3>1, <3>2 DEF Counting
  <2>6. OffOutsideLoop'
    BY <1>x DEF OffOutsideLoop
  <2>. QED  BY <2>5, <2>6 DEF Cease, AllCounting
<1>1. CASE StayDisabled(p)
  <2>. DEFINE q == IF r.state = "NOT_ENABLED" THEN r ELSE EnterNotEnabled(r)
  <2>1. run.at = p /\ ~run.looping /\ End([port EXCEPT ![p] = q])
    BY <1>1 DEF StayDisabled
  <2>2. q \in PortType
    BY <1>t, EnterNotEnabledType
  <2>3. ~r.enabled
    BY <1>t, <2>1 DEF OffOutsideLoop
  <2>4. ~q.enabled
    BY <1>t, <2>3 DEF EnterNotEnabled, PortType
  <2>. HIDE DEF q
  <2>5. [port EXCEPT ![p] = q] \in [Ports -> PortType] /\ AllCounting([port EXCEPT ![p] = q])
    BY <1>t, <2>2, <2>4 DEF AllCounting, Counting
  <2>. QED  BY <1>t, <2>1, <2>5, EndCounting
<1>2. CASE StartMeasuring(p)
  <2>1. EnterInitialSend(r) \in PortType /\ Counting(EnterInitialSend(r), 0)
    BY <1>t, EnterInitialSendType, InitialSendEffect DEF Counting
  <2>2. /\ port' = Transmit([port EXCEPT ![p] = EnterInitialSend(r)])
        /\ answered' = [answered EXCEPT ![p] = 0] /\ run' = run /\ run.looping /\ run.at = p
    BY <1>2 DEF StartMeasuring, In
  <2>3. 0 \in 0..3
    OBVIOUS
  <2>. QED  BY <1>x, <2>1, <2>2, <2>3
<1>3. CASE SendNext(p)
  <2>. DEFINE a == IF r.responses = 2 THEN AtMost(3, answered[p] + 1) ELSE 0
  <2>1. answered[p] \in 0..3 /\ r.responses \in 0..2 /\ r.multiple \in 0..3
        /\ r.enabled \in BOOLEAN
    BY <1>t DEF PortType
  <2>2. a \in 0..3
    BY <2>1 DEF AtMost
  <2>3. r.enabled /\ ~TooMany(r) => a < 3 /\ a <= MultipleAfter(r)
    BY <1>t, <2>1 DEF Counting, TooMany, MultipleAfter, AtMost
  <2>4. EnterSend(r) \in PortType /\ Counting(EnterSend(r), a)
    BY <1>t, <2>3, EnterSendType, SendEffect DEF Counting
  <2>5. /\ port' = Transmit([port EXCEPT ![p] = EnterSend(r)])
        /\ answered' = [answered EXCEPT ![p] = a] /\ run' = run /\ run.looping /\ run.at = p
    BY <1>3 DEF SendNext, In
  <2>. HIDE DEF a
  <2>. QED  BY <1>x, <2>2, <2>4, <2>5
<1>4. CASE TakeTimestamp(p)
  <2>. DEFINE q == [r EXCEPT !.state = "WAIT_RESP", !.stamped = FALSE]
  <2>1. Enter(p, q) /\ run.looping /\ run.at = p
    BY <1>4 DEF TakeTimestamp, In
  <2>2. q \in PortType
    BY <1>t DEF PortType, States
  <2>3. q.enabled = r.enabled /\ q.multiple = r.multiple
    BY <1>t DEF PortType
  <2>. HIDE DEF q
  <2>. QED  BY <1>e, <2>1, <2>2, <2>3
<1>5. CASE AcceptResponse(p)
  <2>. DEFINE q == [r EXCEPT !.state = "WAIT_FOLLOW_UP", !.rcvdResp = FALSE]
  <2>1. Enter(p, q) /\ run.looping /\ run.at = p
    BY <1>5 DEF AcceptResponse, In
  <2>2. q \in PortType
    BY <1>t DEF PortType, States
  <2>3. q.enabled = r.enabled /\ q.multiple = r.multiple
    BY <1>t DEF PortType
  <2>. HIDE DEF q
  <2>. QED  BY <1>e, <2>1, <2>2, <2>3
<1>6. CASE MissTimestamp(p) \/ GiveUpResponse(p) \/ GiveUpFollowUp(p)
  <2>1. Enter(p, EnterReset(r)) /\ run.looping /\ run.at = p
    BY <1>6 DEF MissTimestamp, GiveUpResponse, GiveUpFollowUp, In
  <2>. QED  BY <1>e, <1>t, <2>1, EnterResetType, ResetEffect
<1>7. CASE AcceptFollowUp(p)
  <2>1. PICK m \in Measured(r) : Enter(p, m)
    BY <1>7 DEF AcceptFollowUp
  <2>2. run.looping /\ run.at = p
    BY <1>7 DEF AcceptFollowUp, In
  <2>. QED  BY <1>e, <1>t, <2>1, <2>2, MeasuredType, MeasuredEffect
<1>8. CASE Return(p)
  <2>1. run.at = p /\ End(port)
    BY <1>8 DEF Return, Settled, In
  <2>. QED  BY <1>t, <2>1, EndCounting
<1>. QED  BY <1>1, <1>2, <1>3, <1>4, <1>5, <1>6, <1>7, <1>8 DEF Step

LEMMA CallCounting ==
  ASSUME TypeOK, Cease, [Next]_vars
  PROVE  Cease'
<1>t. /\ port \in [Ports -> PortType] /\ answered \in [Ports -> 0..3] /\ run \in RunType
      /\ \A p \in Ports : port[p] \in PortType /\ Counting(port[p], answered[p])
  BY DEF TypeOK, Cease, AllCounting
(* A call that starts a run on the port it has just changed. *)
<1>b. ASSUME NEW p \in Ports, NEW ports \in [Ports -> PortType], Begin(ports, p, FALSE),
             \A n \in Ports : ports[n].enabled = port[n].enabled
                              /\ ports[n].multiple = port[n].multiple
      PROVE  Cease'
  <2>1. port' = ports /\ run' = RunAt(p, port'[p], FALSE) /\ answered' = answered
    BY <1>b DEF Begin
  <2>2. run'.at = p /\ run'.looping = port'[p].enabled
    BY <1>b, <2>1, RunAtType, ZenonT(60)
  <2>. QED  BY <1>b, <1>t, <2>1, <2>2 DEF Cease, AllCounting, Counting, OffOutsideLoop
(* A call without a run. *)
<1>i. ASSUME run = Idle, run' = run, AllCounting(port)'  PROVE Cease'
  <2>1. run'.at \notin Ports
    BY <1>i, IdleType, Zenon
  <2>2. OffOutsideLoop'
    BY <2>1, Zenon DEF OffOutsideLoop
  <2>. QED  BY <1>i, <2>2, Zenon DEF Cease
<1>1. CASE Tick
  <2>1. BeginTick(port, 0) /\ 0 \in Ports
    BY <1>1, PdelayAssumption DEF Tick, Ports
  <2>2. /\ port' \in [Ports -> PortType] /\ run' = RunAt(0, port'[0], TRUE)
        /\ \A p \in Ports : port'[p] \in {port[p], Ticked(port[p])}
        /\ answered' = answered
    BY <1>t, <2>1, BeginTickEffect
  <2>3. run'.at = 0 /\ run'.looping = port'[0].enabled
    BY <2>1, <2>2, RunAtType
  <2>4. ASSUME NEW p \in Ports  PROVE Counting(port'[p], answered'[p])
    BY <1>t, <2>2, TickedEffect DEF Counting
  <2>. QED  BY <2>3, <2>4 DEF Cease, AllCounting, OffOutsideLoop
<1>2. ASSUME NEW p \in Ports, Step(p)  PROVE Cease'
  BY <1>2, StepCounting
<1>3. ASSUME NEW p \in Ports, NEW m \in Responses, ReceiveResponse(p, m)  PROVE Cease'
  <2>. DEFINE ports == [port EXCEPT ![p].rcvdResp = TRUE, ![p].resp = m,
                                    ![p].responses = AtMost(2, @ + 1)]
  <2>1. Begin(ports, p, FALSE)
    BY <1>3 DEF ReceiveResponse
  <2>2. ports = port'
    BY <2>1 DEF Begin
  <2>3. ports \in [Ports -> PortType]
    BY <2>2, CallTypes DEF TypeOK
  <2>4. \A n \in Ports : ports[n].enabled = port[n].enabled /\ ports[n].multiple = port[n].multiple
    BY <1>t DEF PortType
  <2>. HIDE DEF ports
  <2>. QED  BY <1>b, <2>1, <2>3, <2>4
<1>4. ASSUME NEW p \in Ports, NEW m \in FollowUps, ReceiveFollowUp(p, m)  PROVE Cease'
  <2>. DEFINE ports == [port EXCEPT ![p].fup = m]
  <2>1. Begin(ports, p, FALSE)
    BY <1>4 DEF ReceiveFollowUp
  <2>2. ports = port'
    BY <2>1 DEF Begin
  <2>3. ports \in [Ports -> PortType]
    BY <2>2, CallTypes DEF TypeOK
  <2>4. \A n \in Ports : ports[n].enabled = port[n].enabled /\ ports[n].multiple = port[n].multiple
    BY <1>t DEF PortType
  <2>. HIDE DEF ports
  <2>. QED  BY <1>b, <2>1, <2>3, <2>4
<1>5. ASSUME NEW p \in Ports, NEW s \in Signals, ReceiveSignal(p, s)  PROVE Cease'
  <2>1. ASSUME NEW r \in PortType
        PROVE  /\ SetIntervals(r, s).enabled = r.enabled /\ SetIntervals(r, s).multiple = r.multiple
               /\ LinkDelay(r).enabled = r.enabled /\ LinkDelay(r).multiple = r.multiple
    BY DEF SetIntervals, LinkDelay, PortType
  <2>2. ASSUME NEW q \in Ports
        PROVE  port'[q].enabled = port[q].enabled /\ port'[q].multiple = port[q].multiple
    <3>1. CASE q = p
      <4>1. port'[p] \in {SetIntervals(port[p], s), LinkDelay(port[p])}
        BY <1>5, <1>t DEF ReceiveSignal
      <4>. QED  BY <1>t, <2>1, <3>1, <4>1
    <3>2. CASE q # p
      BY <1>5, <1>t, <3>2 DEF ReceiveSignal
    <3>. QED  BY <3>1, <3>2
  <2>3. run = Idle /\ run' = run /\ answered' = answered
    BY <1>5 DEF ReceiveSignal
  <2>. QED  BY <1>i, <1>t, <2>2, <2>3 DEF AllCounting, Counting
<1>6. ASSUME NEW p \in Ports, NEW q \in Ports, ReceiveOwnRequest(p, q)  PROVE Cease'
  <2>1. ASSUME NEW n \in Ports  PROVE Counting(port'[n], answered'[n])
    <3>1. ASSUME NEW r \in PortType  PROVE ~[r EXCEPT !.enabled = FALSE].enabled
      BY DEF PortType
    <3>. QED  BY <1>6, <1>t, <3>1 DEF ReceiveOwnRequest, Counting
  <2>2. run = Idle /\ run' = run
    BY <1>6 DEF ReceiveOwnRequest
  <2>. QED  BY <1>i, <2>1, <2>2 DEF AllCounting
<1>7. CASE Deinit
  <2>1. ASSUME NEW n \in Ports  PROVE Counting(port'[n], answered'[n])
    <3>1. ASSUME NEW r \in PortType  PROVE Restarted(r).multiple = r.multiple /\ r.multiple \in 0..3
      BY DEF Restarted, PortType
    <3>2. port'[n] = Restarted(port[n]) /\ answered'[n] = 0
      BY <1>7 DEF Deinit
    <3>. QED  BY <1>t, <3>1, <3>2 DEF Counting
  <2>2. run = Idle /\ run' = run
    BY <1>7 DEF Deinit
  <2>. QED  BY <1>i, <2>1, <2>2 DEF AllCounting
<1>8. CASE UNCHANGED vars
  BY <1>8 DEF vars, Cease, AllCounting, OffOutsideLoop
<1>9. ASSUME NEW q \in Ports, Refills(q)  PROVE Cease'
  BY <1>9, <1>i, <1>t, RefillKeeps DEF AllCounting, Counting
<1>. QED  BY <1>1, <1>2, <1>3, <1>4, <1>5, <1>6, <1>7, <1>8, <1>9 DEF Next, Refills

(* A port whose last three requests were each answered more than once has   *)
(* stopped, and stays so until the system restarts (AVnu_PTP-5).            *)
THEOREM CeaseInvariant == Spec => []CeasesAfterThree
<1>1. Init => Cease
  BY IdleType DEF Init, BootPort, Cease, AllCounting, Counting, OffOutsideLoop
<1>2. TypeOK /\ Cease /\ [Next]_vars => Cease'
  BY CallCounting
<1>3. Cease => CeasesAfterThree
  BY DEF Cease, AllCounting, Counting, CeasesAfterThree
<1>. QED  BY <1>1, <1>2, <1>3, PdelayTypeCorrect, PTL DEF Spec

(***************************************************************************)
(* One request in a call, on a port without timestamps.  No neighbour may  *)
(* signal a negative interval: then an interval has at least one second,   *)
(* and after a request, whose timer is 0, the machine waits.               *)
(***************************************************************************)
NoNegativeInterval ==
  /\ InitialLog >= 0 /\ OverShift > 0
  /\ \A s \in Signals : s.log = KeepInterval \/ s.log >= 0

NonNegativeLogs(ports) == \A p \in Ports : ports[p].log >= 0

(* After its request, the machine of such a port has nothing left to do. *)
SentOne(ports) ==
  \A p \in Ports : run.at = p /\ p # TimestampPort /\ sent > 0 =>
    sent = 1 /\ ports[p].timer = 0 /\ ports[p].state \in {"INITIAL_SEND", "SEND"}

One == NonNegativeLogs(port) /\ SentOne(port) /\ (run = Idle => sent = 0)

LEMMA NotDue ==
  ASSUME NoNegativeInterval, NEW r \in PortType, r.log >= 0, r.timer = 0
  PROVE  ~Due(r)
<1>1. r.log \in Int
  BY DEF PortType
<1>2. Interval(r.log) >= 1
  <2>1. CASE r.log \in 0..(ShiftWidth - 1)
    <3>1. 2^(r.log) \in Nat \ {0}
      BY <2>1, PdelayAssumption
    <3>2. Interval(r.log) = 2^(r.log)
      BY <1>1, <2>1, PdelayAssumption DEF Interval
    <3>. QED  BY <3>1, <3>2
  <2>2. CASE r.log >= ShiftWidth
    <3>1. Interval(r.log) = OverShift
      BY <1>1, <2>2, PdelayAssumption DEF Interval
    <3>. QED  BY <3>1, PdelayAssumption DEF NoNegativeInterval
  <2>. QED  BY <1>1, <2>1, <2>2, PdelayAssumption
<1>3. Interval(r.log) \in Nat
  <2>1. CASE r.log \in 0..(ShiftWidth - 1)
    BY <1>1, <2>1, PdelayAssumption DEF Interval
  <2>2. CASE r.log >= ShiftWidth
    BY <1>1, <2>2, PdelayAssumption DEF Interval
  <2>. QED  BY <1>1, <2>1, <2>2, PdelayAssumption
<1>. QED  BY <1>2, <1>3 DEF Due

LEMMA EndOne ==
  ASSUME NoNegativeInterval, NEW ports \in [Ports -> PortType], run \in RunType,
         run.at \in Ports, End(ports), NonNegativeLogs(ports)
  PROVE  One'
<1>1. /\ \A p \in Ports : port'[p] \in {ports[p], Ticked(ports[p])}
      /\ sent' = 0
  BY EndEffect
<1>2. NonNegativeLogs(port')
  BY <1>1, TickedEffect DEF NonNegativeLogs, NoNegativeInterval
<1>. QED  BY <1>1, <1>2 DEF One, NonNegativeLogs, SentOne

LEMMA StepOne ==
  ASSUME NoNegativeInterval, TypeOK, AllMeasuring(port), One, NEW p \in Ports, Step(p)
  PROVE  One'
<1>. DEFINE r == port[p]
<1>t. /\ port \in [Ports -> PortType] /\ r \in PortType /\ run \in RunType /\ sent \in 0..2
      /\ NonNegativeLogs(port) /\ r.log >= 0 /\ SentOne(port) /\ Measuring(p, r)
  BY DEF TypeOK, AllMeasuring, One, NonNegativeLogs
(* Once it sent a request, such a port's machine takes no transition. *)
<1>w. ASSUME p # TimestampPort, run.at = p, sent > 0
      PROVE  /\ r.state \in {"INITIAL_SEND", "SEND"} /\ ~r.stamped /\ ~Due(r)
  BY <1>w, <1>t, NotDue DEF SentOne, Measuring
<1>e. ASSUME NEW q \in PortType, q.log = r.log, Enter(p, q), run.at = p,
             p # TimestampPort => sent = 0
      PROVE  One'
  <2>1. port' = [port EXCEPT ![p] = q] /\ run' = run /\ sent' = sent
    BY <1>e DEF Enter
  <2>2. NonNegativeLogs(port')
    BY <1>e, <1>t, <2>1 DEF NonNegativeLogs
  <2>3. run # Idle
    BY <1>e, IdleType
  <2>. QED  BY <1>e, <2>1, <2>2, <2>3 DEF One, SentOne, NonNegativeLogs
<1>x. ASSUME NEW q \in PortType, q.log = r.log, q.timer = 0, q.state \in {"INITIAL_SEND", "SEND"},
             port' = Transmit([port EXCEPT ![p] = q]), run' = run, run.at = p,
             sent' = AtMost(2, sent + 1), p # TimestampPort => sent = 0
      PROVE  One'
  <2>. DEFINE ports == [port EXCEPT ![p] = q]
  <2>1. ports \in [Ports -> PortType] /\ ports[p] = q
        /\ \A n \in Ports \ {p} : ports[n] = port[n]
    BY <1>t, <1>x
  <2>2. port' = Transmit(ports)
    BY <1>x
  <2>. HIDE DEF ports
  <2>3. ASSUME NEW n \in Ports
        PROVE  port'[n].log = ports[n].log /\ port'[n].timer = ports[n].timer
               /\ port'[n].state = ports[n].state
    BY <2>1, <2>2, TransmitKeeps
  <2>4. ASSUME NEW n \in Ports  PROVE port'[n].log >= 0
    <3>1. ports[n].log >= 0
      <4>1. CASE n = p
        BY <1>t, <1>x, <2>1, <4>1
      <4>2. CASE n # p
        BY <1>t, <2>1, <4>2 DEF NonNegativeLogs
      <4>. QED  BY <4>1, <4>2
    <3>. QED  BY <2>3, <3>1
  <2>5. run # Idle
    BY <1>x, IdleType
  <2>6. p # TimestampPort => sent' = 1
    BY <1>x DEF AtMost
  <2>7. ASSUME NEW n \in Ports, run'.at = n, n # TimestampPort, sent' > 0
        PROVE  sent' = 1 /\ port'[n].timer = 0 /\ port'[n].state \in {"INITIAL_SEND", "SEND"}
    BY <1>x, <2>1, <2>3, <2>6, <2>7
  <2>. QED  BY <1>x, <2>4, <2>5, <2>7 DEF One, SentOne, NonNegativeLogs
<1>1. CASE StayDisabled(p)
  <2>. DEFINE q == IF r.state = "NOT_ENABLED" THEN r ELSE EnterNotEnabled(r)
  <2>1. run.at = p /\ End([port EXCEPT ![p] = q])
    BY <1>1 DEF StayDisabled
  <2>2. q \in PortType
    BY <1>t, EnterNotEnabledType
  <2>3. q.log = r.log
    BY <1>t DEF EnterNotEnabled, PortType
  <2>. HIDE DEF q
  <2>4. [port EXCEPT ![p] = q] \in [Ports -> PortType] /\ NonNegativeLogs([port EXCEPT ![p] = q])
    BY <1>t, <2>2, <2>3 DEF NonNegativeLogs
  <2>. QED  BY <1>t, <2>1, <2>4, EndOne
<1>2. CASE StartMeasuring(p)
  <2>1. EnterInitialSend(r) \in PortType
    BY <1>t, EnterInitialSendType
  <2>2. /\ port' = Transmit([port EXCEPT ![p] = EnterInitialSend(r)]) /\ run' = run
        /\ run.at = p /\ r.state = "NOT_ENABLED" /\ sent' = AtMost(2, sent + 1)
    BY <1>2 DEF StartMeasuring, In
  <2>3. p # TimestampPort => sent = 0
    BY <1>t, <1>w, <2>2
  <2>. QED  BY <1>t, <1>x, <2>1, <2>2, <2>3, InitialSendEffect
<1>3. CASE SendNext(p)
  <2>1. EnterSend(r) \in PortType
    BY <1>t, EnterSendType
  <2>2. /\ port' = Transmit([port EXCEPT ![p] = EnterSend(r)]) /\ run' = run
        /\ run.at = p /\ r.state \in {"RESET", "WAIT_INTERVAL"} /\ sent' = AtMost(2, sent + 1)
    BY <1>3 DEF SendNext, In
  <2>3. p # TimestampPort => sent = 0
    BY <1>t, <1>w, <2>2
  <2>. QED  BY <1>t, <1>x, <2>1, <2>2, <2>3, SendEffect
<1>4. CASE TakeTimestamp(p)
  <2>. DEFINE q == [r EXCEPT !.state = "WAIT_RESP", !.stamped = FALSE]
  <2>1. Enter(p, q) /\ run.at = p /\ r.stamped
    BY <1>4 DEF TakeTimestamp, In
  <2>2. q \in PortType /\ q.log = r.log
    BY <1>t DEF PortType, States
  <2>3. p # TimestampPort => sent = 0
    BY <1>t, <1>w, <2>1
  <2>. HIDE DEF q
  <2>. QED  BY <1>e, <2>1, <2>2, <2>3
<1>5. CASE AcceptResponse(p)
  <2>. DEFINE q == [r EXCEPT !.state = "WAIT_FOLLOW_UP", !.rcvdResp = FALSE]
  <2>1. Enter(p, q) /\ run.at = p /\ r.state = "WAIT_RESP"
    BY <1>5 DEF AcceptResponse, In
  <2>2. q \in PortType /\ q.log = r.log
    BY <1>t DEF PortType, States
  <2>3. p # TimestampPort => sent = 0
    BY <1>t, <1>w, <2>1
  <2>. HIDE DEF q
  <2>. QED  BY <1>e, <2>1, <2>2, <2>3
<1>6. CASE MissTimestamp(p) \/ GiveUpResponse(p) \/ GiveUpFollowUp(p)
  <2>1. Enter(p, EnterReset(r)) /\ run.at = p
    BY <1>6 DEF MissTimestamp, GiveUpResponse, GiveUpFollowUp, In
  <2>2. Due(r) \/ r.state \in {"WAIT_RESP", "WAIT_FOLLOW_UP"}
    BY <1>6 DEF MissTimestamp, GiveUpResponse, GiveUpFollowUp, In
  <2>3. p # TimestampPort => sent = 0
    BY <1>t, <1>w, <2>1, <2>2
  <2>. QED  BY <1>e, <1>t, <2>1, <2>3, EnterResetType, ResetEffect
<1>7. CASE AcceptFollowUp(p)
  <2>1. PICK m \in Measured(r) : Enter(p, m)
    BY <1>7 DEF AcceptFollowUp
  <2>2. run.at = p /\ r.state = "WAIT_FOLLOW_UP"
    BY <1>7 DEF AcceptFollowUp, In
  <2>3. p # TimestampPort => sent = 0
    BY <1>t, <1>w, <2>2
  <2>. QED  BY <1>e, <1>t, <2>1, <2>2, <2>3, MeasuredType, MeasuredEffect
<1>8. CASE Return(p)
  <2>1. run.at = p /\ End(port)
    BY <1>8 DEF Return, Settled, In
  <2>. QED  BY <1>t, <2>1, EndOne
<1>. QED  BY <1>1, <1>2, <1>3, <1>4, <1>5, <1>6, <1>7, <1>8 DEF Step

LEMMA CallOne ==
  ASSUME NoNegativeInterval, TypeOK, AllMeasuring(port), One, [Next]_vars
  PROVE  One'
<1>t. /\ port \in [Ports -> PortType] /\ (run = Idle => sent = 0)
      /\ \A p \in Ports : port[p] \in PortType /\ port[p].log >= 0
  BY DEF TypeOK, One, NonNegativeLogs
(* Every call but a step begins with no run, and has sent nothing yet. *)
<1>c. ASSUME sent' = 0, NonNegativeLogs(port)'  PROVE One'
  BY <1>c DEF One, SentOne, NonNegativeLogs
<1>1. CASE Tick
  <2>1. BeginTick(port, 0) /\ 0 \in Ports
    BY <1>1, PdelayAssumption DEF Tick, Ports
  <2>2. sent' = 0 /\ \A p \in Ports : port'[p] \in {port[p], Ticked(port[p])}
    BY <1>t, <2>1, BeginTickEffect
  <2>3. NonNegativeLogs(port')
    BY <1>t, <2>2, TickedEffect DEF NonNegativeLogs, NoNegativeInterval
  <2>. QED  BY <1>c, <2>2, <2>3 DEF NonNegativeLogs
<1>2. ASSUME NEW p \in Ports, Step(p)  PROVE One'
  BY <1>2, StepOne
<1>3. ASSUME NEW p \in Ports, NEW m \in Responses, ReceiveResponse(p, m)  PROVE One'
  <2>1. /\ sent' = 0
        /\ port' = [port EXCEPT ![p].rcvdResp = TRUE, ![p].resp = m,
                                ![p].responses = AtMost(2, @ + 1)]
    BY <1>3 DEF ReceiveResponse, Begin
  <2>2. ASSUME NEW n \in Ports  PROVE port'[n].log = port[n].log
    BY <1>t, <2>1 DEF PortType
  <2>. QED  BY <1>c, <1>t, <2>1, <2>2 DEF NonNegativeLogs
<1>4. ASSUME NEW p \in Ports, NEW m \in FollowUps, ReceiveFollowUp(p, m)  PROVE One'
  <2>1. sent' = 0 /\ port' = [port EXCEPT ![p].fup = m]
    BY <1>4 DEF ReceiveFollowUp, Begin
  <2>2. ASSUME NEW n \in Ports  PROVE port'[n].log = port[n].log
    BY <1>t, <2>1 DEF PortType
  <2>. QED  BY <1>c, <1>t, <2>1, <2>2 DEF NonNegativeLogs
<1>5. ASSUME NEW p \in Ports, NEW s \in Signals, ReceiveSignal(p, s)  PROVE One'
  <2>1. s.log \in Int /\ (s.log = KeepInterval \/ s.log >= 0) /\ InitialLog >= 0
    BY PdelayAssumption DEF SignalType, NoNegativeInterval
  <2>2. ASSUME NEW r \in PortType, r.log >= 0
        PROVE  SetIntervals(r, s).log >= 0 /\ LinkDelay(r).log >= 0
    BY <2>1, <2>2 DEF SetIntervals, LinkDelay, PortType
  <2>3. ASSUME NEW q \in Ports  PROVE port'[q].log >= 0
    <3>1. CASE q = p
      <4>1. port'[p] \in {SetIntervals(port[p], s), LinkDelay(port[p])}
        BY <1>5, <1>t DEF ReceiveSignal
      <4>. QED  BY <1>t, <2>2, <3>1, <4>1
    <3>2. CASE q # p
      BY <1>5, <1>t, <3>2 DEF ReceiveSignal
    <3>. QED  BY <3>1, <3>2
  <2>4. sent' = 0
    BY <1>5, <1>t DEF ReceiveSignal
  <2>. QED  BY <1>c, <2>3, <2>4 DEF NonNegativeLogs
<1>6. ASSUME NEW p \in Ports, NEW q \in Ports, ReceiveOwnRequest(p, q)  PROVE One'
  <2>1. ASSUME NEW r \in PortType  PROVE [r EXCEPT !.enabled = FALSE].log = r.log
    BY DEF PortType
  <2>2. ASSUME NEW n \in Ports  PROVE port'[n].log >= 0
    BY <1>6, <1>t, <2>1 DEF ReceiveOwnRequest
  <2>3. sent' = 0
    BY <1>6, <1>t DEF ReceiveOwnRequest
  <2>. QED  BY <1>c, <2>2, <2>3 DEF NonNegativeLogs
<1>7. CASE Deinit
  <2>1. ASSUME NEW r \in PortType  PROVE Restarted(r).log = r.log
    BY DEF Restarted, PortType
  <2>2. ASSUME NEW n \in Ports  PROVE port'[n].log >= 0
    BY <1>7, <1>t, <2>1 DEF Deinit
  <2>3. sent' = 0
    BY <1>7, <1>t DEF Deinit
  <2>. QED  BY <1>c, <2>2, <2>3 DEF NonNegativeLogs
<1>8. CASE UNCHANGED vars
  BY <1>8 DEF vars, One, SentOne, NonNegativeLogs
<1>9. ASSUME NEW q \in Ports, Refills(q)  PROVE One'
  <2>1. sent' = 0 /\ \A n \in Ports : port'[n].log = port[n].log
    BY <1>9, <1>t, RefillKeeps
  <2>. QED  BY <1>c, <1>t, <2>1 DEF NonNegativeLogs
<1>. QED  BY <1>1, <1>2, <1>3, <1>4, <1>5, <1>6, <1>7, <1>8, <1>9 DEF Next, Refills

(* As long as no neighbour signals a negative interval, a port that takes   *)
(* no timestamp answers no call, in any of its states, with two requests.   *)
THEOREM OneRequestInvariant ==
  ASSUME NoNegativeInterval  PROVE Spec => []OneRequestPerCall
<1>1. Init => One
  BY IdleType DEF Init, BootPort, One, SentOne, NonNegativeLogs
<1>2. TypeOK /\ AllMeasuring(port) /\ One /\ [Next]_vars => One'
  BY CallOne
<1>3. TypeOK /\ One => OneRequestPerCall
  BY DEF TypeOK, One, SentOne, OneRequestPerCall
<1>4. Init => AllMeasuring(port)
  BY DEF Init, BootPort, AllMeasuring, Measuring
<1>5. TypeOK /\ AllMeasuring(port) /\ [Next]_vars => AllMeasuring(port)'
  BY CallMeasuring DEF AllMeasuring
<1>. QED  BY <1>1, <1>2, <1>3, <1>4, <1>5, PdelayTypeCorrect, PTL DEF Spec

(***************************************************************************)
(* What the machine accepts.  The run on a port compares what is stored    *)
(* before its loop.  A request sent in the loop makes that one older, and  *)
(* after a second one, or a reset, nothing is stored any more: so what     *)
(* passed the comparison never answers a request before the last but one.  *)
(***************************************************************************)
Latest(m, p, r, n) ==
  m.id = p /\ (m.seq = r.seq \/ (n = 1 /\ (m.seq + 2) % SeqModulus = r.seq))

(* What holds of the record r of the port p in its run c with n requests. *)
Fresh(p, r, c, n) ==
  /\ r.rcvdResp /\ c.idOk /\ c.seqOk => Latest(r.resp, p, r, n)
  /\ r.fup # NoMessage /\ c.fupOk => Latest(r.fup, p, r, n)
  /\ n > 0 /\ r.rcvdResp => r.state \in {"SEND", "WAIT_RESP"}
  /\ n > 0 /\ r.state \in {"RESET", "WAIT_INTERVAL"} => r.fup = NoMessage

AllFresh == run.at \in Ports => Fresh(run.at, port[run.at], run, sent)

LEMMA FreshAtFirst ==
  ASSUME NEW p \in Ports, NEW tick, run' = RunAt(p, port'[p], tick), sent' = 0
  PROVE  AllFresh'
<1>. DEFINE r == port'[p]
            c == RunAt(p, r, tick)
<1>1. /\ c.at = p /\ c.idOk = (r.rcvdResp /\ r.resp.id = p)
      /\ c.seqOk = (r.rcvdResp /\ r.resp.seq = r.seq)
      /\ c.fupOk = (r.fup # NoMessage /\ Answers(r.fup, r, p))
  BY DEF RunAt
<1>. HIDE DEF c
<1>2. Fresh(p, r, c, 0)
  <2>1. c.idOk /\ c.seqOk => Latest(r.resp, p, r, 0)
    BY <1>1 DEF Latest
  <2>2. c.fupOk => Latest(r.fup, p, r, 0)
    BY <1>1 DEF Latest, Answers
  <2>. QED  BY <2>1, <2>2 DEF Fresh
<1>3. run'.at = p /\ Fresh(p, port'[p], run', sent')
  BY <1>1, <1>2 DEF c
<1>. QED  BY <1>3 DEF AllFresh

(* The messages and the sequence number of a record, and what an entry      *)
(* action does to them.                                                     *)
SameMessages(r, q) ==
  q.seq = r.seq /\ q.rcvdResp = r.rcvdResp /\ q.resp = r.resp /\ q.fup = r.fup

Cleared(q) == ~q.rcvdResp /\ q.fup = NoMessage

LEMMA ClearedFresh ==
  ASSUME NEW p, NEW q, NEW c, NEW n, Cleared(q)
  PROVE  Fresh(p, q, c, n)
  BY DEF Cleared, Fresh

LEMMA EntryMessages ==
  ASSUME NEW r \in PortType
  PROVE  /\ Cleared(EnterReset(r)) /\ Cleared(EnterInitialSend(r))
         /\ EnterSend(r).seq = (r.seq + 2) % SeqModulus
         /\ EnterSend(r).fup = r.fup
         /\ SameMessages(r, [r EXCEPT !.state = "WAIT_RESP", !.stamped = FALSE])
         /\ [r EXCEPT !.state = "WAIT_RESP", !.stamped = FALSE].state = "WAIT_RESP"
<1>1. Cleared(EnterReset(r))
  BY DEF EnterReset, PortType, Cleared
<1>2. Cleared(EnterInitialSend(r))
  BY DEF EnterInitialSend, PortType, Cleared
<1>3. EnterSend(r).seq = (r.seq + 2) % SeqModulus /\ EnterSend(r).fup = r.fup
  BY DEF EnterSend, PortType, NextSeq
<1>4. /\ SameMessages(r, [r EXCEPT !.state = "WAIT_RESP", !.stamped = FALSE])
      /\ [r EXCEPT !.state = "WAIT_RESP", !.stamped = FALSE].state = "WAIT_RESP"
  BY DEF SameMessages, PortType
<1>. QED  BY <1>1, <1>2, <1>3, <1>4

LEMMA MeasuredMessages ==
  ASSUME NEW r \in PortType, NEW m \in Measured(r)
  PROVE  m.fup = NoMessage
<1>1. PICK n \in RateRatios(r) : \E k \in PropTimes(n) :
        m = [k EXCEPT !.state = "WAIT_INTERVAL", !.fup = NoMessage, !.lost = 0,
                      !.asCapable = k.near /\ ~r.resp.own /\ k.ratioValid]
  BY MeasuredSteps, Zenon
<1>2. PICK k \in PropTimes(n) :
        m = [k EXCEPT !.state = "WAIT_INTERVAL", !.fup = NoMessage, !.lost = 0,
                      !.asCapable = k.near /\ ~r.resp.own /\ k.ratioValid]
  BY <1>1
<1>3. k \in PortType
  BY RateRatiosType, PropTimesType, Zenon
<1>. QED  BY <1>2, <1>3 DEF PortType

LEMMA TransmitMessages ==
  ASSUME NEW ports \in [Ports -> PortType], NEW p \in Ports
  PROVE  /\ SameMessages(ports[p], Transmit(ports)[p])
         /\ Transmit(ports)[p].state = ports[p].state
<1>1. ASSUME NEW r \in PortType
      PROVE  SameMessages(r, [r EXCEPT !.stamped = TRUE])
  BY DEF PortType, SameMessages
<1>2. CASE p = TimestampPort
  <2>1. Transmit(ports)[p] = [ports[p] EXCEPT !.stamped = TRUE] /\ ports[p] \in PortType
    BY <1>2, TransmitEffect
  <2>. QED  BY <1>1, <2>1, TransmitKeeps
<1>3. CASE p # TimestampPort
  BY <1>3, TransmitEffect, TransmitKeeps DEF SameMessages
<1>. QED  BY <1>2, <1>3

(* The record of a transmitting port. *)
LEMMA SentRecord ==
  ASSUME NEW p \in Ports, port \in [Ports -> PortType], NEW q \in PortType,
         port' = Transmit([port EXCEPT ![p] = q])
  PROVE  SameMessages(q, port'[p]) /\ port'[p].state = q.state
<1>. DEFINE ports == [port EXCEPT ![p] = q]
<1>1. ports \in [Ports -> PortType] /\ ports[p] = q
  OBVIOUS
<1>2. port' = Transmit(ports)
  OBVIOUS
<1>. HIDE DEF ports
<1>. QED  BY <1>1, <1>2, TransmitMessages

(* A request leaves what was compared before it one behind. *)
LEMMA SendFresh ==
  ASSUME NEW p \in Ports, NEW r \in PortType, NEW q, NEW c, NEW n \in 0..2,
         Fresh(p, r, c, n), r.state \in {"RESET", "WAIT_INTERVAL"},
         q.state = "SEND", q.seq = (r.seq + 2) % SeqModulus,
         q.rcvdResp = r.rcvdResp, q.resp = r.resp, q.fup = r.fup
  PROVE  Fresh(p, q, c, AtMost(2, n + 1))
<1>1. CASE n = 0
  <2>1. AtMost(2, n + 1) = 1
    BY <1>1 DEF AtMost
  <2>2. ASSUME NEW m, Latest(m, p, r, 0)  PROVE Latest(m, p, q, 1)
    BY <2>2 DEF Latest
  <2>. QED  BY <1>1, <2>1, <2>2 DEF Fresh
<1>2. CASE n > 0
  <2>1. ~r.rcvdResp /\ r.fup = NoMessage
    BY <1>2 DEF Fresh
  <2>. QED  BY <2>1, ClearedFresh DEF Cleared
<1>. QED  BY <1>1, <1>2

LEMMA StepFresh ==
  ASSUME TypeOK, AllFresh, NEW p \in Ports, Step(p)
  PROVE  AllFresh'
<1>. DEFINE r == port[p]
<1>t. /\ port \in [Ports -> PortType] /\ r \in PortType /\ run \in RunType /\ sent \in 0..2
      /\ run.at = p /\ Fresh(p, r, run, sent)
  BY DEF TypeOK, AllFresh, Step, StayDisabled, StartMeasuring, SendNext, TakeTimestamp,
         MissTimestamp, GiveUpResponse, AcceptResponse, GiveUpFollowUp, AcceptFollowUp,
         Return, Settled, In
<1>e. ASSUME NEW q, Enter(p, q), Fresh(p, q, run, sent)  PROVE AllFresh'
  BY <1>e, <1>t DEF Enter, AllFresh
<1>f. ASSUME NEW ports \in [Ports -> PortType], End(ports)  PROVE AllFresh'
  <2>1. sent' = 0 /\ (run' = Idle \/ \E q \in Ports : run' = RunAt(q, port'[q], TRUE))
    BY <1>f, <1>t, EndEffect
  <2>2. run' = Idle => AllFresh'
    BY IdleType DEF AllFresh
  <2>. QED  BY <2>1, <2>2, FreshAtFirst
<1>1. CASE StayDisabled(p)
  <2>. DEFINE q == IF r.state = "NOT_ENABLED" THEN r ELSE EnterNotEnabled(r)
  <2>1. End([port EXCEPT ![p] = q])
    BY <1>1 DEF StayDisabled
  <2>2. q \in PortType
    BY <1>t, EnterNotEnabledType
  <2>. HIDE DEF q
  <2>3. [port EXCEPT ![p] = q] \in [Ports -> PortType]
    BY <1>t, <2>2
  <2>. QED  BY <1>f, <2>1, <2>3
<1>2. CASE StartMeasuring(p)
  <2>1. port' = Transmit([port EXCEPT ![p] = EnterInitialSend(r)]) /\ run' = run
    BY <1>2 DEF StartMeasuring
  <2>2. Cleared(EnterInitialSend(r)) /\ SameMessages(EnterInitialSend(r), port'[p])
    BY <1>t, <2>1, EnterInitialSendType, EntryMessages, SentRecord
  <2>3. Cleared(port'[p])
    BY <2>2 DEF SameMessages, Cleared
  <2>. QED  BY <1>t, <2>1, <2>3, ClearedFresh DEF AllFresh
<1>3. CASE SendNext(p)
  <2>1. /\ port' = Transmit([port EXCEPT ![p] = EnterSend(r)]) /\ run' = run
        /\ sent' = AtMost(2, sent + 1) /\ r.state \in {"RESET", "WAIT_INTERVAL"}
    BY <1>3 DEF SendNext, In
  <2>2. SameMessages(EnterSend(r), port'[p]) /\ port'[p].state = "SEND"
    BY <1>t, <2>1, EnterSendType, SendEffect, SentRecord
  <2>3. /\ port'[p].seq = (r.seq + 2) % SeqModulus /\ port'[p].rcvdResp = r.rcvdResp
        /\ port'[p].resp = r.resp /\ port'[p].fup = r.fup
    BY <1>t, <2>2, SendEffect, EntryMessages DEF SameMessages
  <2>4. Fresh(p, port'[p], run, sent')
    BY <1>t, <2>1, <2>2, <2>3, SendFresh
  <2>. QED  BY <1>t, <2>1, <2>4 DEF AllFresh
<1>4. CASE TakeTimestamp(p)
  <2>. DEFINE q == [r EXCEPT !.state = "WAIT_RESP", !.stamped = FALSE]
  <2>1. Enter(p, q) /\ SameMessages(r, q) /\ q.state = "WAIT_RESP"
    BY <1>t, <1>4, EntryMessages DEF TakeTimestamp
  <2>. HIDE DEF q
  <2>2. Fresh(p, q, run, sent)
    BY <1>t, <2>1 DEF Fresh, Latest, SameMessages
  <2>. QED  BY <1>e, <2>1, <2>2
<1>5. CASE AcceptResponse(p)
  <2>. DEFINE q == [r EXCEPT !.state = "WAIT_FOLLOW_UP", !.rcvdResp = FALSE]
  <2>1. Enter(p, q)
    BY <1>5 DEF AcceptResponse
  <2>2. q.state = "WAIT_FOLLOW_UP" /\ ~q.rcvdResp /\ q.fup = r.fup /\ q.seq = r.seq
    BY <1>t DEF PortType
  <2>. HIDE DEF q
  <2>3. Fresh(p, q, run, sent)
    BY <1>t, <2>2 DEF Fresh, Latest
  <2>. QED  BY <1>e, <2>1, <2>3
<1>6. CASE MissTimestamp(p) \/ GiveUpResponse(p) \/ GiveUpFollowUp(p)
  <2>1. Enter(p, EnterReset(r))
    BY <1>6 DEF MissTimestamp, GiveUpResponse, GiveUpFollowUp
  <2>. QED  BY <1>e, <1>t, <2>1, EntryMessages, ClearedFresh
<1>7. CASE AcceptFollowUp(p)
  <2>1. PICK m \in Measured(r) : Enter(p, m)
    BY <1>7 DEF AcceptFollowUp
  <2>2. m.rcvdResp = r.rcvdResp /\ m.fup = NoMessage /\ m.state = "WAIT_INTERVAL"
    BY <1>t, <2>1, MeasuredEffect, MeasuredMessages
  <2>3. r.state = "WAIT_FOLLOW_UP" /\ ~(r.rcvdResp /\ run.seqOk)
    BY <1>7 DEF AcceptFollowUp, In, FollowUpFails
  <2>4. Fresh(p, m, run, sent)
    BY <1>t, <2>2, <2>3 DEF Fresh
  <2>. QED  BY <1>e, <2>1, <2>4
<1>8. CASE Return(p)
  <2>1. End(port)
    BY <1>8 DEF Return
  <2>. QED  BY <1>f, <1>t, <2>1
<1>. QED  BY <1>1, <1>2, <1>3, <1>4, <1>5, <1>6, <1>7, <1>8 DEF Step

LEMMA CallFresh ==
  ASSUME TypeOK, AllFresh, [Next]_vars
  PROVE  AllFresh'
<1>. DEFINE Begun(p) == \E tick \in BOOLEAN : run' = RunAt(p, port'[p], tick) /\ sent' = 0
<1>b. (\E p \in Ports : Begun(p)) => AllFresh'
  BY FreshAtFirst
<1>i. run = Idle /\ run' = run => AllFresh'
  BY IdleType DEF AllFresh
<1>1. CASE Tick
  <2>1. BeginTick(port, 0) /\ 0 \in Ports
    BY <1>1, PdelayAssumption DEF Tick, Ports
  <2>2. Begun(0)
    BY <2>1, BeginTickEffect DEF TypeOK
  <2>. QED  BY <1>b, <2>1, <2>2
<1>2. ASSUME NEW p \in Ports, Step(p)  PROVE AllFresh'
  BY <1>2, StepFresh
<1>3. ASSUME NEW p \in Ports, NEW m \in Responses, ReceiveResponse(p, m)  PROVE AllFresh'
  <2>1. Begun(p)
    BY <1>3 DEF ReceiveResponse, Begin
  <2>. QED  BY <1>b, <2>1
<1>4. ASSUME NEW p \in Ports, NEW m \in FollowUps, ReceiveFollowUp(p, m)  PROVE AllFresh'
  <2>1. Begun(p)
    BY <1>4 DEF ReceiveFollowUp, Begin
  <2>. QED  BY <1>b, <2>1
<1>5. ASSUME NEW p \in Ports, NEW s \in Signals, ReceiveSignal(p, s)  PROVE AllFresh'
  BY <1>5, <1>i DEF ReceiveSignal
<1>6. ASSUME NEW p \in Ports, NEW q \in Ports, ReceiveOwnRequest(p, q)  PROVE AllFresh'
  BY <1>6, <1>i DEF ReceiveOwnRequest
<1>7. CASE Deinit
  BY <1>7, <1>i DEF Deinit
<1>8. CASE UNCHANGED vars
  BY <1>8 DEF vars, AllFresh
<1>9. ASSUME NEW q \in Ports, Refills(q)  PROVE AllFresh'
  BY <1>9, <1>i DEF Refills, ReuseRespBuffer, ReuseFollowUpBuffer
<1>. QED  BY <1>1, <1>2, <1>3, <1>4, <1>5, <1>6, <1>7, <1>8, <1>9 DEF Next, Refills

(* The machine moves on from a message only by accepting it. *)
LEMMA OnlyAcceptMovesOn ==
  ASSUME TypeOK, NEW p \in Ports, [Next]_vars
  PROVE  /\ port[p].state = "WAIT_RESP" /\ port'[p].state = "WAIT_FOLLOW_UP" => AcceptResponse(p)
         /\ port[p].state = "WAIT_FOLLOW_UP" /\ port'[p].state = "WAIT_INTERVAL"
              => AcceptFollowUp(p)
<1>. DEFINE r == port[p]
            Goal == \/ port'[p].state \in {r.state, "NOT_ENABLED", "RESET"}
                    \/ r.state \in {"NOT_ENABLED", "INITIAL_SEND", "RESET", "SEND", "WAIT_INTERVAL"}
                    \/ AcceptResponse(p) /\ r.state = "WAIT_RESP"
                    \/ AcceptFollowUp(p) /\ r.state = "WAIT_FOLLOW_UP"
<1>. SUFFICES Goal
  OBVIOUS
<1>t. port \in [Ports -> PortType] /\ r \in PortType /\ run \in RunType
  BY DEF TypeOK
<1>f. ASSUME NEW q \in Ports, NEW ports \in [Ports -> PortType], End(ports), run.at = q
      PROVE  port'[p].state = ports[p].state
  <2>1. port'[p] \in {ports[p], Ticked(ports[p])} /\ ports[p] \in PortType
    BY <1>f, <1>t, EndEffect
  <2>. QED  BY <2>1, TickedEffect
(* A step of the machine of another port. *)
<1>o. ASSUME NEW q \in Ports, q # p, Step(q)  PROVE port'[p].state = r.state
  <2>x. ASSUME NEW s \in PortType, port' = Transmit([port EXCEPT ![q] = s])
        PROVE  port'[p].state = r.state
    <3>. DEFINE ports == [port EXCEPT ![q] = s]
    <3>1. ports \in [Ports -> PortType] /\ ports[p] = r /\ port' = Transmit(ports)
      BY <1>t, <1>o, <2>x
    <3>. HIDE DEF ports
    <3>. QED  BY <3>1, TransmitMessages
  <2>1. CASE StayDisabled(q)
    <3>. DEFINE s == IF port[q].state = "NOT_ENABLED" THEN port[q] ELSE EnterNotEnabled(port[q])
                ports == [port EXCEPT ![q] = s]
    <3>1. run.at = q /\ End(ports)
      BY <2>1 DEF StayDisabled
    <3>2. s \in PortType
      BY <1>t, EnterNotEnabledType
    <3>. HIDE DEF s
    <3>3. ports \in [Ports -> PortType] /\ ports[p] = r
      BY <1>t, <1>o, <3>2
    <3>. HIDE DEF ports
    <3>. QED  BY <1>f, <3>1, <3>3
  <2>2. CASE StartMeasuring(q)
    <3>1. port' = Transmit([port EXCEPT ![q] = EnterInitialSend(port[q])])
      BY <2>2 DEF StartMeasuring
    <3>. QED  BY <1>t, <2>x, <3>1, EnterInitialSendType
  <2>3. CASE SendNext(q)
    <3>1. port' = Transmit([port EXCEPT ![q] = EnterSend(port[q])])
      BY <2>3 DEF SendNext
    <3>. QED  BY <1>t, <2>x, <3>1, EnterSendType
  <2>4. ASSUME NEW s, Enter(q, s)  PROVE port'[p].state = r.state
    BY <2>4, <1>o, <1>t DEF Enter
  <2>5. CASE Return(q)
    <3>1. run.at = q /\ End(port)
      BY <2>5 DEF Return, Settled, In
    <3>. QED  BY <1>f, <1>t, <3>1
  <2>. QED  BY <1>o, <2>1, <2>2, <2>3, <2>4, <2>5, Zenon DEF Step, TakeTimestamp, MissTimestamp,
              GiveUpResponse, AcceptResponse, GiveUpFollowUp, AcceptFollowUp
(* A step of its own. *)
<1>1. CASE StayDisabled(p)
  <2>. DEFINE q == IF r.state = "NOT_ENABLED" THEN r ELSE EnterNotEnabled(r)
              ports == [port EXCEPT ![p] = q]
  <2>1. run.at = p /\ End(ports)
    BY <1>1 DEF StayDisabled
  <2>2. q \in PortType /\ q.state = "NOT_ENABLED"
    <3>1. EnterNotEnabled(r).state = "NOT_ENABLED"
      BY <1>t DEF EnterNotEnabled, PortType
    <3>. QED  BY <1>t, <3>1, EnterNotEnabledType
  <2>. HIDE DEF q
  <2>3. ports \in [Ports -> PortType] /\ ports[p] = q
    BY <1>t, <2>2
  <2>. HIDE DEF ports
  <2>4. port'[p].state = "NOT_ENABLED"
    BY <1>f, <2>1, <2>2, <2>3
  <2>. QED  BY <2>4
<1>2. CASE StartMeasuring(p) \/ SendNext(p) \/ TakeTimestamp(p)
  <2>1. r.state \in {"NOT_ENABLED", "INITIAL_SEND", "RESET", "SEND", "WAIT_INTERVAL"}
    BY <1>2, Zenon DEF StartMeasuring, SendNext, TakeTimestamp, In
  <2>. QED  BY <2>1
<1>3. CASE MissTimestamp(p) \/ GiveUpResponse(p) \/ GiveUpFollowUp(p)
  <2>1. port' = [port EXCEPT ![p] = EnterReset(r)]
    BY <1>3 DEF MissTimestamp, GiveUpResponse, GiveUpFollowUp, Enter
  <2>2. port'[p].state = "RESET"
    BY <1>t, <2>1, ResetEffect
  <2>. QED  BY <2>2
<1>4. CASE AcceptResponse(p)
  BY <1>4 DEF AcceptResponse, In
<1>5. CASE AcceptFollowUp(p)
  BY <1>5 DEF AcceptFollowUp, In
<1>6. CASE Return(p)
  <2>1. run.at = p /\ End(port)
    BY <1>6 DEF Return, Settled, In
  <2>2. port'[p].state = r.state
    BY <1>f, <1>t, <2>1
  <2>. QED  BY <2>2
(* A call. *)
<1>7. ASSUME port'[p].state \in {r.state, "NOT_ENABLED"}  PROVE Goal
  BY <1>7
<1>8. CASE Tick
  <2>1. BeginTick(port, 0) /\ 0 \in Ports
    BY <1>8, PdelayAssumption DEF Tick, Ports
  <2>2. port'[p].state = r.state
    BY <1>t, <2>1, BeginTickEffect, TickedEffect
  <2>. QED  BY <1>7, <2>2
<1>9. ASSUME NEW q \in Ports, NEW m \in Responses, ReceiveResponse(q, m)  PROVE Goal
  <2>1. port'[p].state = r.state
    BY <1>9, <1>t DEF ReceiveResponse, Begin, PortType
  <2>. QED  BY <1>7, <2>1
<1>10. ASSUME NEW q \in Ports, NEW m \in FollowUps, ReceiveFollowUp(q, m)  PROVE Goal
  <2>1. port'[p].state = r.state
    BY <1>10, <1>t DEF ReceiveFollowUp, Begin, PortType
  <2>. QED  BY <1>7, <2>1
<1>11. ASSUME NEW q \in Ports, NEW s \in Signals, ReceiveSignal(q, s)  PROVE Goal
  <2>1. ASSUME NEW k \in PortType
        PROVE  SetIntervals(k, s).state = k.state /\ LinkDelay(k).state = k.state
    BY DEF SetIntervals, LinkDelay, PortType
  <2>2. port'[p].state = r.state
    BY <1>11, <1>t, <2>1 DEF ReceiveSignal
  <2>. QED  BY <1>7, <2>2
<1>12. ASSUME NEW q \in Ports, NEW o \in Ports, ReceiveOwnRequest(q, o)  PROVE Goal
  <2>1. [r EXCEPT !.enabled = FALSE].state = r.state
    BY <1>t DEF PortType
  <2>2. port'[p].state = r.state
    BY <1>12, <1>t, <2>1 DEF ReceiveOwnRequest
  <2>. QED  BY <1>7, <2>2
<1>13. CASE Deinit
  <2>1. Restarted(r).state = "NOT_ENABLED"
    BY <1>t DEF Restarted, PortType
  <2>2. port'[p].state = "NOT_ENABLED"
    BY <1>13, <2>1 DEF Deinit
  <2>. QED  BY <1>7, <2>2
<1>14. CASE UNCHANGED vars
  BY <1>14 DEF vars
<1>15. ASSUME NEW q \in Ports, Step(q)  PROVE Goal
  <2>1. CASE q # p
    BY <1>15, <2>1, <1>o
  <2>2. CASE q = p
    <3>1. Step(p)
      BY <1>15, <2>2
    <3>. HIDE DEF Goal
    <3>. QED  BY <3>1, <1>1, <1>2, <1>3, <1>4, <1>5, <1>6, Zenon DEF Step
  <2>. QED  BY <2>1, <2>2
<1>16. ASSUME NEW q \in Ports, Refills(q)  PROVE Goal
  <2>1. port'[p].state = r.state
    BY <1>16, <1>t, RefillKeeps
  <2>. QED  BY <1>7, <2>1
<1>. HIDE DEF Goal
<1>. QED  BY <1>8, <1>9, <1>10, <1>11, <1>12, <1>13, <1>14, <1>15, <1>16 DEF Next, Refills

(* In every instance, what the machine accepts answers the last request, or *)
(* the last but one in the very call that sent the last.                    *)
THEOREM NothingOlderAccepted ==
  Spec => AcceptsNothingOlder
<1>1. Init => AllFresh
  BY IdleType DEF Init, AllFresh
<1>2. TypeOK /\ AllFresh /\ [Next]_vars => AllFresh'
  BY CallFresh
<1>3. ASSUME TypeOK, AllFresh, [Next]_vars
      PROVE  [\A p \in Ports :
                /\ port[p].state = "WAIT_RESP" /\ port'[p].state = "WAIT_FOLLOW_UP" =>
                     AnswersLatest(port[p].resp, p)
                /\ port[p].state = "WAIT_FOLLOW_UP" /\ port'[p].state = "WAIT_INTERVAL" =>
                     AnswersLatest(port[p].fup, p)]_vars
  <2>1. ASSUME NEW p \in Ports, AcceptResponse(p)  PROVE AnswersLatest(port[p].resp, p)
    <3>1. run.at = p /\ port[p].rcvdResp /\ run.idOk /\ run.seqOk
      BY <2>1 DEF AcceptResponse, In, ResponseFails
    <3>. QED  BY <1>3, <3>1 DEF AllFresh, Fresh, Latest, AnswersLatest
  <2>2. ASSUME NEW p \in Ports, AcceptFollowUp(p)  PROVE AnswersLatest(port[p].fup, p)
    <3>1. run.at = p /\ port[p].fup # NoMessage /\ run.fupOk
      BY <2>2 DEF AcceptFollowUp, In
    <3>. QED  BY <1>3, <3>1 DEF AllFresh, Fresh, Latest, AnswersLatest
  <2>. QED  BY <1>3, <2>1, <2>2, OnlyAcceptMovesOn
<1>. QED  BY <1>1, <1>2, <1>3, PdelayTypeCorrect, PTL DEF Spec, AcceptsNothingOlder

(***************************************************************************)
(* Requests never end.  Every call ends: an iteration takes the machine    *)
(* through at most eighteen states before it has sent a request that is    *)
(* not due again, and waits.  So ticks go on, each visits every port, and  *)
(* brings the timer of a port that waits nearer to the end of its          *)
(* interval.  Once there, the machine can only wait on by way of a request.*)
(***************************************************************************)
IntervalsFit ==
  /\ Interval(0) <= MaxTimer /\ Interval(InitialLog) <= MaxTimer
  /\ \A s \in Signals : s.log = KeepInterval \/ Interval(s.log) <= MaxTimer

LogFits(r) == r.log >= 0 /\ Interval(r.log) <= MaxTimer

(* A machine that waits has not waited its interval out. *)
Waits(r) == r.state # "NOT_ENABLED" => r.timer < MaxTimer

(* What holds of a port during the run c. *)
Kept(p, r, c) ==
  /\ LogFits(r)
  /\ c.at = p /\ r.enabled => c.looping
  /\ c.at # p => Waits(r)

AllKept ==
  /\ run = Idle \/ run.at \in Ports
  /\ \A p \in Ports : Kept(p, port[p], run)

LEMMA IntervalType ==
  ASSUME NEW log \in Int, log >= 0
  PROVE  Interval(log) \in Nat
<1>1. CASE log \in 0..(ShiftWidth - 1)
  BY <1>1, PdelayAssumption DEF Interval
<1>2. CASE log >= ShiftWidth
  BY <1>2, PdelayAssumption DEF Interval
<1>. QED  BY <1>1, <1>2, PdelayAssumption

LEMMA TickedTimer ==
  ASSUME NEW r \in PortType
  PROVE  Ticked(r).timer = AtMost(MaxTimer, r.timer + 1)
<1>1. LinkDelay(r) \in PortType /\ LinkDelay(r).timer = r.timer
  BY LinkDelayType, ZenonT(60) DEF LinkDelay, PortType
<1>2. ASSUME NEW q \in PortType  PROVE Ticked(r) = [q EXCEPT !.timer = AtMost(MaxTimer, @ + 1)]
                                        => Ticked(r).timer = AtMost(MaxTimer, q.timer + 1)
  BY <1>2 DEF PortType
<1>. QED  BY <1>1, <1>2 DEF Ticked

LEMMA TickedFits ==
  ASSUME NoNegativeInterval, IntervalsFit, NEW r \in PortType, LogFits(r)
  PROVE  LogFits(Ticked(r))
  BY TickedEffect DEF LogFits, NoNegativeInterval, IntervalsFit

(* The tick's run on the port q. *)
LEMMA BeginTickOn ==
  ASSUME NEW ports \in [Ports -> PortType], NEW q \in Ports, BeginTick(ports, q)
  PROVE  /\ port' = [ports EXCEPT ![q] = Ticked(ports[q])]
         /\ port'[q] = Ticked(ports[q]) /\ port' \in [Ports -> PortType]
         /\ \A p \in Ports \ {q} : port'[p] = ports[p]
         /\ run' = RunAt(q, port'[q], TRUE) /\ sent' = 0
         /\ run'.at = q /\ run'.tick /\ run'.looping = ports[q].enabled
<1>. DEFINE e == Ticked(ports[q])
<1>1. e \in PortType /\ e.enabled = ports[q].enabled
  BY TickedType, TickedEffect
<1>2. port' = [ports EXCEPT ![q] = e] /\ run' = RunAt(q, port'[q], TRUE) /\ sent' = 0
  BY DEF BeginTick, Begin
<1>. HIDE DEF e
<1>3. port'[q] = e /\ port' \in [Ports -> PortType] /\ \A p \in Ports \ {q} : port'[p] = ports[p]
  BY <1>1, <1>2
<1>4. run'.at = q /\ run'.tick /\ run'.looping = ports[q].enabled
  BY <1>1, <1>2, <1>3 DEF RunAt
<1>. QED  BY <1>2, <1>3, <1>4 DEF e

LEMMA EndGoesOn ==
  ASSUME NEW ports \in [Ports -> PortType], run.at \in Ports, End(ports)
  PROVE  \/ port' = ports /\ run' = Idle /\ (run.tick => run.at + 1 = NumPorts)
         \/ run.tick /\ run.at + 1 \in Ports /\ BeginTick(ports, run.at + 1)
  BY PdelayAssumption DEF End, Ports

(***************************************************************************)
(* The invariant: a run that ends leaves the machine waiting.              *)
(***************************************************************************)
LEMMA BeginTickKept ==
  ASSUME NoNegativeInterval, IntervalsFit,
         NEW ports \in [Ports -> PortType], NEW q \in Ports, BeginTick(ports, q),
         \A p \in Ports : LogFits(ports[p]) /\ Waits(ports[p])
  PROVE  AllKept'
<1>1. /\ port'[q] = Ticked(ports[q]) /\ \A p \in Ports \ {q} : port'[p] = ports[p]
      /\ run'.at = q /\ run'.looping = ports[q].enabled
  BY BeginTickOn
<1>2. ports[q] \in PortType /\ LogFits(ports[q])
  OBVIOUS
<1>3. LogFits(Ticked(ports[q])) /\ Ticked(ports[q]).enabled = ports[q].enabled
  BY <1>2, TickedFits, TickedEffect
<1>4. ASSUME NEW p \in Ports  PROVE Kept(p, port'[p], run')
  BY <1>1, <1>3 DEF Kept
<1>. QED  BY <1>1, <1>4 DEF AllKept

LEMMA EndKept ==
  ASSUME NoNegativeInterval, IntervalsFit,
         NEW ports \in [Ports -> PortType], run.at \in Ports, End(ports),
         \A p \in Ports : LogFits(ports[p]) /\ Waits(ports[p])
  PROVE  AllKept'
<1>1. CASE port' = ports /\ run' = Idle
  BY <1>1, IdleType DEF AllKept, Kept
<1>2. CASE run.at + 1 \in Ports /\ BeginTick(ports, run.at + 1)
  BY <1>2, BeginTickKept
<1>. QED  BY <1>1, <1>2, EndGoesOn

(* A frame's run on the port q begins with the record r. *)
LEMMA BeginKept ==
  ASSUME TypeOK, AllKept, run = Idle, NEW q \in Ports, NEW r \in PortType,
         Begin([port EXCEPT ![q] = r], q, FALSE), r.log = port[q].log
  PROVE  AllKept'
<1>1. /\ port' = [port EXCEPT ![q] = r] /\ run' = RunAt(q, port'[q], FALSE)
      /\ port \in [Ports -> PortType]
  BY DEF Begin, TypeOK
<1>2. port'[q] = r /\ \A p \in Ports \ {q} : port'[p] = port[p]
  BY <1>1
<1>3. run'.at = q /\ run'.looping = r.enabled
  BY <1>1, <1>2 DEF RunAt
<1>4. ASSUME NEW p \in Ports  PROVE Kept(p, port'[p], run')
  <2>1. CASE p = q
    BY <1>2, <1>3, <2>1 DEF AllKept, Kept, LogFits
  <2>2. CASE p # q
    BY <1>2, <1>3, <2>2, IdleType DEF AllKept, Kept
  <2>. QED  BY <2>1, <2>2
<1>. QED  BY <1>3, <1>4 DEF AllKept

LEMMA StepKept ==
  ASSUME NoNegativeInterval, IntervalsFit, TypeOK, AllKept, NEW p \in Ports, Step(p)
  PROVE  AllKept'
<1>. DEFINE r == port[p]
<1>t. /\ port \in [Ports -> PortType] /\ r \in PortType
      /\ LogFits(r) /\ run.at = p /\ (r.enabled => run.looping)
      /\ \A n \in Ports \ {p} : LogFits(port[n]) /\ Waits(port[n])
  BY DEF TypeOK, AllKept, Kept, Step, StayDisabled, StartMeasuring, SendNext, TakeTimestamp,
         MissTimestamp, GiveUpResponse, AcceptResponse, GiveUpFollowUp, AcceptFollowUp,
         Return, Settled, In
(* In the middle of the run. *)
<1>m. ASSUME NEW ports \in [Ports -> PortType], ports[p].log = r.log,
             ports[p].enabled => r.enabled, run' = run,
             \A n \in Ports \ {p} : ports[n] = port[n],
             port' = ports \/ port' = Transmit(ports)
      PROVE  AllKept'
  <2>1. ASSUME NEW n \in Ports
        PROVE  /\ port'[n].log = ports[n].log /\ port'[n].enabled = ports[n].enabled
               /\ port'[n].timer = ports[n].timer /\ port'[n].state = ports[n].state
    BY <1>m, TransmitKeeps
  <2>2. ASSUME NEW n \in Ports  PROVE Kept(n, port'[n], run')
    <3>1. CASE n = p
      BY <1>t, <1>m, <2>1, <3>1 DEF Kept, LogFits
    <3>2. CASE n # p
      BY <1>t, <1>m, <2>1, <3>2 DEF Kept, LogFits, Waits
    <3>. QED  BY <3>1, <3>2
  <2>. QED  BY <1>t, <1>m, <2>2 DEF AllKept
<1>e. ASSUME NEW q \in PortType, q.log = r.log, q.enabled => r.enabled, Enter(p, q)
      PROVE  AllKept'
  <2>. DEFINE ports == [port EXCEPT ![p] = q]
  <2>1. ports \in [Ports -> PortType] /\ ports[p] = q /\ \A n \in Ports \ {p} : ports[n] = port[n]
    BY <1>t, <1>e
  <2>2. port' = ports /\ run' = run
    BY <1>e DEF Enter
  <2>. HIDE DEF ports
  <2>. QED  BY <1>e, <1>m, <2>1, <2>2
<1>x. ASSUME NEW q \in PortType, q.log = r.log, q.enabled => r.enabled,
             port' = Transmit([port EXCEPT ![p] = q]), run' = run
      PROVE  AllKept'
  <2>. DEFINE ports == [port EXCEPT ![p] = q]
  <2>1. ports \in [Ports -> PortType] /\ ports[p] = q /\ \A n \in Ports \ {p} : ports[n] = port[n]
    BY <1>t, <1>x
  <2>2. port' = Transmit(ports) /\ run' = run
    BY <1>x
  <2>. HIDE DEF ports
  <2>. QED  BY <1>x, <1>m, <2>1, <2>2
<1>1. CASE StayDisabled(p)
  <2>. DEFINE q == IF r.state = "NOT_ENABLED" THEN r ELSE EnterNotEnabled(r)
              ports == [port EXCEPT ![p] = q]
  <2>1. End(ports)
    BY <1>1 DEF StayDisabled
  <2>2. q \in PortType
    BY <1>t, EnterNotEnabledType
  <2>3. q.log = r.log /\ q.state = "NOT_ENABLED"
    BY <1>t DEF EnterNotEnabled, PortType
  <2>. HIDE DEF q
  <2>4. ports \in [Ports -> PortType] /\ ports[p] = q /\ \A n \in Ports \ {p} : ports[n] = port[n]
    BY <1>t, <2>2
  <2>. HIDE DEF ports
  <2>5. \A n \in Ports : LogFits(ports[n]) /\ Waits(ports[n])
    BY <1>t, <2>3, <2>4 DEF LogFits, Waits
  <2>. QED  BY <1>t, <2>1, <2>4, <2>5, EndKept
<1>2. CASE StartMeasuring(p)
  <2>1. port' = Transmit([port EXCEPT ![p] = EnterInitialSend(r)]) /\ run' = run
    BY <1>2 DEF StartMeasuring
  <2>. QED  BY <1>t, <1>x, <2>1, EnterInitialSendType, InitialSendEffect
<1>3. CASE SendNext(p)
  <2>1. port' = Transmit([port EXCEPT ![p] = EnterSend(r)]) /\ run' = run
    BY <1>3 DEF SendNext
  <2>. QED  BY <1>t, <1>x, <2>1, EnterSendType, SendEffect
<1>4. CASE TakeTimestamp(p)
  <2>. DEFINE q == [r EXCEPT !.state = "WAIT_RESP", !.stamped = FALSE]
  <2>1. Enter(p, q)
    BY <1>4 DEF TakeTimestamp
  <2>2. q \in PortType /\ q.log = r.log /\ q.enabled = r.enabled
    BY <1>t, ZenonT(60) DEF PortType, States
  <2>. HIDE DEF q
  <2>. QED  BY <1>e, <2>1, <2>2
<1>5. CASE AcceptResponse(p)
  <2>. DEFINE q == [r EXCEPT !.state = "WAIT_FOLLOW_UP", !.rcvdResp = FALSE]
  <2>1. Enter(p, q)
    BY <1>5 DEF AcceptResponse
  <2>2. q \in PortType /\ q.log = r.log /\ q.enabled = r.enabled
    BY <1>t, ZenonT(60) DEF PortType, States
  <2>. HIDE DEF q
  <2>. QED  BY <1>e, <2>1, <2>2
<1>6. CASE MissTimestamp(p) \/ GiveUpResponse(p) \/ GiveUpFollowUp(p)
  <2>1. Enter(p, EnterReset(r))
    BY <1>6 DEF MissTimestamp, GiveUpResponse, GiveUpFollowUp
  <2>. QED  BY <1>e, <1>t, <2>1, EnterResetType, ResetEffect
<1>7. CASE AcceptFollowUp(p)
  <2>1. PICK m \in Measured(r) : Enter(p, m)
    BY <1>7 DEF AcceptFollowUp
  <2>. QED  BY <1>e, <1>t, <2>1, MeasuredType, MeasuredEffect
<1>8. CASE Return(p)
  <2>1. End(port) /\ ~Due(r)
    BY <1>8, Zenon DEF Return, Settled, ResponseFails, FollowUpFails
  <2>2. Waits(r)
    <3>1. r.timer \in Int /\ MaxTimer \in Int /\ Interval(r.log) \in Int
      <4>1. r.timer \in Int /\ MaxTimer \in Int /\ r.log \in Int /\ r.log >= 0
        BY <1>t, PdelayAssumption DEF PortType, LogFits
      <4>. QED  BY <4>1, IntervalType
    <3>. QED  BY <1>t, <2>1, <3>1 DEF Due, LogFits, Waits
  <2>. QED  BY <1>t, <2>1, <2>2, EndKept
<1>. QED  BY <1>1, <1>2, <1>3, <1>4, <1>5, <1>6, <1>7, <1>8 DEF Step

LEMMA CallKept ==
  ASSUME NoNegativeInterval, IntervalsFit, TypeOK, AllKept, [Next]_vars
  PROVE  AllKept'
<1>t. port \in [Ports -> PortType] /\ \A p \in Ports : port[p] \in PortType /\ Kept(p, port[p], run)
  BY DEF TypeOK, AllKept
<1>i. Idle.at \notin Ports
  BY IdleType
<1>w. run = Idle => \A p \in Ports : LogFits(port[p]) /\ Waits(port[p])
  BY <1>t, <1>i DEF Kept
(* Between two calls. *)
<1>b. ASSUME run = Idle, run' = run, \A p \in Ports : LogFits(port'[p]) /\ Waits(port'[p])
      PROVE  AllKept'
  BY <1>b, <1>i DEF AllKept, Kept
<1>1. CASE Tick
  <2>1. run = Idle /\ BeginTick(port, 0) /\ 0 \in Ports
    BY <1>1, PdelayAssumption DEF Tick, Ports
  <2>. QED  BY <1>t, <1>w, <2>1, BeginTickKept
<1>2. ASSUME NEW p \in Ports, Step(p)  PROVE AllKept'
  BY <1>2, StepKept
<1>3. ASSUME NEW p \in Ports, NEW m \in Responses, ReceiveResponse(p, m)  PROVE AllKept'
  <2>. DEFINE r == port'[p]
  <2>1. run = Idle /\ port' = [port EXCEPT ![p].rcvdResp = TRUE, ![p].resp = m,
                                          ![p].responses = AtMost(2, @ + 1)]
    BY <1>3 DEF ReceiveResponse, Begin
  <2>2. r \in PortType
    BY <1>3, CallTypes DEF TypeOK, Next
  <2>3. r.log = port[p].log /\ port' = [port EXCEPT ![p] = r]
    BY <1>t, <2>1 DEF PortType
  <2>4. Begin(port', p, FALSE)
    BY <1>3 DEF ReceiveResponse, Begin
  <2>. HIDE DEF r
  <2>5. Begin([port EXCEPT ![p] = r], p, FALSE)
    BY <2>3, <2>4
  <2>. QED  BY <2>1, <2>2, <2>3, <2>5, BeginKept
<1>4. ASSUME NEW p \in Ports, NEW m \in FollowUps, ReceiveFollowUp(p, m)  PROVE AllKept'
  <2>. DEFINE r == [port[p] EXCEPT !.fup = m]
  <2>1. run = Idle /\ Begin([port EXCEPT ![p] = r], p, FALSE)
    BY <1>4 DEF ReceiveFollowUp
  <2>2. r \in PortType /\ r.log = port[p].log
    BY <1>t DEF PortType
  <2>. HIDE DEF r
  <2>. QED  BY <2>1, <2>2, BeginKept
<1>5. ASSUME NEW p \in Ports, NEW s \in Signals, ReceiveSignal(p, s)  PROVE AllKept'
  <2>1. /\ s.log = KeepInterval \/ (s.log >= 0 /\ Interval(s.log) <= MaxTimer)
        /\ InitialLog >= 0 /\ Interval(InitialLog) <= MaxTimer
    BY DEF NoNegativeInterval, IntervalsFit, KeepInterval
  <2>2. ASSUME NEW r \in PortType, LogFits(r), Waits(r)
        PROVE  /\ LogFits(SetIntervals(r, s)) /\ LogFits(LinkDelay(r))
               /\ Waits(SetIntervals(r, s)) /\ Waits(LinkDelay(r))
    BY <2>1, <2>2 DEF SetIntervals, LinkDelay, PortType, LogFits, Waits
  <2>3. run = Idle /\ run' = run
    BY <1>5 DEF ReceiveSignal
  <2>4. ASSUME NEW q \in Ports  PROVE LogFits(port'[q]) /\ Waits(port'[q])
    <3>1. CASE q = p
      <4>1. port'[p] \in {SetIntervals(port[p], s), LinkDelay(port[p])}
        BY <1>5, <1>t DEF ReceiveSignal
      <4>. QED  BY <1>t, <1>w, <2>2, <2>3, <3>1, <4>1
    <3>2. CASE q # p
      BY <1>5, <1>t, <1>w, <2>3, <3>2 DEF ReceiveSignal
    <3>. QED  BY <3>1, <3>2
  <2>. QED  BY <1>b, <2>3, <2>4
<1>6. ASSUME NEW p \in Ports, NEW q \in Ports, ReceiveOwnRequest(p, q)  PROVE AllKept'
  <2>1. ASSUME NEW r \in PortType, LogFits(r), Waits(r)
        PROVE  LogFits([r EXCEPT !.enabled = FALSE]) /\ Waits([r EXCEPT !.enabled = FALSE])
    BY <2>1 DEF PortType, LogFits, Waits
  <2>2. run = Idle /\ run' = run
    BY <1>6 DEF ReceiveOwnRequest
  <2>3. ASSUME NEW n \in Ports
        PROVE  port'[n] \in {port[n], [port[n] EXCEPT !.enabled = FALSE]}
    BY <1>6 DEF ReceiveOwnRequest
  <2>. QED  BY <1>b, <1>t, <1>w, <2>1, <2>2, <2>3
<1>7. CASE Deinit
  <2>1. ASSUME NEW r \in PortType, LogFits(r)
        PROVE  LogFits(Restarted(r)) /\ Waits(Restarted(r))
    BY <2>1 DEF Restarted, PortType, LogFits, Waits
  <2>2. run = Idle /\ run' = run /\ \A n \in Ports : port'[n] = Restarted(port[n])
    BY <1>7 DEF Deinit
  <2>. QED  BY <1>b, <1>t, <1>w, <2>1, <2>2
<1>8. CASE UNCHANGED vars
  BY <1>8, Zenon DEF vars, AllKept
<1>9. ASSUME NEW q \in Ports, Refills(q)  PROVE AllKept'
  BY <1>9, <1>b, <1>t, <1>w, RefillKeeps DEF LogFits, Waits
<1>. QED  BY <1>1, <1>2, <1>3, <1>4, <1>5, <1>6, <1>7, <1>8, <1>9 DEF Next, Refills

LEMMA KeptInvariant ==
  ASSUME NoNegativeInterval, IntervalsFit  PROVE Spec => []AllKept
<1>1. Init => AllKept
  BY IdleType DEF Init, BootPort, AllKept, Kept, LogFits, Waits, IntervalsFit
<1>2. TypeOK /\ AllKept /\ [Next]_vars => AllKept'
  BY CallKept
<1>. QED  BY <1>1, <1>2, PdelayTypeCorrect, PTL DEF Spec

LEMMA ResetTimer ==
  ASSUME NEW r \in PortType  PROVE EnterReset(r).timer = r.timer
  BY DEF EnterReset, PortType

LEMMA MeasuredTimer ==
  ASSUME NEW r \in PortType, NEW m \in Measured(r)
  PROVE  m.timer = r.timer
<1>1. PICK n \in RateRatios(r) : \E k \in PropTimes(n) :
        m = [k EXCEPT !.state = "WAIT_INTERVAL", !.fup = NoMessage, !.lost = 0,
                      !.asCapable = k.near /\ ~r.resp.own /\ k.ratioValid]
  BY MeasuredSteps, Zenon
<1>2. PICK k \in PropTimes(n) :
        m = [k EXCEPT !.state = "WAIT_INTERVAL", !.fup = NoMessage, !.lost = 0,
                      !.asCapable = k.near /\ ~r.resp.own /\ k.ratioValid]
  BY <1>1
<1>3. n.timer = r.timer
  BY DEF RateRatios, PortType
<1>4. n \in PortType /\ k \in PortType
  BY RateRatiosType, PropTimesType, Zenon
<1>5. k.timer = n.timer
  BY <1>4 DEF PropTimes, PortType
<1>. QED  BY <1>2, <1>3, <1>4, <1>5 DEF PortType

(***************************************************************************)
(* Every call ends.  The iterations a machine has left: before it sends,   *)
(* it may give up one wait; when it has sent, its interval has just begun, *)
(* and only a response received before the call can make it reset again.   *)
(***************************************************************************)
StepsLeft(r) ==
  CASE r.state = "NOT_ENABLED" -> 18
    [] r.state # "NOT_ENABLED" /\ Due(r) ->
         (IF r.state \in {"INITIAL_SEND", "SEND"} THEN 17
          ELSE IF r.state \in {"WAIT_RESP", "WAIT_FOLLOW_UP"} THEN 16 ELSE 15)
    [] r.state # "NOT_ENABLED" /\ ~Due(r) ->
         (IF r.rcvdResp THEN 7 ELSE 0) +
         (IF r.state = "RESET" THEN 5
          ELSE IF r.state \in {"INITIAL_SEND", "SEND"} THEN 4
          ELSE IF r.state = "WAIT_RESP" THEN 3
          ELSE IF r.state = "WAIT_FOLLOW_UP" THEN 2 ELSE 1)

LEMMA StepsLeftRange ==
  ASSUME NEW r \in PortType  PROVE StepsLeft(r) \in 1..18
  BY DEF StepsLeft

(* A machine that has just sent, or reset, has at most so many left.        *)
LEMMA SentHasFew ==
  ASSUME NEW r \in PortType, r.state \in {"INITIAL_SEND", "SEND"}, ~Due(r)
  PROVE  StepsLeft(r) <= (IF r.rcvdResp THEN 11 ELSE 4)
  BY DEF StepsLeft

LEMMA StepFalls ==
  ASSUME NoNegativeInterval, TypeOK, AllKept, NEW p \in Ports, Step(p)
  PROVE  run'.at # p \/ StepsLeft(port'[p]) < StepsLeft(port[p])
<1>. DEFINE r == port[p]
<1>t. /\ port \in [Ports -> PortType] /\ r \in PortType /\ r.log >= 0
      /\ r.rcvdResp \in BOOLEAN /\ StepsLeft(r) \in 1..18 /\ r.timer \in Int
  BY StepsLeftRange DEF TypeOK, AllKept, Kept, LogFits, PortType
<1>e. ASSUME NEW q \in PortType, Enter(p, q)  PROVE port'[p] = q
  BY <1>e, <1>t DEF Enter
<1>d. ASSUME NEW ports \in [Ports -> PortType], run.at = p, End(ports)  PROVE run'.at # p
  <2>1. p + 1 # p /\ Idle.at # p
    BY PdelayAssumption, IdleType DEF Ports
  <2>. QED  BY <1>d, <2>1, EndGoesOn, BeginTickOn
(* A request leaves the timer at 0. *)
<1>x. ASSUME NEW q \in PortType, port' = Transmit([port EXCEPT ![p] = q]),
             q.log = r.log, q.timer = 0, q.state \in {"INITIAL_SEND", "SEND"}
      PROVE  /\ port'[p] \in PortType /\ ~Due(port'[p])
             /\ port'[p].state \in {"INITIAL_SEND", "SEND"} /\ port'[p].rcvdResp = q.rcvdResp
  <2>. DEFINE ports == [port EXCEPT ![p] = q]
  <2>1. ports \in [Ports -> PortType] /\ ports[p] = q /\ port' = Transmit(ports)
    BY <1>t, <1>x
  <2>. HIDE DEF ports
  <2>2. port'[p] \in {q, [q EXCEPT !.stamped = TRUE]} /\ port'[p] \in PortType
    BY <2>1, TransmitEffect
  <2>3. /\ port'[p].log = q.log /\ port'[p].timer = q.timer /\ port'[p].state = q.state
        /\ port'[p].rcvdResp = q.rcvdResp
    BY <2>2 DEF PortType
  <2>. QED  BY <1>t, <1>x, <2>2, <2>3, NotDue
<1>1. CASE StayDisabled(p)
  <2>. DEFINE q == IF r.state = "NOT_ENABLED" THEN r ELSE EnterNotEnabled(r)
  <2>1. run.at = p /\ End([port EXCEPT ![p] = q])
    BY <1>1 DEF StayDisabled
  <2>2. q \in PortType
    BY <1>t, EnterNotEnabledType
  <2>. HIDE DEF q
  <2>3. [port EXCEPT ![p] = q] \in [Ports -> PortType]
    BY <1>t, <2>2
  <2>. QED  BY <1>d, <2>1, <2>3
<1>2. CASE StartMeasuring(p)
  <2>1. port' = Transmit([port EXCEPT ![p] = EnterInitialSend(r)]) /\ r.state = "NOT_ENABLED"
    BY <1>2 DEF StartMeasuring, In
  <2>2. /\ port'[p] \in PortType /\ ~Due(port'[p])
        /\ port'[p].state \in {"INITIAL_SEND", "SEND"}
    BY <1>t, <1>x, <2>1, EnterInitialSendType, InitialSendEffect
  <2>3. StepsLeft(port'[p]) \in 1..18 /\ StepsLeft(port'[p]) <= 11
    BY <2>2, SentHasFew, StepsLeftRange
  <2>4. StepsLeft(r) = 18
    BY <2>1 DEF StepsLeft
  <2>. QED  BY <2>3, <2>4
<1>3. CASE SendNext(p)
  <2>1. /\ port' = Transmit([port EXCEPT ![p] = EnterSend(r)])
        /\ r.state = "RESET" \/ (r.state = "WAIT_INTERVAL" /\ Due(r))
    BY <1>3 DEF SendNext, In
  <2>2. /\ port'[p] \in PortType /\ ~Due(port'[p])
        /\ port'[p].state \in {"INITIAL_SEND", "SEND"} /\ port'[p].rcvdResp = r.rcvdResp
    BY <1>t, <1>x, <2>1, EnterSendType, SendEffect, ZenonT(60)
  <2>3. /\ StepsLeft(port'[p]) \in 1..18
        /\ StepsLeft(port'[p]) <= (IF r.rcvdResp THEN 11 ELSE 4)
    BY <2>2, SentHasFew, StepsLeftRange
  <2>4. StepsLeft(r) \in {15, IF r.rcvdResp THEN 12 ELSE 5}
    BY <2>1 DEF StepsLeft
  <2>. QED  BY <1>t, <2>3, <2>4
<1>4. CASE TakeTimestamp(p)
  <2>. DEFINE q == [r EXCEPT !.state = "WAIT_RESP", !.stamped = FALSE]
  <2>1. Enter(p, q) /\ r.state \in {"INITIAL_SEND", "SEND"}
    BY <1>4 DEF TakeTimestamp, In
  <2>2. /\ q \in PortType /\ q.state = "WAIT_RESP" /\ q.rcvdResp = r.rcvdResp
        /\ q.log = r.log /\ q.timer = r.timer
    BY <1>t DEF PortType, States
  <2>. HIDE DEF q
  <2>3. StepsLeft(q) < StepsLeft(r)
    BY <1>t, <2>1, <2>2 DEF StepsLeft, Due
  <2>. QED  BY <1>e, <2>1, <2>2, <2>3
<1>5. CASE AcceptResponse(p)
  <2>. DEFINE q == [r EXCEPT !.state = "WAIT_FOLLOW_UP", !.rcvdResp = FALSE]
  <2>1. Enter(p, q) /\ r.state = "WAIT_RESP" /\ r.rcvdResp /\ ~Due(r)
    BY <1>5 DEF AcceptResponse, In, ResponseFails
  <2>2. /\ q \in PortType /\ q.state = "WAIT_FOLLOW_UP" /\ ~q.rcvdResp
        /\ q.log = r.log /\ q.timer = r.timer
    BY <1>t DEF PortType, States
  <2>. HIDE DEF q
  <2>3. StepsLeft(q) < StepsLeft(r)
    BY <1>t, <2>1, <2>2 DEF StepsLeft, Due
  <2>. QED  BY <1>e, <2>1, <2>2, <2>3
<1>6. CASE MissTimestamp(p) \/ GiveUpResponse(p) \/ GiveUpFollowUp(p)
  <2>. DEFINE q == EnterReset(r)
  <2>1. /\ Enter(p, q)
        /\ \/ r.state \in {"INITIAL_SEND", "SEND"} /\ Due(r)
           \/ r.state \in {"WAIT_RESP", "WAIT_FOLLOW_UP"} /\ (Due(r) \/ r.rcvdResp)
    BY <1>6 DEF MissTimestamp, GiveUpResponse, GiveUpFollowUp, In, ResponseFails, FollowUpFails
  <2>2. /\ q \in PortType /\ q.state = "RESET" /\ ~q.rcvdResp
        /\ q.log = r.log /\ q.timer = r.timer
    <3>. HIDE DEF q
    <3>1. q = EnterReset(r)
      BY DEF q
    <3>. QED  BY <1>t, <3>1, EnterResetType, ResetEffect, ResetTimer
  <2>. HIDE DEF q
  <2>3. StepsLeft(q) < StepsLeft(r)
    BY <1>t, <2>1, <2>2 DEF StepsLeft, Due
  <2>. QED  BY <1>e, <2>1, <2>2, <2>3
<1>7. CASE AcceptFollowUp(p)
  <2>1. r.state = "WAIT_FOLLOW_UP" /\ ~Due(r)
    BY <1>7 DEF AcceptFollowUp, In, FollowUpFails
  <2>2. PICK m \in Measured(r) : Enter(p, m)
    BY <1>7 DEF AcceptFollowUp
  <2>3. /\ m \in PortType /\ m.state = "WAIT_INTERVAL" /\ m.rcvdResp = r.rcvdResp
        /\ m.log = r.log /\ m.timer = r.timer
    BY <1>t, MeasuredType, MeasuredEffect, MeasuredTimer
  <2>4. StepsLeft(m) < StepsLeft(r)
    BY <1>t, <2>1, <2>3 DEF StepsLeft, Due
  <2>. QED  BY <1>e, <2>2, <2>3, <2>4
<1>8. CASE Return(p)
  <2>1. run.at = p /\ End(port)
    BY <1>8 DEF Return, Settled, In
  <2>. QED  BY <1>d, <1>t, <2>1
<1>. QED  BY <1>1, <1>2, <1>3, <1>4, <1>5, <1>6, <1>7, <1>8 DEF Step

(* During a call nothing else happens. *)
LEMMA OnlySteps ==
  ASSUME NEW p \in Ports, run.at = p, [Next]_vars
  PROVE  Step(p) \/ UNCHANGED vars
<1>1. run # Idle
  BY IdleType
<1>2. ASSUME NEW q \in Ports, Step(q)  PROVE q = p
  BY <1>2 DEF Step, StayDisabled, StartMeasuring, SendNext, TakeTimestamp, MissTimestamp,
              GiveUpResponse, AcceptResponse, GiveUpFollowUp, AcceptFollowUp, Return, Settled, In
<1>. QED  BY <1>1, <1>2, Zenon DEF Next, Tick, ReceiveResponse, ReceiveFollowUp, ReceiveSignal,
                                   ReuseRespBuffer, ReuseFollowUpBuffer,
                                   ReceiveOwnRequest, Deinit

(* MDPdelayReq_StateMachine returns: of the at most eighteen iterations its *)
(* loop has left on a port every one takes at least one, whatever it        *)
(* compared before the loop.                                                *)
THEOREM LoopIsBounded ==
  ASSUME NoNegativeInterval, IntervalsFit
  PROVE  Spec => [][\A p \in Ports : run.at = p /\ run'.at = p =>
                      /\ StepsLeft(port[p]) \in 1..18 /\ StepsLeft(port'[p]) \in 1..18
                      /\ StepsLeft(port'[p]) < StepsLeft(port[p])]_vars
<1>1. Spec => []AllKept
  BY KeptInvariant
<1>2. ASSUME TypeOK, TypeOK', AllKept, [Next]_vars
      PROVE  [\A p \in Ports : run.at = p /\ run'.at = p =>
                /\ StepsLeft(port[p]) \in 1..18 /\ StepsLeft(port'[p]) \in 1..18
                /\ StepsLeft(port'[p]) < StepsLeft(port[p])]_vars
  <2>1. ASSUME NEW p \in Ports, run.at = p, run'.at = p, ~UNCHANGED vars
        PROVE  /\ StepsLeft(port[p]) \in 1..18 /\ StepsLeft(port'[p]) \in 1..18
               /\ StepsLeft(port'[p]) < StepsLeft(port[p])
    <3>1. Step(p)
      BY <1>2, <2>1, OnlySteps
    <3>2. port[p] \in PortType /\ port'[p] \in PortType
      BY <1>2 DEF TypeOK
    <3>. QED  BY <1>2, <2>1, <3>1, <3>2, StepFalls, StepsLeftRange
  <2>. QED  BY <2>1
<1>. QED  BY <1>1, <1>2, PdelayTypeCorrect, PTL DEF Spec

(* The run on a port goes on, or ends, or the tick goes on to the next port. *)
LEMMA StepGoesOn ==
  ASSUME TypeOK, NEW p \in Ports, Step(p)
  PROVE  \/ run' = run
         \/ run' = Idle /\ (run.tick => p + 1 = NumPorts)
         \/ run.tick /\ p + 1 \in Ports /\ run'.at = p + 1 /\ run'.tick
<1>. DEFINE r == port[p]
<1>t. port \in [Ports -> PortType] /\ r \in PortType
  BY DEF TypeOK
<1>d. ASSUME NEW ports \in [Ports -> PortType], run.at = p, End(ports)
      PROVE  \/ run' = Idle /\ (run.tick => p + 1 = NumPorts)
             \/ run.tick /\ p + 1 \in Ports /\ run'.at = p + 1 /\ run'.tick
  BY <1>d, EndGoesOn, BeginTickOn
<1>1. CASE StayDisabled(p)
  <2>. DEFINE q == IF r.state = "NOT_ENABLED" THEN r ELSE EnterNotEnabled(r)
  <2>1. run.at = p /\ End([port EXCEPT ![p] = q])
    BY <1>1 DEF StayDisabled
  <2>2. q \in PortType
    BY <1>t, EnterNotEnabledType
  <2>. HIDE DEF q
  <2>3. [port EXCEPT ![p] = q] \in [Ports -> PortType]
    BY <1>t, <2>2
  <2>. QED  BY <1>d, <2>1, <2>3
<1>2. CASE Return(p)
  <2>1. run.at = p /\ End(port)
    BY <1>2 DEF Return, Settled, In
  <2>. QED  BY <1>d, <1>t, <2>1
<1>3. CASE ~StayDisabled(p) /\ ~Return(p)
  BY <1>3, Zenon DEF Step, StartMeasuring, SendNext, TakeTimestamp, MissTimestamp, GiveUpResponse,
                     AcceptResponse, GiveUpFollowUp, AcceptFollowUp, Enter
<1>. QED  BY <1>1, <1>2, <1>3

(***************************************************************************)
(* What counts down: the iterations of a machine, the ports a call may     *)
(* still come to, and the ticks a port may still have to wait.  Below says *)
(* that fewer than n are left, Reached what the end of each is.            *)
(***************************************************************************)
Requested(p) == ~port[p].enabled \/ (run.at = p /\ sent > 0)

Below(k, p, n) ==
  \/ k = "machine" /\ run.at = p /\ StepsLeft(port[p]) < n
  \/ k = "call" /\ NumPorts - run.at < n
  \/ k = "timer" /\ (port[p].state = "NOT_ENABLED" \/ MaxTimer - port[p].timer < n)

Reached(k, p) ==
  \/ k = "machine" /\ run.at # p
  \/ k = "call" /\ run = Idle
  \/ k = "timer" /\ Requested(p)

Falls(k, p, a, b) == Below(k, p, a) ~> (Below(k, p, b) \/ Reached(k, p))

FallsBy(k, p, w) == \A n \in Nat : Falls(k, p, n + w, n)

(* What a 32-bit counter counts, as that of the ports and the timer are. *)
WordLimit == 4294967296

LEMMA FallsFurther ==
  ASSUME NEW k, NEW p, NEW a, NEW b, NEW c
  PROVE  Falls(k, p, a, b) /\ Falls(k, p, b, c) => Falls(k, p, a, c)
  BY PTL DEF Falls

LEMMA FallsTwice ==
  ASSUME NEW k, NEW p, NEW w \in Nat
  PROVE  FallsBy(k, p, w) => FallsBy(k, p, w + w)
<1>. SUFFICES ASSUME FallsBy(k, p, w), NEW n \in Nat  PROVE Falls(k, p, n + (w + w), n)
  BY DEF FallsBy
<1>1. n + w \in Nat /\ (n + w) + w = n + (w + w)
  OBVIOUS
<1>2. Falls(k, p, n + w, n)
  BY DEF FallsBy
<1>3. Falls(k, p, (n + w) + w, n + w)
  BY <1>1 DEF FallsBy
<1>. QED  BY <1>1, <1>2, <1>3, FallsFurther

LEMMA FallsSixteenTimes ==
  ASSUME NEW k, NEW p, NEW w \in Nat
  PROVE  FallsBy(k, p, w) => FallsBy(k, p, 16 * w)
<1>1. /\ 2 * w \in Nat /\ 4 * w \in Nat /\ 8 * w \in Nat
      /\ 2 * w = w + w /\ 4 * w = 2 * w + 2 * w /\ 8 * w = 4 * w + 4 * w
      /\ 16 * w = 8 * w + 8 * w
  OBVIOUS
<1>2. FallsBy(k, p, w) => FallsBy(k, p, 2 * w)
  BY <1>1, FallsTwice
<1>3. FallsBy(k, p, 2 * w) => FallsBy(k, p, 4 * w)
  BY <1>1, FallsTwice
<1>4. FallsBy(k, p, 4 * w) => FallsBy(k, p, 8 * w)
  BY <1>1, FallsTwice
<1>5. FallsBy(k, p, 8 * w) => FallsBy(k, p, 16 * w)
  BY <1>1, FallsTwice
<1>. QED  BY <1>2, <1>3, <1>4, <1>5

LEMMA FallsAllTheWay ==
  ASSUME NEW k, NEW p
  PROVE  FallsBy(k, p, 1) => Falls(k, p, WordLimit, 0)
<1>1. FallsBy(k, p, 1) => FallsBy(k, p, 16)
  BY FallsSixteenTimes
<1>2. FallsBy(k, p, 16) => FallsBy(k, p, 256)
  BY FallsSixteenTimes
<1>3. FallsBy(k, p, 256) => FallsBy(k, p, 4096)
  BY FallsSixteenTimes
<1>4. FallsBy(k, p, 4096) => FallsBy(k, p, 65536)
  BY FallsSixteenTimes
<1>5. FallsBy(k, p, 65536) => FallsBy(k, p, 1048576)
  BY FallsSixteenTimes
<1>6. FallsBy(k, p, 1048576) => FallsBy(k, p, 16777216)
  BY FallsSixteenTimes
<1>7. FallsBy(k, p, 16777216) => FallsBy(k, p, 268435456)
  BY FallsSixteenTimes
<1>8. FallsBy(k, p, 268435456) => FallsBy(k, p, 4294967296)
  BY FallsSixteenTimes
<1>9. FallsBy(k, p, 4294967296) => Falls(k, p, 4294967296, 0)
  <2>1. 0 \in Nat /\ 0 + 4294967296 = 4294967296
    OBVIOUS
  <2>. QED  BY <2>1 DEF FallsBy
<1>. QED  BY <1>1, <1>2, <1>3, <1>4, <1>5, <1>6, <1>7, <1>8, <1>9 DEF WordLimit

(* What the calls of every port rest on. *)
Running ==
  /\ []TypeOK /\ []AllKept /\ []CallsMove
  /\ [][Next]_vars
  /\ CallsRunOn

(* What those of one port rest on. *)
RunningOn(p) ==
  /\ []TypeOK /\ []AllKept /\ []StepMoves(p)
  /\ [][Next]_vars
  /\ RunsOn(p)

LEMMA EveryPortRuns ==
  ASSUME NEW p \in Ports
  PROVE  Running => RunningOn(p)
<1>1. CallsMove => StepMoves(p)
  BY DEF CallsMove
<1>2. CallsRunOn => RunsOn(p)
  BY DEF CallsRunOn
<1>. QED  BY <1>1, <1>2, PTL DEF Running, RunningOn

LEMMA MachineFalls ==
  ASSUME NoNegativeInterval, NEW p \in Ports
  PROVE  RunningOn(p) => FallsBy("machine", p, 1)
<1>1. ASSUME NEW n \in Nat
      PROVE  RunningOn(p) => Falls("machine", p, n + 1, n)
  <2>0. TypeOK /\ AllKept => StepsLeft(port[p]) \in Int
    BY StepsLeftRange DEF TypeOK
  <2>1. /\ TypeOK /\ AllKept /\ TypeOK' /\ AllKept' /\ Below("machine", p, n + 1) /\ [Next]_vars
        => Below("machine", p, n + 1)' \/ Reached("machine", p)'
    <3>. SUFFICES ASSUME TypeOK, AllKept, TypeOK', AllKept', Below("machine", p, n + 1), [Next]_vars
                  PROVE  Below("machine", p, n + 1)' \/ Reached("machine", p)'
      OBVIOUS
    <3>1. run.at = p /\ StepsLeft(port[p]) < n + 1
      BY DEF Below
    <3>2. Step(p) \/ UNCHANGED vars
      BY <3>1, OnlySteps
    <3>3. StepsLeft(port[p]) \in Int /\ StepsLeft(port'[p]) \in Int
      BY StepsLeftRange DEF TypeOK
    <3>4. run'.at # p \/ StepsLeft(port'[p]) < n + 1
      BY <3>1, <3>2, <3>3, StepFalls DEF vars
    <3>. QED  BY <3>4 DEF Below, Reached
  <2>2. /\ TypeOK /\ AllKept /\ TypeOK' /\ Below("machine", p, n + 1) /\ <<Step(p)>>_vars
        => Below("machine", p, n)' \/ Reached("machine", p)'
    <3>. SUFFICES ASSUME TypeOK, AllKept, TypeOK', Below("machine", p, n + 1), Step(p)
                  PROVE  Below("machine", p, n)' \/ Reached("machine", p)'
      OBVIOUS
    <3>1. run.at = p /\ StepsLeft(port[p]) < n + 1
      BY DEF Below
    <3>3. StepsLeft(port[p]) \in Int /\ StepsLeft(port'[p]) \in Int
      BY StepsLeftRange DEF TypeOK
    <3>4. run'.at # p \/ StepsLeft(port'[p]) < n
      BY <3>1, <3>3, StepFalls
    <3>. QED  BY <3>4 DEF Below, Reached
  <2>3. Below("machine", p, n + 1) => run.at = p
    BY DEF Below
  <2>. QED  BY <2>1, <2>2, <2>3, PTL DEF RunningOn, RunsOn, StepMoves, Falls
<1>. HIDE DEF RunningOn
<1>. QED  BY <1>1 DEF FallsBy

(* So the run on a port comes to its end. *)
RunLeaves(p) == (run.at = p) ~> ~(run.at = p)

LEMMA RunEnds ==
  ASSUME NoNegativeInterval, NEW p \in Ports
  PROVE  Running => RunLeaves(p)
<1>1. Running => Falls("machine", p, WordLimit, 0)
  BY EveryPortRuns, MachineFalls, FallsAllTheWay
<1>2. TypeOK /\ run.at = p => Below("machine", p, WordLimit) /\ ~Below("machine", p, 0)
  <2>1. TypeOK => StepsLeft(port[p]) \in 1..18
    BY StepsLeftRange DEF TypeOK
  <2>. QED  BY <2>1 DEF Below, WordLimit
<1>3. Below("machine", p, 0) => run.at = p
  BY DEF Below
<1>4. Reached("machine", p) => ~(run.at = p)
  BY DEF Reached
<1>. QED  BY <1>1, <1>2, <1>3, <1>4, PTL DEF Running, Falls, RunLeaves

(* And so does the call, which goes through the ports in their order.       *)
LEMMA CallFalls ==
  ASSUME NoNegativeInterval, NEW p
  PROVE  Running => FallsBy("call", p, 1)
<1>1. ASSUME NEW n \in Nat, NEW q \in Int, q = NumPorts - n
      PROVE  Running => Falls("call", p, n + 1, n)
  <2>1. TypeOK /\ Below("call", p, n + 1) => Below("call", p, n) \/ run.at = q
    BY <1>1, PdelayAssumption DEF Below, TypeOK, RunType
  <2>2. CASE q \in Ports
    <3>1. Running => RunLeaves(q)
      BY <2>2, RunEnds
    <3>2. /\ TypeOK /\ run.at = q /\ [Next]_vars
          => (run.at = q)' \/ Below("call", p, n)' \/ Reached("call", p)'
      <4>. SUFFICES ASSUME TypeOK, run.at = q, [Next]_vars
                    PROVE  run'.at = q \/ NumPorts - run'.at < n \/ run' = Idle
        BY DEF Below, Reached
      <4>1. Step(q) \/ UNCHANGED vars
        BY <2>2, OnlySteps
      <4>2. run' = run \/ run' = Idle \/ run'.at = q + 1
        BY <2>2, <4>1, StepGoesOn DEF vars
      <4>. QED  BY <1>1, <4>2, PdelayAssumption
    <3>. QED  BY <2>1, <3>1, <3>2, PTL DEF Running, Falls, RunLeaves
  <2>3. CASE q \notin Ports
    <3>1. TypeOK /\ AllKept /\ Below("call", p, n + 1) => Below("call", p, n) \/ Reached("call", p)
      BY <2>1, <2>3 DEF AllKept, Reached
    <3>. QED  BY <3>1, PTL DEF Running, Falls
  <2>. QED  BY <2>2, <2>3
<1>2. ASSUME NEW n \in Nat  PROVE Running => Falls("call", p, n + 1, n)
  BY <1>1, PdelayAssumption
<1>. QED  BY <1>2 DEF FallsBy

LEMMA CallsEnd ==
  ASSUME NoNegativeInterval, NumPorts < WordLimit
  PROVE  Running => []<>(run = Idle)
<1>. DEFINE p == 0
<1>1. Running => Falls("call", p, WordLimit, 0)
  BY CallFalls, FallsAllTheWay
<1>2. TypeOK => Below("call", p, WordLimit) /\ ~Below("call", p, 0)
  BY PdelayAssumption DEF TypeOK, RunType, Below, WordLimit
<1>3. Reached("call", p) => run = Idle
  BY DEF Reached
<1>. HIDE DEF p
<1>. QED  BY <1>1, <1>2, <1>3, PTL DEF Running, Falls

(* So every call returns, on any number of ports, and frames and ticks go   *)
(* on being handled.                                                        *)
THEOREM EveryCallReturns ==
  ASSUME NoNegativeInterval, IntervalsFit, NumPorts < 4294967296
  PROVE  Spec /\ []CallsMove => []<>(run = Idle)
<1>. NumPorts < WordLimit
  BY PdelayAssumption DEF WordLimit
<1>1. Spec => []AllKept
  BY KeptInvariant
<1>2. Running => []<>(run = Idle)
  BY CallsEnd
<1>. QED  BY <1>1, <1>2, PdelayTypeCorrect, PTL DEF Spec, Running

(* Every port is visited by a tick again and again. *)
Visited(p) == run.at = p /\ run.tick

Ticking == Running /\ SF_vars(Tick)

LEMMA TickVisits ==
  ASSUME NoNegativeInterval, NumPorts < WordLimit, NEW p \in Ports
  PROVE  Ticking => []<>Visited(p)
<1>. DEFINE Coming == run.tick /\ run.at \in Ports /\ run.at <= p
<1>1. Running => []<>(run = Idle)
  BY CallsEnd
<1>2. CallsMove => TickMoves
  BY DEF CallsMove
<1>3. TypeOK /\ <<Tick>>_vars => Coming'
  <2>. SUFFICES ASSUME TypeOK, Tick  PROVE Coming'
    OBVIOUS
  <2>1. BeginTick(port, 0) /\ 0 \in Ports /\ 0 <= p
    BY PdelayAssumption DEF Tick, Ports
  <2>. QED  BY <2>1, BeginTickOn DEF TypeOK
<1>4. TypeOK /\ Coming /\ ~Visited(p) /\ [Next]_vars => Coming'
  <2>. SUFFICES ASSUME TypeOK, Coming, ~Visited(p), [Next]_vars  PROVE Coming'
    OBVIOUS
  <2>1. run.at \in Ports /\ run.at < p /\ run.tick
    BY PdelayAssumption DEF Visited, Ports
  <2>2. Step(run.at) \/ UNCHANGED vars
    BY <2>1, OnlySteps
  <2>3. CASE UNCHANGED vars
    BY <2>3 DEF vars
  <2>4. CASE Step(run.at)
    <3>1. run.at + 1 # NumPorts
      BY <2>1, PdelayAssumption DEF Ports
    <3>2. run'.tick /\ (run' = run \/ (run.at + 1 \in Ports /\ run'.at = run.at + 1))
      BY <2>1, <2>4, <3>1, StepGoesOn
    <3>. QED  BY <2>1, <3>2, PdelayAssumption DEF Ports
  <2>. QED  BY <2>2, <2>3, <2>4
<1>5. Coming => ~(run = Idle)
  BY IdleType
<1>. HIDE DEF Coming
<1>. QED  BY <1>1, <1>2, <1>3, <1>4, <1>5, PTL DEF Ticking, Running, TickMoves

(***************************************************************************)
(* The timer of a port that sends no request: no step sets it back, the    *)
(* tick that visits the port advances it, and only a restart, from which   *)
(* the machine starts with a request, stops it.                            *)
(***************************************************************************)
Advances(p) ==
  /\ port[p].state # "NOT_ENABLED"
  /\ port'[p].timer >= port[p].timer
  /\ ~Visited(p) /\ Visited(p)' => port'[p].timer > port[p].timer

(* A step that is not the beginning of a visit. *)
LEMMA SameTimer ==
  ASSUME TypeOK, NEW p \in Ports,
         port'[p].timer = port[p].timer, port'[p].state = port[p].state,
         Visited(p)' => Visited(p)
  PROVE  port'[p].state = "NOT_ENABLED" \/ Advances(p)
  BY DEF Advances, TypeOK, PortType

LEMMA VisitAdvances ==
  ASSUME TypeOK, AllKept, NEW p \in Ports, NEW q \in Ports, run.at # q,
         NEW ports \in [Ports -> PortType], BeginTick(ports, q),
         ports[p].timer = port[p].timer, ports[p].state = port[p].state
  PROVE  port'[p].state = "NOT_ENABLED" \/ Advances(p)
<1>1. CASE p = q
  <2>1. port'[p] = Ticked(ports[p]) /\ ports[p] \in PortType /\ port[p] \in PortType
    BY <1>1, BeginTickOn DEF TypeOK
  <2>2. port'[p].state = port[p].state /\ port'[p].timer = AtMost(MaxTimer, port[p].timer + 1)
    BY <2>1, TickedEffect, TickedTimer
  <2>3. port[p].state # "NOT_ENABLED" => port[p].timer < MaxTimer
    BY <1>1 DEF AllKept, Kept, Waits
  <2>4. port[p].timer \in Nat /\ MaxTimer \in Nat
    BY <2>1, PdelayAssumption DEF PortType
  <2>. QED  BY <2>2, <2>3, <2>4 DEF AtMost, Advances
<1>2. CASE p # q
  <2>1. run'.at = q /\ \A n \in Ports \ {q} : port'[n] = ports[n]
    BY BeginTickOn
  <2>2. port'[p] = ports[p]
    BY <1>2, <2>1
  <2>. QED  BY <1>2, <2>1, <2>2, SameTimer DEF Visited
<1>. QED  BY <1>1, <1>2

LEMMA EndAdvances ==
  ASSUME TypeOK, AllKept, NEW p \in Ports, run.at \in Ports,
         NEW ports \in [Ports -> PortType], End(ports),
         ports[p].timer = port[p].timer, ports[p].state = port[p].state
  PROVE  port'[p].state = "NOT_ENABLED" \/ Advances(p)
<1>1. CASE port' = ports /\ run' = Idle
  BY <1>1, IdleType, SameTimer DEF Visited
<1>2. CASE run.at + 1 \in Ports /\ BeginTick(ports, run.at + 1)
  <2>1. run.at # run.at + 1
    BY PdelayAssumption DEF Ports
  <2>. QED  BY <1>2, <2>1, VisitAdvances
<1>. QED  BY <1>1, <1>2, EndGoesOn

(* The machine of the port itself. *)
LEMMA OwnStepAdvances ==
  ASSUME TypeOK, AllKept, NEW p \in Ports, ~Requested(p), Step(p)
  PROVE  Requested(p)' \/ port'[p].state = "NOT_ENABLED" \/ Advances(p)
<1>. DEFINE r == port[p]
<1>t. port \in [Ports -> PortType] /\ r \in PortType /\ sent \in 0..2
  BY DEF TypeOK
<1>e. ASSUME NEW q \in PortType, Enter(p, q), q.timer = r.timer, r.state # "NOT_ENABLED"
      PROVE  Advances(p)
  BY <1>e, <1>t DEF Enter, Advances, Visited, PortType
<1>x. ASSUME run' = run, run.at = p, sent' = AtMost(2, sent + 1)  PROVE Requested(p)'
  BY <1>x, <1>t DEF AtMost, Requested
<1>1. ~StayDisabled(p)
  BY <1>t DEF StayDisabled, Requested, AllKept, Kept
<1>2. CASE StartMeasuring(p) \/ SendNext(p)
  BY <1>2, <1>x DEF StartMeasuring, SendNext, In
<1>4. CASE TakeTimestamp(p)
  <2>. DEFINE q == [r EXCEPT !.state = "WAIT_RESP", !.stamped = FALSE]
  <2>1. Enter(p, q) /\ r.state \in {"INITIAL_SEND", "SEND"}
    BY <1>4 DEF TakeTimestamp, In
  <2>2. q \in PortType /\ q.timer = r.timer
    BY <1>t DEF PortType, States
  <2>. HIDE DEF q
  <2>. QED  BY <1>e, <2>1, <2>2
<1>5. CASE AcceptResponse(p)
  <2>. DEFINE q == [r EXCEPT !.state = "WAIT_FOLLOW_UP", !.rcvdResp = FALSE]
  <2>1. Enter(p, q) /\ r.state = "WAIT_RESP"
    BY <1>5 DEF AcceptResponse, In
  <2>2. q \in PortType /\ q.timer = r.timer
    BY <1>t DEF PortType, States
  <2>. HIDE DEF q
  <2>. QED  BY <1>e, <2>1, <2>2
<1>6. CASE MissTimestamp(p) \/ GiveUpResponse(p) \/ GiveUpFollowUp(p)
  <2>1. Enter(p, EnterReset(r)) /\ r.state # "NOT_ENABLED"
    BY <1>6 DEF MissTimestamp, GiveUpResponse, GiveUpFollowUp, In
  <2>2. EnterReset(r) \in PortType /\ EnterReset(r).timer = r.timer
    BY <1>t, EnterResetType, ResetTimer
  <2>. QED  BY <1>e, <2>1, <2>2
<1>7. CASE AcceptFollowUp(p)
  <2>1. PICK m \in Measured(r) : Enter(p, m)
    BY <1>7 DEF AcceptFollowUp
  <2>2. r.state # "NOT_ENABLED"
    BY <1>7 DEF AcceptFollowUp, In
  <2>. QED  BY <1>e, <1>t, <2>1, <2>2, MeasuredType, MeasuredTimer
<1>8. CASE Return(p)
  <2>1. run.at = p /\ End(port)
    BY <1>8 DEF Return, Settled, In
  <2>. QED  BY <1>t, <2>1, EndAdvances
<1>. QED  BY <1>1, <1>2, <1>4, <1>5, <1>6, <1>7, <1>8 DEF Step

(* The machine of another port, which may only take this one's timestamp.   *)
LEMMA OtherStepAdvances ==
  ASSUME TypeOK, AllKept, NEW p \in Ports, NEW q \in Ports, q # p, Step(q)
  PROVE  port'[p].state = "NOT_ENABLED" \/ Advances(p)
<1>t. port \in [Ports -> PortType] /\ port[q] \in PortType
  BY DEF TypeOK
<1>s. ASSUME run' = run, port'[p].timer = port[p].timer, port'[p].state = port[p].state
      PROVE  port'[p].state = "NOT_ENABLED" \/ Advances(p)
  BY <1>s, SameTimer DEF Visited
<1>x. ASSUME NEW r \in PortType, run' = run, port' = Transmit([port EXCEPT ![q] = r])
      PROVE  port'[p].state = "NOT_ENABLED" \/ Advances(p)
  <2>. DEFINE ports == [port EXCEPT ![q] = r]
  <2>1. ports \in [Ports -> PortType] /\ ports[p] = port[p] /\ port' = Transmit(ports)
    BY <1>t, <1>x
  <2>. HIDE DEF ports
  <2>. QED  BY <1>s, <1>x, <2>1, TransmitKeeps
<1>1. CASE StayDisabled(q)
  <2>. DEFINE r == IF port[q].state = "NOT_ENABLED" THEN port[q] ELSE EnterNotEnabled(port[q])
              ports == [port EXCEPT ![q] = r]
  <2>1. run.at = q /\ End(ports)
    BY <1>1 DEF StayDisabled
  <2>2. r \in PortType
    BY <1>t, EnterNotEnabledType
  <2>. HIDE DEF r
  <2>3. ports \in [Ports -> PortType] /\ ports[p] = port[p]
    BY <1>t, <2>2
  <2>. HIDE DEF ports
  <2>. QED  BY <2>1, <2>3, EndAdvances
<1>2. CASE StartMeasuring(q)
  <2>1. run' = run /\ port' = Transmit([port EXCEPT ![q] = EnterInitialSend(port[q])])
    BY <1>2 DEF StartMeasuring
  <2>. QED  BY <1>t, <1>x, <2>1, EnterInitialSendType
<1>3. CASE SendNext(q)
  <2>1. run' = run /\ port' = Transmit([port EXCEPT ![q] = EnterSend(port[q])])
    BY <1>3 DEF SendNext
  <2>. QED  BY <1>t, <1>x, <2>1, EnterSendType
<1>4. ASSUME NEW r, Enter(q, r)  PROVE port'[p].state = "NOT_ENABLED" \/ Advances(p)
  BY <1>4, <1>s, <1>t DEF Enter
<1>5. CASE Return(q)
  <2>1. run.at = q /\ End(port)
    BY <1>5 DEF Return, Settled, In
  <2>. QED  BY <1>t, <2>1, EndAdvances
<1>. QED  BY <1>1, <1>2, <1>3, <1>4, <1>5, Zenon DEF Step, TakeTimestamp, MissTimestamp,
            GiveUpResponse, AcceptResponse, GiveUpFollowUp, AcceptFollowUp

(* The link delay machine touches neither the timer nor the state.          *)
LEMMA IntervalsKeepTimer ==
  ASSUME NEW r \in PortType, NEW s \in Signals
  PROVE  /\ SetIntervals(r, s).timer = r.timer /\ SetIntervals(r, s).state = r.state
         /\ LinkDelay(r).timer = r.timer /\ LinkDelay(r).state = r.state
<1>1. SetIntervals(r, s).timer = r.timer /\ SetIntervals(r, s).state = r.state
  BY DEF SetIntervals, PortType
<1>2. LinkDelay(r).timer = r.timer /\ LinkDelay(r).state = r.state
  BY DEF LinkDelay, PortType
<1>. QED  BY <1>1, <1>2

LEMMA TimerAdvances ==
  ASSUME TypeOK, AllKept, NEW p \in Ports, ~Requested(p), [Next]_vars
  PROVE  Requested(p)' \/ port'[p].state = "NOT_ENABLED" \/ Advances(p)
<1>t. /\ port \in [Ports -> PortType] /\ \A q \in Ports : port[q] \in PortType
      /\ Idle.at \notin Ports
  BY IdleType DEF TypeOK
<1>s. ASSUME port'[p].timer = port[p].timer, port'[p].state = port[p].state,
             Visited(p)' => Visited(p)
      PROVE  port'[p].state = "NOT_ENABLED" \/ Advances(p)
  BY <1>s, SameTimer
<1>1. CASE Tick
  <2>1. run.at # 0 /\ 0 \in Ports /\ BeginTick(port, 0)
    BY <1>1, <1>t, PdelayAssumption DEF Tick, Ports
  <2>. QED  BY <1>t, <2>1, VisitAdvances
<1>2. ASSUME NEW q \in Ports, Step(q)
      PROVE  Requested(p)' \/ port'[p].state = "NOT_ENABLED" \/ Advances(p)
  BY <1>2, OwnStepAdvances, OtherStepAdvances
<1>3. ASSUME NEW q \in Ports, NEW m \in Responses, ReceiveResponse(q, m)
      PROVE  port'[p].state = "NOT_ENABLED" \/ Advances(p)
  <2>1. /\ port' = [port EXCEPT ![q].rcvdResp = TRUE, ![q].resp = m,
                                ![q].responses = AtMost(2, @ + 1)]
        /\ ~run'.tick
    BY <1>3 DEF ReceiveResponse, Begin, RunAt
  <2>2. port'[p].timer = port[p].timer /\ port'[p].state = port[p].state
    BY <1>t, <2>1 DEF PortType
  <2>. QED  BY <1>s, <2>1, <2>2 DEF Visited
<1>4. ASSUME NEW q \in Ports, NEW m \in FollowUps, ReceiveFollowUp(q, m)
      PROVE  port'[p].state = "NOT_ENABLED" \/ Advances(p)
  <2>1. port' = [port EXCEPT ![q].fup = m] /\ ~run'.tick
    BY <1>4 DEF ReceiveFollowUp, Begin, RunAt
  <2>2. port'[p].timer = port[p].timer /\ port'[p].state = port[p].state
    BY <1>t, <2>1 DEF PortType
  <2>. QED  BY <1>s, <2>1, <2>2 DEF Visited
<1>5. ASSUME NEW q \in Ports, NEW s \in Signals, ReceiveSignal(q, s)
      PROVE  port'[p].state = "NOT_ENABLED" \/ Advances(p)
  <2>1. run' = run /\ port'[p] \in {port[p], SetIntervals(port[p], s), LinkDelay(port[p])}
    BY <1>5, <1>t DEF ReceiveSignal
  <2>2. port'[p].timer = port[p].timer /\ port'[p].state = port[p].state
    BY <1>t, <2>1, IntervalsKeepTimer
  <2>. QED  BY <1>s, <2>1, <2>2 DEF Visited
<1>6. ASSUME NEW q1 \in Ports, NEW q2 \in Ports, ReceiveOwnRequest(q1, q2)
      PROVE  port'[p].state = "NOT_ENABLED" \/ Advances(p)
  <2>1. run' = run /\ port'[p] \in {port[p], [port[p] EXCEPT !.enabled = FALSE]}
    BY <1>6 DEF ReceiveOwnRequest
  <2>2. port'[p].timer = port[p].timer /\ port'[p].state = port[p].state
    BY <1>t, <2>1 DEF PortType
  <2>. QED  BY <1>s, <2>1, <2>2 DEF Visited
<1>7. CASE Deinit
  BY <1>7, <1>t, ZenonT(60) DEF Deinit, Restarted, PortType
<1>8. CASE UNCHANGED vars
  BY <1>8, <1>s DEF vars, Visited
<1>9. ASSUME NEW q \in Ports, Refills(q)
      PROVE  port'[p].state = "NOT_ENABLED" \/ Advances(p)
  BY <1>9, <1>s, <1>t, RefillKeeps DEF Visited
<1>. QED  BY <1>1, <1>2, <1>3, <1>4, <1>5, <1>6, <1>7, <1>8, <1>9 DEF Next, Refills

LEMMA TimerFalls ==
  ASSUME NoNegativeInterval, NumPorts < WordLimit, NEW p \in Ports
  PROVE  Ticking => FallsBy("timer", p, 1)
<1>1. Ticking => []<>Visited(p)
  BY TickVisits
<1>2. Running => RunLeaves(p)
  BY RunEnds
<1>3. Visited(p) => run.at = p
  BY DEF Visited
<1>4. ASSUME NEW n \in Nat
      PROVE  Ticking => Falls("timer", p, n + 1, n)
  <2>1. /\ TypeOK /\ TypeOK' /\ AllKept /\ [Next]_vars
        /\ Below("timer", p, n + 1) /\ ~Reached("timer", p)
        => Below("timer", p, n + 1)' \/ Reached("timer", p)'
    <3>. SUFFICES ASSUME TypeOK, TypeOK', AllKept, [Next]_vars,
                         Below("timer", p, n + 1), ~Reached("timer", p)
                  PROVE  Below("timer", p, n + 1)' \/ Reached("timer", p)'
      OBVIOUS
    <3>1. ~Requested(p) /\ (port[p].state = "NOT_ENABLED" \/ MaxTimer - port[p].timer < n + 1)
      BY DEF Below, Reached
    <3>2. Requested(p)' \/ port'[p].state = "NOT_ENABLED" \/ Advances(p)
      BY <3>1, TimerAdvances
    <3>3. /\ MaxTimer \in Int /\ port[p].timer \in Int /\ port'[p].timer \in Int
      BY PdelayAssumption DEF TypeOK, PortType
    <3>. QED  BY <3>1, <3>2, <3>3 DEF Advances, Below, Reached
  <2>2. /\ TypeOK /\ TypeOK' /\ AllKept /\ [Next]_vars
        /\ Below("timer", p, n + 1) /\ ~Reached("timer", p) /\ ~Visited(p) /\ Visited(p)'
        => Below("timer", p, n)' \/ Reached("timer", p)'
    <3>. SUFFICES ASSUME TypeOK, TypeOK', AllKept, [Next]_vars, ~Visited(p), Visited(p)',
                         Below("timer", p, n + 1), ~Reached("timer", p)
                  PROVE  Below("timer", p, n)' \/ Reached("timer", p)'
      OBVIOUS
    <3>1. ~Requested(p) /\ (port[p].state = "NOT_ENABLED" \/ MaxTimer - port[p].timer < n + 1)
      BY DEF Below, Reached
    <3>2. Requested(p)' \/ port'[p].state = "NOT_ENABLED" \/ Advances(p)
      BY <3>1, TimerAdvances
    <3>3. /\ MaxTimer \in Int /\ port[p].timer \in Int /\ port'[p].timer \in Int
      BY PdelayAssumption DEF TypeOK, PortType
    <3>. QED  BY <3>1, <3>2, <3>3 DEF Advances, Below, Reached
  <2>. QED  BY <1>1, <1>2, <1>3, <2>1, <2>2, PTL DEF Ticking, Running, Falls, RunLeaves
<1>. HIDE DEF Ticking
<1>. QED  BY <1>4 DEF FallsBy

(* A machine that is not enabled, on a port that is, sends in its next run.  *)
LEMMA StartSends ==
  ASSUME TypeOK, AllKept, NEW p \in Ports, ~Requested(p), [Next]_vars,
         port[p].state = "NOT_ENABLED", run.at = p
  PROVE  Requested(p)' \/ UNCHANGED vars
<1>1. Step(p) \/ UNCHANGED vars
  BY OnlySteps
<1>2. run.looping
  BY DEF AllKept, Kept, Requested
<1>3. Step(p) => StartMeasuring(p)
  BY <1>2, Zenon DEF Step, StayDisabled, SendNext, TakeTimestamp, MissTimestamp,
            GiveUpResponse, AcceptResponse, GiveUpFollowUp, AcceptFollowUp, Return, Settled, In
<1>4. StartMeasuring(p) => Requested(p)'
  BY DEF StartMeasuring, AtMost, Requested, TypeOK
<1>. QED  BY <1>1, <1>3, <1>4

(* An enabled port keeps sending requests, for every number of ports and    *)
(* whatever is lost, received late, or meant for others: provided intervals *)
(* are not negative, so that calls end, and the timer counts up to them.    *)
THEOREM KeepsRequestingInTime ==
  ASSUME NoNegativeInterval, IntervalsFit,
         NumPorts < 4294967296, MaxTimer < 4294967296 - 1
  PROVE  Spec /\ []CallsMove => KeepsRequesting
<1>. NumPorts < WordLimit /\ MaxTimer + 1 <= WordLimit
  BY PdelayAssumption DEF WordLimit
<1>1. Spec => []AllKept
  BY KeptInvariant
<1>2. ASSUME NEW p \in Ports
      PROVE  Spec /\ []CallsMove => []<>Requested(p)
  <2>1. Ticking => Falls("timer", p, WordLimit, 0)
    BY TimerFalls, FallsAllTheWay
  <2>2. TypeOK => Below("timer", p, WordLimit)
    BY PdelayAssumption DEF TypeOK, PortType, Below, WordLimit
  <2>3. TypeOK /\ Below("timer", p, 0) => port[p].state = "NOT_ENABLED"
    BY PdelayAssumption DEF TypeOK, PortType, Below
  <2>4. Reached("timer", p) => Requested(p)
    BY DEF Reached
  <2>5. /\ TypeOK /\ AllKept /\ [Next]_vars /\ ~Requested(p) /\ port[p].state = "NOT_ENABLED"
        => Requested(p)' \/ (port[p].state = "NOT_ENABLED")'
    BY TimerAdvances DEF Advances
  <2>6. /\ TypeOK /\ AllKept /\ [Next]_vars /\ ~Requested(p)
        /\ port[p].state = "NOT_ENABLED" /\ run.at = p
        => Requested(p)' \/ (run.at = p)'
    BY StartSends DEF vars
  <2>7. Ticking => []<>Visited(p)
    BY TickVisits
  <2>8. Running => RunLeaves(p)
    BY RunEnds
  <2>9. Visited(p) => run.at = p
    BY DEF Visited
  <2>. QED  BY <1>1, <2>1, <2>2, <2>3, <2>4, <2>5, <2>6, <2>7, <2>8, <2>9, PdelayTypeCorrect, PTL
            DEF Spec, Ticking, Running, Falls, RunLeaves
<1>3. ASSUME NEW p \in Ports
      PROVE  Spec /\ []CallsMove =>
               (port[p].enabled ~> (~port[p].enabled \/ (run.at = p /\ sent > 0)))
  BY <1>2, PTL DEF Requested
<1>. QED  BY <1>3 DEF KeepsRequesting

=============================================================================
