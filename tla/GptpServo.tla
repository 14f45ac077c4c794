------------------------------ MODULE GptpServo ------------------------------
(***************************************************************************)
(* The clock servo (src/ptp): what the slave port measures of its           *)
(* neighbour, and what an accepted follow-up does with the times of its     *)
(* sync, up to the rate the clock is given.  When a measurement is taken is *)
(* GptpPdelay and which follow-up is accepted GptpSync; here any may be,    *)
(* with any timestamps, computed with the arithmetic of GptpArithmetic.     *)
(*                                                                         *)
(* Changes of the clock are always allowed (rtcChangesAllowed is set at    *)
(* boot and never cleared) and delays are always those between peers       *)
(* (delayMechanism).  The clock itself, time_since_boot, is the operating  *)
(* system's: a reset writes it, the timestamps read from it may be any.    *)
(***************************************************************************)
EXTENDS GptpArithmetic

CONSTANTS
  AcquireThreshold,     \* ACQUIRE_THRESHOLD
  ResetThreshold,       \* RESET_THRESHOLD_NS
  IntegralMax,          \* INTEGRAL_MAX_ABS
  IncrementDelta,       \* INCREMENT_DELTA_MAX, and the negative of INCREMENT_DELTA_MIN
  Nominals,             \* what nominalIncrement may be: it is never initialised
  RxTimestamps,         \* syncRxTimestampTemp of the sync that is followed up
  TxTimestamps,         \* precise origin timestamps received
  Corrections,          \* nanoseconds of correction fields
  Exchanges,            \* timestamps of peer delay exchanges
  MasterRatios,         \* masterRateRatio, computed from an uninitialised variable
  NoExchange, NoRatio, NoOffset, NoGoal

VARIABLES
  peer,            \* the measurement of vtss_gptp_port_vars_t, on the slave port
  nominal,         \* nominalIncrement, mantissa and fraction in one
  rate,            \* rtc_clock_vars.rtc_fraction: the increment in force as a part of nominal
  acquiring,       \* TRUE: PTP_RTC_ACQUIRING, FALSE: PTP_RTC_ACQUIRED
  integral,        \* 64 bits
  derivative,
  previousOffset,
  lastOffset,      \* rtcLastOffset, NoOffset until rtcLastOffsetValid
  goal             \* auxiliary: the increment that should be in force, see Goal

loop == <<acquiring, integral, derivative, previousOffset, lastOffset>>
vars == <<peer, nominal, rate, loop, goal>>

(* ACQUIRE_COEFF_P is -2^29 and COEFF_PRODUCT_SHIFT 28 in words of 32 bits. *)
AcquireCoefficient == -(M \div 8)
CoeffProductShift  == Bits - 4

Exchange == [reqTx : Timestamp, reqRx : Timestamp, respTx : Timestamp, respRx : Timestamp]

PeerType ==
  [ initial : Exchange \cup {NoExchange},  \* pdelayRespTxTimestampI, pdelayRespRxTimestampI
    ratio   : Word,                        \* neighborRateRatio
    valid   : BOOLEAN,                     \* neighborRateRatioValid
    delay   : Word,                        \* neighborPropDelay
    exactRatio : Word \cup {NoGoal},       \* auxiliary: the ratio and the delay in plain
    exactDelay : Word \cup {NoGoal} ]      \* numbers, as far as Forward

ASSUME ServoAssumption ==
  /\ AcquireThreshold \in Nat /\ ResetThreshold \in 0..(Second - 1) /\ IncrementDelta \in Nat
  /\ IntegralMax \in Nat /\ 2 * IntegralMax < M
  /\ Nominals \subseteq Wide
  /\ RxTimestamps \subseteq Timestamp /\ TxTimestamps \subseteq Timestamp
  /\ Corrections \subseteq SignedWord /\ Exchanges \subseteq Exchange /\ NoExchange \notin Exchange
  /\ MasterRatios \subseteq Word /\ NoRatio \notin Word
  /\ NoOffset \notin SignedWord /\ NoGoal \notin Wide

(* The states and values each variable ranges over. *)
TypeOK ==
  /\ peer \in PeerType
  /\ nominal \in Wide /\ rate \in Wide
  /\ acquiring \in BOOLEAN
  /\ integral \in Wide
  /\ derivative \in SignedWord /\ previousOffset \in SignedWord
  /\ lastOffset \in SignedWord \cup {NoOffset}
  /\ goal \in Wide \cup {NoGoal}

----------------------------------------------------------------------------
(* The measurement, in plain numbers and as the code computes it.          *)
ExactRatio(i, e) ==
  IF /\ Forward(i.respTx, e.respTx)
     /\ Forward(i.respRx, e.respRx) /\ Elapsed(i.respRx, e.respRx) > 0
  THEN ((Elapsed(i.respTx, e.respTx) * (M \div 2)) \div Elapsed(i.respRx, e.respRx)) % M
  ELSE NoGoal

ExactDelay(e, ratio) ==
  IF /\ Forward(e.reqRx, e.respTx) /\ Forward(e.reqTx, e.respRx)
     /\ Elapsed(e.reqTx, e.respRx) < M \div 4 /\ ratio < 3 * (M \div 4)
  THEN LET here == (Elapsed(e.reqTx, e.respRx) * ratio) \div (M \div 2)
       IN ((here - Elapsed(e.reqRx, e.respTx)) \div 2) % M
  ELSE NoGoal

(* computePdelayRateRatio, from the responses of two exchanges *)
WithRatio(r, e) ==
  LET responder == TimestampDifference(e.respTx, r.initial.respTx)
      requester == TimestampDifference(e.respRx, r.initial.respRx)
      rolled    == [r EXCEPT !.initial = e]
  IN CASE r.initial = NoExchange -> rolled
       [] r.initial # NoExchange /\ (responder.upper < 0 \/ requester.upper < 0) ->
            [r EXCEPT !.initial = NoExchange, !.valid = FALSE]
       [] OTHER ->
            IF HasRatio(Interval(responder), Interval(requester))
            THEN [rolled EXCEPT !.valid = TRUE,
                    !.ratio = RateRatio(Interval(responder), Interval(requester)),
                    !.exactRatio = ExactRatio(r.initial, e)]
            ELSE rolled

(* computePropTime, from the four times of one *)
WithDelay(r, e) ==
  IF ~r.valid THEN r
  ELSE [r EXCEPT
          !.delay = PropDelay( Interval(TimestampDifference(e.respTx, e.reqRx)),
                               Interval(TimestampDifference(e.respRx, e.reqTx)), r.ratio ),
          !.exactDelay = ExactDelay(e, r.ratio)]

(* WAITING_FOR_PDELAY_INTERVAL_TIMER, both computations being enabled *)
Measure(e) ==
  /\ peer' = WithDelay(WithRatio(peer, e), e)
  /\ UNCHANGED <<nominal, rate, loop, goal>>

(* MDPdelayReq_RESET *)
ForgetInitial ==
  /\ peer' = [peer EXCEPT !.initial = NoExchange]
  /\ UNCHANGED <<nominal, rate, loop, goal>>

(* MDPdelayReq_INITIAL_SEND_PDELAY_REQ: a ratio of one *)
ForgetRatio ==
  /\ peer' = [peer EXCEPT !.initial = NoExchange, !.valid = FALSE,
                          !.ratio = M \div 2, !.exactRatio = M \div 2]
  /\ UNCHANGED <<nominal, rate, loop, goal>>

----------------------------------------------------------------------------
(* set_rtc_increment.  rtc_adj has its fraction a word below the nominal's. *)
RateOf(increment, nom) ==
  Uint64RShift(Uint64DividedByUint64(Uint64LShift(increment, Bits), nom), 1)

Far(threshold, offset) == offset > threshold \/ offset < -threshold

(* The increment before the servo adjusts it *)
Base(ratio) == IF ratio # NoRatio THEN ratio \div 2 ELSE nominal % (M \div 2)

Adjustment(accumulator) == Clamp(-IncrementDelta, IncrementDelta, Int64(accumulator))

(* The proportional part.  In acquired mode all coefficients are zero.     *)
Accumulated(coefficient, offset) ==
  Int64RShift(Int64TimesInt64(coefficient % D, offset % D), CoeffProductShift)

(* The integral crosses the midpoint damped, if there is a rate ratio. *)
Damped(ratio, offset) ==
  IF /\ ratio # NoRatio
     /\ \/ offset < 0 /\ previousOffset > 0
        \/ offset > 0 /\ previousOffset < 0
  THEN Uint64RShift(integral, 1) ELSE integral

(* Mutant: the bounds are compared as signed numbers. *)
BoundedSigned(sum) == Clamp(-IntegralMax, IntegralMax, Int64(sum)) % D

(* The bounds as compared: the lower one, stored without its sign, in the   *)
(* low word of an unsigned pair *)
Bounded(sum) ==
  IF sum > IntegralMax THEN IntegralMax
  ELSE IF sum < M - IntegralMax THEN (-IntegralMax) % D ELSE sum

(* Mutant: a lock that is regained waits for the next follow-up. *)
ReacquiredLater(offset) == acquiring

(* The band reached again, in this call *)
StillAcquiring(offset) == acquiring /\ Far(AcquireThreshold, offset)

LosesLock(offset) == Far(8 * AcquireThreshold, offset)

(* rtc_update_servo *)
UpdateServo(offset, ratio) ==
  LET adjustment == Adjustment(Accumulated(
        IF StillAcquiring(offset) THEN AcquireCoefficient ELSE 0, offset))
  IN /\ rate' = RateOf((Base(ratio) + adjustment) % (M \div 2), nominal)
     /\ lastOffset' = offset
     /\ IF StillAcquiring(offset)
        THEN /\ integral' = 0
             /\ UNCHANGED <<acquiring, derivative, previousOffset>>
        ELSE /\ acquiring' = LosesLock(offset)
             /\ integral' = Bounded(
                  ((IF acquiring THEN 0 ELSE Damped(ratio, offset)) + (offset % D)) % D)
             /\ derivative' = Signed(derivative + offset - previousOffset)
             /\ previousOffset' = offset

(* The end of process_rx_fup: timestamps a second or the threshold apart    *)
(* reset the clock, others go to the servo. *)
NeedsReset(difference) ==
  LET distance == TimestampAbs(difference)
  IN distance.upper > 0 \/ distance.lower > 0 \/ distance.ns > ResetThreshold

ResetClock ==
  /\ rate' = RateOf(nominal, nominal)
  /\ UNCHANGED <<acquiring, integral, derivative, previousOffset, lastOffset>>

CorrectedDifference(rx, tx, correction) ==
  TimestampDifference(rx, TimestampSum(tx, [upper |-> 0, lower |-> 0, ns |-> correction]))

(* Mutant: the delay, a word without sign, is taken out of a wider number. *)
OffsetUnwrapped(difference, delay) == difference.ns - delay

Offset(difference, delay) == Signed(difference.ns - delay)

----------------------------------------------------------------------------
(* The increment the servo is to reach, in plain nanoseconds: the nominal   *)
(* one after a reset; otherwise the rate of the master, or the nominal one, *)
(* less twice the offset while acquiring, by no more than the delta.       *)
Goal(rx, tx, correction, delay, ratio) ==
  LET apart  == Nanoseconds(rx) - (Nanoseconds(tx) + correction)
      offset == Signed(apart - delay)
  IN IF ~WellFormed(rx) \/ ~WellFormed(tx) \/ Far(Second - 1, correction) THEN NoGoal
     ELSE IF Far(ResetThreshold, apart) THEN nominal
     ELSE (Base(ratio) + (IF acquiring /\ Far(AcquireThreshold, offset)
                          THEN Clamp(-IncrementDelta, IncrementDelta, -2 * offset)
                          ELSE 0)) % (M \div 2)

(* In between the code computes upSTreamTxTime, which nothing here reads,   *)
(* with divisions by neighborRateRatio and rateRatio; where one is 0 and    *)
(* the processor traps there is no follow-up here (see GptpSync's alive).   *)
FollowUp(rx, tx, correction, ratio) ==
  LET difference == CorrectedDifference(rx, tx, correction)
  IN /\ peer.valid <=> ratio # NoRatio
     /\ IF NeedsReset(difference) THEN ResetClock
        ELSE UpdateServo(Offset(difference, peer.delay), ratio)
     /\ goal' = Goal(rx, tx, correction, peer.delay, ratio)
     /\ UNCHANGED <<peer, nominal>>

(* ptp_events_tx_gm_change *)
AckGrandmasterChange ==
  /\ ResetClock
  /\ goal' = nominal
  /\ UNCHANGED <<peer, nominal>>

(* gptp_sw_init at vtss_gptp_deinit: the state of the loop and all of the   *)
(* measurement but the delay survive, the nominal increment is read anew    *)
(* from an uninitialised structure.                                         *)
Deinit(nom) ==
  /\ nominal' = nom
  /\ rate' = RateOf(nom, nom)
  /\ goal' = nom
  /\ peer' = [peer EXCEPT !.delay = 0, !.exactDelay = NoGoal]
  /\ UNCHANGED loop

BootPeer ==
  [initial |-> NoExchange, ratio |-> 0, valid |-> FALSE, delay |-> 0,
   exactRatio |-> NoGoal, exactDelay |-> NoGoal]

Init ==
  /\ peer = BootPeer
  /\ nominal \in Nominals
  /\ rate = RateOf(nominal, nominal)
  /\ acquiring = FALSE
  /\ integral = 0 /\ derivative = 0 /\ previousOffset = 0
  /\ lastOffset = NoOffset
  /\ goal = nominal

Next ==
  \/ \E rx \in RxTimestamps, tx \in TxTimestamps, correction \in Corrections,
        ratio \in MasterRatios \cup {NoRatio} :
       FollowUp(rx, tx, correction, ratio)
  \/ \E e \in Exchanges : Measure(e)
  \/ ForgetInitial \/ ForgetRatio
  \/ AckGrandmasterChange
  \/ \E nom \in Nominals : Deinit(nom)

Spec == Init /\ [][Next]_vars

----------------------------------------------------------------------------
(***************************************************************************)
(* Properties.                                                             *)
(***************************************************************************)
(* As long as neither clock ran backwards, nor more nanoseconds ahead than  *)
(* a word holds (four seconds), whatever seconds the timestamps lie in, the *)
(* rate ratio is that of the two intervals.  The delay is half of what the  *)
(* exchange took longer here, if it took less than a quarter of a word and  *)
(* the neighbour is not half as fast again: beyond, the multiplication      *)
(* loses a carry.                                                          *)
MeasurementIsExact ==
  peer.valid =>
    /\ peer.exactRatio \in {NoGoal, peer.ratio}
    /\ peer.exactDelay \in {NoGoal, peer.delay}

(* From the timestamps to the rate of the clock nothing is lost in words:   *)
(* whatever the clock showed, seconds that wrap, corrections, delays and    *)
(* signs included, the fraction in force is that of the increment plain     *)
(* arithmetic asks for, if the nominal increment, never initialised, is one *)
(* that a word holds.                                                      *)
RateIsGoal ==
  goal # NoGoal /\ nominal \in Word \ {0} =>
    rate = ((goal * M) \div nominal) \div 2

(* The lock tells the offset, through resets, restarts and changes of       *)
(* grandmaster: while acquiring the offset last used is beyond the          *)
(* threshold; while acquired it is within eight times the threshold.        *)
LockTellsOffset ==
  lastOffset # NoOffset =>
    IF acquiring THEN Far(AcquireThreshold, lastOffset)
    ELSE ~Far(8 * AcquireThreshold, lastOffset)

(* Neither the integral nor the derivative accumulates anything: the bounds *)
(* are compared such that the integral is always at one of them, or zero,   *)
(* and the differences the derivative sums up cancel out.                   *)
NothingAccumulates ==
  /\ integral \in {0, IntegralMax, (-IntegralMax) % D}
  /\ derivative = previousOffset

=============================================================================
