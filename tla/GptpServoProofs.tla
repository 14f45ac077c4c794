--------------------------- MODULE GptpServoProofs ---------------------------
(***************************************************************************)
(* Proofs about GptpServo, for every width of a word and all thresholds:    *)
(* type correctness, the lock and the accumulators of the loop, and that   *)
(* the clock has the rate plain arithmetic asks for.                       *)
(***************************************************************************)
EXTENDS GptpServo, GptpArithmeticProofs

----------------------------------------------------------------------------
(* The parts of a measurement and of an update of the servo.               *)

LEMMA ExactType ==
  ASSUME NEW i \in Exchange, NEW e \in Exchange, NEW ratio \in Word
  PROVE  /\ ExactRatio(i, e) \in Word \cup {NoGoal}
         /\ ExactDelay(e, ratio) \in Word \cup {NoGoal}
<1>1. /\ Elapsed(i.respTx, e.respTx) \in Int /\ Elapsed(i.respRx, e.respRx) \in Int
      /\ Elapsed(e.reqRx, e.respTx) \in Int /\ Elapsed(e.reqTx, e.respRx) \in Int
  BY ElapsedType DEF Exchange
<1>2. ExactRatio(i, e) \in Word \cup {NoGoal}
  <2> SUFFICES ASSUME Elapsed(i.respRx, e.respRx) > 0
               PROVE  ((Elapsed(i.respTx, e.respTx) * (M \div 2)) \div Elapsed(i.respRx, e.respRx)) % M \in Word
    BY DEF ExactRatio
  <2> DEFINE here == Elapsed(i.respRx, e.respRx)
             there == Elapsed(i.respTx, e.respTx)
  <2>1. here \in Int /\ here > 0 /\ there \in Int
    BY <1>1
  <2> HIDE DEF here, there
  <2>2. there * (M \div 2) \in Int
    BY <2>1, WidthFacts
  <2>3. (there * (M \div 2)) \div here \in Int
    BY <2>1, <2>2
  <2>4. ((there * (M \div 2)) \div here) % M \in Word
    BY <2>3, WidthFacts DEF Word
  <2> QED
    BY <2>4 DEF here, there
<1>3. ExactDelay(e, ratio) \in Word \cup {NoGoal}
  <2> DEFINE here == (Elapsed(e.reqTx, e.respRx) * ratio) \div (M \div 2)
  <2>1. Elapsed(e.reqTx, e.respRx) * ratio \in Int
    BY <1>1 DEF Word
  <2>2. M \div 2 \in Int /\ M \div 2 > 0
    BY WidthFacts
  <2>3. here \in Int
    BY <2>1, <2>2
  <2> HIDE DEF here
  <2>4. ((here - Elapsed(e.reqRx, e.respTx)) \div 2) % M \in Word
    BY <1>1, <2>3, WidthFacts DEF Word
  <2> QED
    BY <2>4 DEF ExactDelay, here
<1> QED
  BY <1>2, <1>3

LEMMA MeasurementType ==
  ASSUME NEW r \in PeerType, NEW e \in Exchange
  PROVE  WithDelay(WithRatio(r, e), e) \in PeerType
<1>1. WithRatio(r, e) \in PeerType
  <2> DEFINE responder == TimestampDifference(e.respTx, r.initial.respTx)
             requester == TimestampDifference(e.respRx, r.initial.respRx)
  <2>1. CASE r.initial = NoExchange
    <3>1. WithRatio(r, e) = [r EXCEPT !.initial = e]
      BY <2>1 DEF WithRatio
    <3> QED
      BY <3>1 DEF PeerType
  <2>2. CASE r.initial # NoExchange /\ (responder.upper < 0 \/ requester.upper < 0)
    <3>1. WithRatio(r, e) = [r EXCEPT !.initial = NoExchange, !.valid = FALSE]
      BY <2>2 DEF WithRatio
    <3> QED
      BY <3>1 DEF PeerType
  <2>3. CASE r.initial # NoExchange /\ ~(responder.upper < 0 \/ requester.upper < 0)
    <3>1. r.initial \in Exchange
      BY <2>3 DEF PeerType
    <3>2. Interval(responder) \in Wide /\ Interval(requester) \in Wide
      BY <3>1, IntervalType DEF Exchange
    <3>3. RateRatio(Interval(responder), Interval(requester)) \in Word
      BY <3>2, RateRatioType
    <3>4. ExactRatio(r.initial, e) \in Word \cup {NoGoal}
      <4>1. 0 \in Word
        BY WidthFacts DEF Word
      <4> QED
        BY <3>1, <4>1, ExactType
    <3>5. \/ WithRatio(r, e) = [r EXCEPT !.initial = e]
          \/ WithRatio(r, e) = [r EXCEPT !.initial = e, !.valid = TRUE,
                                 !.ratio = RateRatio(Interval(responder), Interval(requester)),
                                 !.exactRatio = ExactRatio(r.initial, e)]
      BY <2>3 DEF WithRatio
    <3> HIDE DEF responder, requester
    <3> QED
      BY <3>3, <3>4, <3>5 DEF PeerType
  <2> QED
    BY <2>1, <2>2, <2>3
<1> DEFINE q == WithRatio(r, e)
<1> HIDE DEF q
<1>2. WithDelay(q, e) \in PeerType
  <2> DEFINE there == Interval(TimestampDifference(e.respTx, e.reqRx))
             here == Interval(TimestampDifference(e.respRx, e.reqTx))
  <2>1. q \in PeerType
    BY <1>1 DEF q
  <2>2. q.ratio \in Word
    BY <2>1 DEF PeerType
  <2>3. there \in Wide /\ here \in Wide
    BY IntervalType DEF Exchange
  <2>4. PropDelay(there, here, q.ratio) \in Word
    BY <2>2, <2>3, PropDelayType
  <2>5. ExactDelay(e, q.ratio) \in Word \cup {NoGoal}
    BY <2>2, ExactType
  <2>6. \/ WithDelay(q, e) = q
        \/ WithDelay(q, e) = [q EXCEPT !.delay = PropDelay(there, here, q.ratio),
                                       !.exactDelay = ExactDelay(e, q.ratio)]
    BY DEF WithDelay
  <2> HIDE DEF there, here
  <2> QED
    BY <2>1, <2>4, <2>5, <2>6 DEF PeerType
<1> QED
  BY <1>2 DEF q

LEMMA RateType ==
  ASSUME NEW increment \in Int, NEW nom \in Int
  PROVE  RateOf(increment, nom) \in Wide
<1>1. 2 ^ Bits \in Nat \ {0} /\ 2 ^ 1 = 2
  BY BitsFacts
<1>2. Uint64LShift(increment, Bits) \in Int
  BY <1>1, WidthFacts DEF Uint64LShift
<1> DEFINE q == Uint64DividedByUint64(Uint64LShift(increment, Bits), nom)
<1>3. q \in Wide
  BY <1>2, QuotientType
<1> HIDE DEF q
<1>4. q \div 2 \in Wide
  BY <1>3, WidthFacts DEF Wide
<1> QED
  BY <1>1, <1>4 DEF RateOf, Uint64RShift, q

(* A sum cut to its bounds is at one of them. *)
LEMMA BoundedIsBound ==
  ASSUME NEW sum \in Int
  PROVE  Bounded(sum) \in {IntegralMax, (-IntegralMax) % D}
BY WidthFacts, ServoAssumption DEF Bounded

LEMMA OffsetType ==
  ASSUME NEW rx \in Timestamp, NEW tx \in Timestamp, NEW correction \in SignedWord, NEW delay \in Word
  PROVE  Offset(CorrectedDifference(rx, tx, correction), delay) \in SignedWord
<1> DEFINE c == [upper |-> 0, lower |-> 0, ns |-> correction]
           d == TimestampDifference(rx, TimestampSum(tx, c))
<1>1. c \in Timestamp
  BY WidthFacts DEF Timestamp, SignedWord, Word
<1>2. d \in Timestamp
  <2> HIDE DEF c
  <2> QED
    BY <1>1, SumAndDifferenceType
<1> HIDE DEF d
<1>3. d.ns - delay \in Int
  BY <1>2, WidthFacts DEF Timestamp, SignedWord, Word
<1> QED
  BY <1>3, SignedType DEF Offset, CorrectedDifference, d

LEMMA BaseType ==
  ASSUME NEW ratio \in Word \cup {NoRatio}, nominal \in Wide
  PROVE  Base(ratio) \in Int
BY WidthFacts DEF Base, Word, Wide

----------------------------------------------------------------------------
(* The parts of an update, exactly.                                        *)

(* The rate, of an increment and a nominal increment that a word holds. *)
LEMMA RateIsExact ==
  ASSUME NEW increment \in Word, NEW nom \in Word \ {0}
  PROVE  RateOf(increment, nom) = ((increment * M) \div nom) \div 2
<1>1. M \in Nat /\ M >= 4 /\ D = M * M /\ D \in Nat \ {0} /\ increment \in Nat /\ increment <= M - 1
  BY WidthFacts DEF D, Word
<1>2. 2 ^ Bits = M /\ 2 ^ 1 = 2
  <2>1. 0 \in 0..(2 * Bits) /\ 0 + 1 = 1
    BY PowerFacts
  <2>2. 2 ^ (0 + 1) = 2 * 2 ^ 0 /\ 2 ^ 0 = 1
    BY <2>1, WidthAssumption
  <2> QED
    BY <2>1, <2>2, WidthAssumption
<1> HIDE DEF M, D
<1> DEFINE x == increment * M
<1>3. x \in 0..(D - 1)
  <2>1. increment * M <= (M - 1) * M /\ increment * M \in Nat
    BY <1>1
  <2>2. (M - 1) * M = M * M - M /\ M * M \in Nat
    BY <1>1
  <2> QED
    BY <1>1, <2>1, <2>2
<1> HIDE DEF x
<1>4. x % D = x /\ x \in Wide
  BY <1>1, <1>3 DEF Wide
<1>5. Uint64LShift(increment, Bits) = x
  BY <1>2, <1>4 DEF Uint64LShift, x
<1>6. nom \in Wide \ {0}
  <2>1. M <= D
    BY WidthFacts
  <2> QED
    BY <1>1, <2>1 DEF Word, Wide
<1>7. Uint64DividedByUint64(x, nom) = x \div nom
  BY <1>4, <1>6, DivisionIsExact
<1> QED
  BY <1>2, <1>5, <1>7 DEF RateOf, Uint64RShift, x

(* The adjustment: less twice the offset while acquiring, nothing else. *)
LEMMA AdjustmentIsExact ==
  ASSUME NEW offset \in SignedWord
  PROVE  /\ Adjustment(Accumulated(AcquireCoefficient, offset))
              = Clamp(-IncrementDelta, IncrementDelta, -2 * offset)
         /\ Adjustment(Accumulated(0, offset)) = 0
<1> DEFINE m == M \div 2
           e == M \div 8
           f == Half \div 8
           q == 2 ^ (Bits - 4)
<1>1. M \in Nat \ {0} /\ m \in Nat \ {0} /\ M = 2 * m /\ m >= 2 /\ e \in Nat /\ M = 8 * e /\ e = f * Half
      /\ f \in Nat /\ Half \in Nat
  BY WidthFacts, EighthFacts
<1>2. offset \in Int /\ offset >= -m /\ offset < m
  BY <1>1 DEF SignedWord
<1>3. q \in Nat \ {0} /\ e = 2 * q
  <2>1. Bits \in Nat /\ Bits >= 4 /\ Bits - 4 \in 0..(2 * Bits + 1)
    BY PowerFacts
  <2> HIDE DEF Bits
  <2>2. q \in Nat \ {0}
    BY <2>1, PowerFacts
  <2>3. \A n \in 0..(2 * Bits) : 2 ^ (n + 1) = 2 * 2 ^ n
    BY WidthAssumption
  <2> DEFINE n == Bits - 4
  <2>4. n \in 0..(2 * Bits) /\ n + 1 \in 0..(2 * Bits) /\ n + 2 \in 0..(2 * Bits) /\ n + 3 \in 0..(2 * Bits)
        /\ (n + 1) + 1 = n + 2 /\ (n + 2) + 1 = n + 3 /\ (n + 3) + 1 = Bits
    BY <2>1
  <2> HIDE DEF n
  <2>5. 2 ^ Bits = 2 * 2 ^ (n + 3) /\ 2 ^ (n + 3) = 2 * 2 ^ (n + 2) /\ 2 ^ (n + 2) = 2 * 2 ^ (n + 1)
        /\ 2 ^ (n + 1) = 2 * 2 ^ n
    BY <2>3, <2>4
  <2>6. 2 ^ n = q /\ M = 2 ^ Bits
    BY WidthAssumption DEF n
  <2>7. M = 2 * (2 * (2 * (2 * q)))
    BY <2>5, <2>6
  <2> HIDE DEF q, M
  <2> QED
    BY <1>1, <2>2, <2>7
<1> HIDE DEF m, e, f, q
<1>4. ASSUME NEW g \in 0..f, NEW v \in Int, -((g * Half) * offset) = v * q, v >= -(2 * m), v <= 2 * m
      PROVE  Adjustment(Accumulated(-(g * Half), offset)) = Clamp(-IncrementDelta, IncrementDelta, v)
  <2> DEFINE n == -((g * Half) * offset)
  <2>1. Fits(n) /\ Int64TimesInt64((-(g * Half)) % D, offset % D) = n % D
    BY SignedProductIsExact DEF f
  <2> HIDE DEF n
  <2>2. Int64(n % D) = n
    BY <2>1, SignedPairIsExact
  <2>3. n \div q = v
    <3>1. n = v * q
      BY <1>4 DEF n
    <3>2. n \in Int /\ n \div q \in Int /\ n % q \in 0..(q - 1) /\ n = (n \div q) * q + (n % q)
      <4>1. n \in Int
        BY <1>3, <3>1
      <4> QED
        BY <1>3, <4>1, DivMod
    <3> DEFINE c == n \div q
               r == n % q
    <3>3. c \in Int /\ r \in 0..(q - 1) /\ v * q = c * q + r
      BY <3>1, <3>2
    <3> HIDE DEF c, r
    <3>4. (v - c) * q = r
      <4>1. (v - c) * q = v * q - c * q /\ v * q \in Int /\ c * q \in Int
        BY <1>3, <3>3
      <4> QED
        BY <1>3, <3>3, <4>1
    <3>5. v - c >= 1 => (v - c) * q >= q
      BY <1>3, <3>3
    <3>6. v - c <= -1 => (v - c) * q <= -q
      <4> SUFFICES ASSUME v - c <= -1 PROVE (v - c) * q <= -q
        OBVIOUS
      <4>1. (v - c) * q <= (-1) * q
        BY <1>3, <3>3
      <4> QED
        BY <1>3, <4>1
    <3>7. v = c
      BY <1>3, <3>3, <3>4, <3>5, <3>6
    <3> QED
      BY <3>7 DEF c
  <2>4. Fits(v)
    <3>1. m * M >= 2 * M /\ m * M \in Nat
      BY <1>1
    <3> QED
      BY <1>1, <1>4, <3>1 DEF Fits, m
  <2>5. Int64(v % D) = v
    BY <2>4, SignedPairIsExact
  <2>6. Accumulated(-(g * Half), offset) = v % D
    BY <2>1, <2>2, <2>3 DEF Accumulated, Int64RShift, CoeffProductShift, q
  <2> QED
    BY <2>5, <2>6 DEF Adjustment
<1>5. Adjustment(Accumulated(AcquireCoefficient, offset)) = Clamp(-IncrementDelta, IncrementDelta, -2 * offset)
  <2>1. f \in 0..f /\ -2 * offset \in Int /\ -2 * offset >= -(2 * m) /\ -2 * offset <= 2 * m
    BY <1>1, <1>2
  <2>2. -((f * Half) * offset) = (-2 * offset) * q
    <3>1. (2 * q) * offset = (2 * offset) * q /\ (2 * offset) * q \in Int
      BY <1>2, <1>3
    <3>2. (-2 * offset) * q = -((2 * offset) * q)
      BY <1>2, <1>3
    <3> QED
      BY <1>1, <1>3, <3>1, <3>2
  <2>3. -(f * Half) = AcquireCoefficient
    BY <1>1 DEF AcquireCoefficient, e
  <2> DEFINE v == -2 * offset
  <2>4. v \in Int /\ -((f * Half) * offset) = v * q /\ v >= -(2 * m) /\ v <= 2 * m
    BY <2>1, <2>2
  <2> HIDE DEF v
  <2>5. Adjustment(Accumulated(-(f * Half), offset)) = Clamp(-IncrementDelta, IncrementDelta, v)
    BY <1>4, <2>1, <2>4
  <2> QED
    BY <2>3, <2>5 DEF v
<1>6. Adjustment(Accumulated(0, offset)) = 0
  <2>1. 0 \in 0..f /\ 0 \in Int /\ -((0 * Half) * offset) = 0 * q /\ 0 >= -(2 * m) /\ 0 <= 2 * m
        /\ -(0 * Half) = 0
    BY <1>1, <1>2, <1>3
  <2>2. Adjustment(Accumulated(0, offset)) = Clamp(-IncrementDelta, IncrementDelta, 0)
    BY <1>4, <2>1
  <2>3. Clamp(-IncrementDelta, IncrementDelta, 0) = 0
    BY ServoAssumption DEF Clamp
  <2> QED
    BY <2>2, <2>3
<1> QED
  BY <1>5, <1>6

(* The difference resets the clock just if the times lie apart by more than *)
(* the threshold; if not, its nanoseconds are what they lie apart.         *)
LEMMA ResetIsExact ==
  ASSUME NEW d, Normal(d), d.upper \in (5 - M \div 2)..(M \div 2 - 6)
  PROVE  /\ NeedsReset(d) <=> Far(ResetThreshold, Nanoseconds(d))
         /\ ~NeedsReset(d) => d.ns = Nanoseconds(d)
<1> DEFINE s == Seconds(d)
           distance == TimestampAbs(d)
           m == M \div 2
           size == Distance(s)
<1>1. M \in Nat /\ M >= 4 /\ m \in Nat /\ M = 2 * m /\ Second \in Nat \ {0} /\ 2 * Second <= m
      /\ ResetThreshold \in Nat /\ ResetThreshold < Second /\ D = M * M
  BY WidthFacts, ServoAssumption DEF D
<1>2. d \in Timestamp /\ d.ns < Second /\ d.ns > -Second /\ (s > 0 => d.ns >= 0) /\ (s < 0 => d.ns <= 0)
      /\ d.ns \in Int /\ d.lower \in 0..(M - 1) /\ d.upper \in Int /\ d.upper > 3 - m /\ d.upper < m - 4
  BY <1>1 DEF Normal, Timestamp, SignedWord, Word
<1>3. s \in Int /\ (s < 0 <=> d.upper < 0) /\ s = d.upper * M + d.lower
  BY <1>2, SecondsSign DEF Seconds
<1> HIDE DEF s, M, m
<1>4. size \in Nat /\ size < m * M - M
  <2>1. d.upper * M <= (m - 5) * M /\ d.upper * M >= (4 - m) * M
    <3>1. d.upper <= m - 5 /\ d.upper >= 4 - m /\ m - 5 \in Int /\ 4 - m \in Int
      BY <1>1, <1>2
    <3> QED
      BY <1>1, <1>2, <3>1
  <2>2. (m - 5) * M = m * M - 5 * M /\ (4 - m) * M = 4 * M - m * M /\ m * M \in Nat /\ d.upper * M \in Int
    BY <1>1, <1>2
  <2>3. s < m * M - M /\ -s < m * M - M
    BY <1>1, <1>2, <1>3, <2>1, <2>2
  <2> QED
    BY <1>3, <2>3 DEF Distance
<1> DEFINE seconds == IF d.upper < 0 THEN (D - ((d.upper % M) * M + d.lower)) % D
                      ELSE d.upper * M + d.lower
<1>5. seconds = size
  <2>1. CASE d.upper < 0
    <3>1. d.upper % M = d.upper + M
      <4>1. d.upper >= -M /\ d.upper < M /\ M \in Nat \ {0} /\ d.upper \in Int
        BY <1>1, <1>2
      <4> QED
        BY <2>1, <4>1, ModOfBorrow
    <3>2. (d.upper + M) * M = d.upper * M + M * M /\ d.upper * M \in Int /\ M * M \in Nat
      BY <1>1, <1>2
    <3>3. D - ((d.upper % M) * M + d.lower) = -s
      BY <1>1, <1>2, <1>3, <3>1, <3>2
    <3>4. -s = size /\ s \in Int
      BY <1>3, <2>1 DEF Distance
    <3> HIDE DEF size
    <3>5. size < D /\ D \in Nat
      <4>1. m * M <= M * M /\ m * M \in Nat
        BY <1>1
      <4> QED
        BY <1>1, <1>4, <4>1, WidthFacts
    <3>6. size % D = size
      BY <1>4, <3>5
    <3> QED
      BY <2>1, <3>3, <3>4, <3>6
  <2>2. CASE ~(d.upper < 0)
    BY <1>3, <2>2 DEF Distance
  <2> QED
    BY <2>1, <2>2
<1> HIDE DEF seconds
<1>6. distance = [upper |-> Signed(High(size)), lower |-> Low(size), ns |-> Signed(Distance(d.ns))]
  BY <1>5 DEF TimestampAbs, seconds
<1> HIDE DEF size, distance
<1>7. High(size) \in Nat /\ Low(size) \in 0..(M - 1) /\ size = High(size) * M + Low(size)
  <2>1. M \in Nat \ {0} /\ size \in Int
    BY <1>1, <1>4
  <2>2. High(size) \in Int /\ Low(size) \in 0..(M - 1) /\ size = High(size) * M + Low(size)
    BY <2>1, DivMod DEF High, Low
  <2>3. High(size) >= 0
    <3> SUFFICES ASSUME High(size) <= -1 PROVE FALSE
      BY <2>2
    <3>1. High(size) * M <= (-1) * M
      BY <2>1, <2>2
    <3> QED
      BY <1>4, <2>1, <2>2, <3>1
  <2> QED
    BY <2>2, <2>3
<1>8. High(size) < m
  <2> SUFFICES ASSUME High(size) >= m PROVE FALSE
    BY <1>1, <1>7
  <2>1. High(size) * M >= m * M /\ m * M \in Nat
    BY <1>1, <1>7
  <2> QED
    BY <1>1, <1>4, <1>7, <2>1
<1>9. distance.upper = High(size) /\ distance.lower = Low(size) /\ distance.ns = Distance(d.ns)
  <2>1. High(size) \in SignedWord
    BY <1>1, <1>7, <1>8 DEF SignedWord, m
  <2>2. Distance(d.ns) \in SignedWord
    <3>1. Distance(d.ns) \in Int /\ Distance(d.ns) < m /\ Distance(d.ns) >= 0
      BY <1>1, <1>2 DEF Distance
    <3> QED
      BY <1>1, <3>1 DEF SignedWord, m
  <2> QED
    BY <1>6, <2>1, <2>2, SignedIsIdentity
<1>10. distance.upper > 0 \/ distance.lower > 0 <=> size > 0
  <2>1. High(size) > 0 => High(size) * M > 0
    BY <1>1, <1>7
  <2>2. High(size) = 0 => High(size) * M = 0
    BY <1>1
  <2>3. High(size) * M \in Nat
    BY <1>1, <1>7
  <2> QED
    BY <1>7, <1>9, <2>1, <2>2, <2>3
<1>11. NeedsReset(d) <=> size > 0 \/ Distance(d.ns) > ResetThreshold
  BY <1>9, <1>10 DEF NeedsReset, distance
<1>12. Nanoseconds(d) = s * Second + d.ns
  BY DEF Nanoseconds, s, Seconds
<1>13. CASE s = 0
  <2>1. size = 0 /\ s * Second = 0
    BY <1>1, <1>13 DEF size, Distance
  <2>2. Nanoseconds(d) = d.ns
    BY <1>2, <1>12, <2>1
  <2>3. Distance(d.ns) > ResetThreshold <=> Far(ResetThreshold, d.ns)
    BY <1>1, <1>2 DEF Distance, Far
  <2> QED
    BY <1>11, <2>1, <2>2, <2>3
<1>14. CASE s > 0
  <2>1. size > 0
    BY <1>3, <1>14 DEF size, Distance
  <2>2. s * Second >= Second /\ s * Second \in Int
    BY <1>1, <1>3, <1>14
  <2>3. Nanoseconds(d) > ResetThreshold
    BY <1>1, <1>2, <1>12, <1>14, <2>2
  <2> QED
    BY <1>11, <2>1, <2>3 DEF Far
<1>15. CASE s < 0
  <2>1. size > 0
    BY <1>3, <1>15 DEF size, Distance
  <2>2. s * Second <= -Second /\ s * Second \in Int
    <3>1. s <= -1
      BY <1>3, <1>15
    <3>2. s * Second <= (-1) * Second
      BY <1>1, <1>3, <3>1
    <3> QED
      BY <1>1, <1>3, <3>2
  <2>3. Nanoseconds(d) < -ResetThreshold
    BY <1>1, <1>2, <1>12, <1>15, <2>2
  <2> QED
    BY <1>11, <2>1, <2>3 DEF Far
<1> QED
  BY <1>3, <1>13, <1>14, <1>15

(* The offset, from the timestamps. *)
LEMMA OffsetIsExact ==
  ASSUME NEW rx \in Timestamp, NEW tx \in Timestamp, NEW correction \in Int, WellFormed(rx), WellFormed(tx),
         correction < Second, correction > -Second
  PROVE  LET apart == Nanoseconds(rx) - (Nanoseconds(tx) + correction)
             d     == CorrectedDifference(rx, tx, correction)
         IN /\ NeedsReset(d) <=> Far(ResetThreshold, apart)
            /\ ~NeedsReset(d) => d.ns = apart
<1> DEFINE c == TimestampSum(tx, [upper |-> 0, lower |-> 0, ns |-> correction])
           d == TimestampDifference(rx, c)
<1>1. Normal(c) /\ Nanoseconds(c) = Nanoseconds(tx) + correction
      /\ c.upper \in (-(M \div 8) - 2)..(M \div 8 + 2)
  BY CorrectedIsExact
<1>2. d = CorrectedDifference(rx, tx, correction)
  BY DEF CorrectedDifference
<1> HIDE DEF c
<1>3. c \in Timestamp /\ c.ns < Second /\ c.ns > -Second /\ c.ns \in Int /\ Second \in Nat
  BY <1>1, WidthFacts DEF Normal, Timestamp, SignedWord
<1>4. rx.upper \in (-(M \div 8))..(M \div 8) /\ rx.ns \in 0..(Second - 1)
  BY DEF WellFormed
<1>5. rx.ns - c.ns < 2 * Second /\ rx.ns - c.ns > -(2 * Second)
  BY <1>3, <1>4
<1>6. Normal(d) /\ Nanoseconds(d) = Nanoseconds(rx) - Nanoseconds(c)
      /\ d.upper \in (5 - M \div 2)..(M \div 2 - 6)
  BY <1>1, <1>3, <1>4, <1>5, DifferenceIsExact
<1> HIDE DEF d
<1>7. /\ NeedsReset(d) <=> Far(ResetThreshold, Nanoseconds(d))
      /\ ~NeedsReset(d) => d.ns = Nanoseconds(d)
  BY <1>6, ResetIsExact
<1> QED
  BY <1>1, <1>2, <1>6, <1>7

----------------------------------------------------------------------------
(* The invariant: the types and the two invariants of the loop, which are   *)
(* inductive together.                                                     *)
ServoInv == TypeOK /\ LockTellsOffset /\ NothingAccumulates

LEMMA InitServo == Init => ServoInv
<1> SUFFICES ASSUME Init PROVE ServoInv
  OBVIOUS
<1>1. nominal \in Wide /\ rate \in Wide
  <2>1. nominal \in Wide
    BY ServoAssumption DEF Init
  <2> QED
    BY <2>1, RateType DEF Init, Wide
<1>2. peer \in PeerType
  BY WidthFacts DEF Init, BootPeer, PeerType, Word
<1>3. 0 \in Wide /\ 0 \in SignedWord
  BY WidthFacts DEF Wide, SignedWord
<1>4. TypeOK
  BY <1>1, <1>2, <1>3 DEF Init, TypeOK
<1>5. LockTellsOffset /\ NothingAccumulates
  BY DEF Init, LockTellsOffset, NothingAccumulates
<1> QED
  BY <1>4, <1>5 DEF ServoInv

(* What an update leaves in the loop, whatever the offset *)
LEMMA UpdateKeepsLoop ==
  ASSUME ServoInv, NEW offset \in SignedWord, NEW ratio \in Word \cup {NoRatio},
         UpdateServo(offset, ratio)
  PROVE  /\ rate' \in Wide /\ acquiring' \in BOOLEAN /\ integral' \in Wide
         /\ derivative' \in SignedWord /\ previousOffset' \in SignedWord
         /\ lastOffset' \in SignedWord
         /\ LockTellsOffset' /\ NothingAccumulates'
<1>1. offset \in Int /\ AcquireThreshold \in Nat /\ lastOffset' = offset
  BY ServoAssumption, WidthFacts DEF SignedWord, UpdateServo
<1>2. rate' \in Wide
  <2> DEFINE k == IF StillAcquiring(offset) THEN AcquireCoefficient ELSE 0
             adjustment == Adjustment(Accumulated(k, offset))
  <2>1. k \in {AcquireCoefficient, 0}
    OBVIOUS
  <2> HIDE DEF k
  <2>2. adjustment \in Int
    <3>1. adjustment \in {Clamp(-IncrementDelta, IncrementDelta, -2 * offset), 0}
      BY <2>1, AdjustmentIsExact
    <3> QED
      BY <1>1, <3>1, ServoAssumption DEF Clamp
  <2>3. Base(ratio) \in Int /\ nominal \in Int
    BY BaseType, WidthFacts DEF ServoInv, TypeOK, Wide
  <2> HIDE DEF adjustment
  <2>4. (Base(ratio) + adjustment) % (M \div 2) \in Int
    BY <2>2, <2>3, WidthFacts
  <2>5. rate' = RateOf((Base(ratio) + adjustment) % (M \div 2), nominal)
    BY DEF UpdateServo, adjustment, k
  <2> QED
    BY <2>3, <2>4, <2>5, RateType
<1>3. CASE StillAcquiring(offset)
  <2>1. /\ acquiring /\ Far(AcquireThreshold, offset) /\ integral' = 0
        /\ UNCHANGED <<acquiring, derivative, previousOffset>>
    BY <1>3 DEF StillAcquiring, UpdateServo
  <2>2. 0 \in Wide
    BY WidthFacts DEF Wide
  <2> QED
    BY <1>1, <1>2, <2>1, <2>2 DEF ServoInv, TypeOK, LockTellsOffset, NothingAccumulates
<1>4. CASE ~StillAcquiring(offset)
  <2> DEFINE kept == IF acquiring THEN 0 ELSE Damped(ratio, offset)
  <2>1. /\ acquiring' = LosesLock(offset)
        /\ integral' = Bounded((kept + (offset % D)) % D)
        /\ derivative' = Signed(derivative + offset - previousOffset)
        /\ previousOffset' = offset
    BY <1>4 DEF UpdateServo
  <2>2. kept \in Int
    <3>1. integral \in Int /\ 2 ^ 1 = 2
      BY DEF ServoInv, TypeOK, Wide
    <3>2. integral \div 2 ^ 1 \in Int
      BY <3>1
    <3> QED
      BY <3>1, <3>2 DEF Damped, Uint64RShift
  <2> HIDE DEF kept
  <2>3. integral' \in {IntegralMax, (-IntegralMax) % D}
    <3>1. (kept + (offset % D)) % D \in Int
      BY <1>1, <2>2, WidthFacts
    <3> QED
      BY <2>1, <3>1, BoundedIsBound
  <2>4. integral' \in Wide
    BY <2>3, WidthFacts, ServoAssumption DEF Wide
  <2>5. derivative' = offset
    <3>1. derivative + offset - previousOffset = offset
      BY WidthFacts DEF ServoInv, TypeOK, NothingAccumulates, SignedWord
    <3> QED
      BY <2>1, <3>1, SignedIsIdentity
  <2>6. LockTellsOffset'
    <3>1. IF acquiring' THEN Far(AcquireThreshold, offset) ELSE ~Far(8 * AcquireThreshold, offset)
      <4>1. Far(8 * AcquireThreshold, offset) => Far(AcquireThreshold, offset)
        BY <1>1 DEF Far
      <4>2. acquiring' <=> Far(8 * AcquireThreshold, offset)
        BY <2>1 DEF LosesLock, Far
      <4> QED
        BY <4>1, <4>2
    <3> QED
      BY <1>1, <3>1 DEF LockTellsOffset
  <2>7. acquiring' \in BOOLEAN
    BY <2>1 DEF LosesLock, Far
  <2> QED
    BY <1>1, <1>2, <2>1, <2>3, <2>4, <2>5, <2>6, <2>7 DEF NothingAccumulates
<1> QED
  BY <1>3, <1>4

LEMMA NextServo == ServoInv /\ [Next]_vars => ServoInv'
<1> SUFFICES ASSUME ServoInv, [Next]_vars PROVE ServoInv'
  OBVIOUS
<1> USE DEF ServoInv
<1>0. nominal \in Wide /\ nominal \in Int
  BY DEF TypeOK, Wide
<1>1. ASSUME NEW rx \in RxTimestamps, NEW tx \in TxTimestamps, NEW correction \in Corrections,
             NEW ratio \in MasterRatios \cup {NoRatio}, FollowUp(rx, tx, correction, ratio)
      PROVE  ServoInv'
  <2> DEFINE difference == CorrectedDifference(rx, tx, correction)
  <2>1. /\ rx \in Timestamp /\ tx \in Timestamp /\ correction \in SignedWord
        /\ ratio \in Word \cup {NoRatio} /\ peer.delay \in Word
    BY ServoAssumption DEF TypeOK, PeerType
  <2>2. UNCHANGED <<peer, nominal>> /\ goal' = Goal(rx, tx, correction, peer.delay, ratio)
    BY <1>1 DEF FollowUp
  <2>3. goal' \in Wide \cup {NoGoal}
    <3> DEFINE apart == Nanoseconds(rx) - (Nanoseconds(tx) + correction)
               offset == Signed(apart - peer.delay)
               change == IF acquiring /\ Far(AcquireThreshold, offset)
                         THEN Clamp(-IncrementDelta, IncrementDelta, -2 * offset) ELSE 0
    <3>1. apart - peer.delay \in Int
      BY <2>1, ElapsedType, WidthFacts DEF SignedWord, Word
    <3>2. offset \in Int
      BY <3>1, SignedType, WidthFacts DEF SignedWord
    <3> HIDE DEF offset
    <3>3. change \in Int
      BY <3>2, ServoAssumption DEF Clamp
    <3>4. Base(ratio) \in Int
      BY <1>0, <2>1, BaseType
    <3> HIDE DEF change
    <3>5. (Base(ratio) + change) % (M \div 2) \in Wide
      BY <3>3, <3>4, WidthFacts DEF Wide
    <3>6. goal' \in {NoGoal, nominal, (Base(ratio) + change) % (M \div 2)}
      BY <2>2 DEF Goal, change, offset
    <3> QED
      BY <1>0, <3>5, <3>6
  <2>4. CASE NeedsReset(difference)
    <3>1. ResetClock
      BY <1>1, <2>4 DEF FollowUp
    <3>2. rate' \in Wide
      BY <1>0, <3>1, RateType DEF ResetClock
    <3>3. UNCHANGED <<acquiring, integral, derivative, previousOffset, lastOffset>>
      BY <3>1 DEF ResetClock
    <3> QED
      BY <2>2, <2>3, <3>2, <3>3 DEF TypeOK, LockTellsOffset, NothingAccumulates
  <2>5. CASE ~NeedsReset(difference)
    <3>1. UpdateServo(Offset(difference, peer.delay), ratio)
      BY <1>1, <2>5 DEF FollowUp
    <3>2. Offset(difference, peer.delay) \in SignedWord
      BY <2>1, OffsetType
    <3> HIDE DEF difference
    <3>3. /\ rate' \in Wide /\ acquiring' \in BOOLEAN /\ integral' \in Wide
          /\ derivative' \in SignedWord /\ previousOffset' \in SignedWord
          /\ lastOffset' \in SignedWord
          /\ LockTellsOffset' /\ NothingAccumulates'
      BY <2>1, <3>1, <3>2, UpdateKeepsLoop
    <3> QED
      BY <2>2, <2>3, <3>3 DEF TypeOK
  <2> QED
    BY <2>4, <2>5
<1>2. ASSUME NEW p \in PeerType, peer' = p, UNCHANGED <<nominal, rate, loop, goal>>
      PROVE  ServoInv'
  BY <1>2 DEF TypeOK, LockTellsOffset, NothingAccumulates, loop
<1>3. ASSUME NEW e \in Exchanges, Measure(e)
      PROVE  ServoInv'
  <2>1. WithDelay(WithRatio(peer, e), e) \in PeerType
    BY MeasurementType, ServoAssumption DEF TypeOK
  <2> QED
    BY <1>2, <1>3, <2>1 DEF Measure
<1>4. CASE ForgetInitial
  <2>1. [peer EXCEPT !.initial = NoExchange] \in PeerType
    BY DEF TypeOK, PeerType
  <2> QED
    BY <1>2, <1>4, <2>1 DEF ForgetInitial
<1>5. CASE ForgetRatio
  <2>1. M \div 2 \in Word
    BY WidthFacts DEF Word
  <2>2. [peer EXCEPT !.initial = NoExchange, !.valid = FALSE,
                     !.ratio = M \div 2, !.exactRatio = M \div 2] \in PeerType
    BY <2>1 DEF TypeOK, PeerType
  <2> QED
    BY <1>2, <1>5, <2>2 DEF ForgetRatio
<1>6. CASE AckGrandmasterChange
  <2>1. ResetClock /\ goal' = nominal /\ UNCHANGED <<peer, nominal>>
    BY <1>6 DEF AckGrandmasterChange
  <2>2. rate' \in Wide
    BY <1>0, <2>1, RateType DEF ResetClock
  <2> QED
    BY <1>0, <2>1, <2>2 DEF ResetClock, TypeOK, LockTellsOffset, NothingAccumulates
<1>7. ASSUME NEW nom \in Nominals, Deinit(nom)
      PROVE  ServoInv'
  <2>1. nom \in Wide /\ nom \in Int
    BY ServoAssumption DEF Wide
  <2>2. rate' \in Wide
    BY <1>7, <2>1, RateType DEF Deinit
  <2>3. [peer EXCEPT !.delay = 0, !.exactDelay = NoGoal] \in PeerType
    <3>1. 0 \in Word
      BY WidthFacts DEF Word
    <3> QED
      BY <3>1 DEF TypeOK, PeerType
  <2> QED
    BY <1>7, <2>1, <2>2, <2>3 DEF Deinit, TypeOK, LockTellsOffset, NothingAccumulates, loop
<1>8. CASE UNCHANGED vars
  BY <1>8 DEF vars, TypeOK, LockTellsOffset, NothingAccumulates, loop
<1> QED
  BY <1>1, <1>3, <1>4, <1>5, <1>6, <1>7, <1>8 DEF Next

LEMMA ServoInvariant == Spec => []ServoInv
BY InitServo, NextServo, PTL DEF Spec

(* Type correctness: whatever width a word has and whatever is received, no *)
(* step of multiplication, division, shifting or clamping leaves the words  *)
(* the code keeps its results in, and every division has a result.         *)
THEOREM ServoTypeCorrect == Spec => []TypeOK
<1>1. ServoInv => TypeOK
  BY DEF ServoInv
<1> QED
  BY <1>1, ServoInvariant, PTL

(* While acquiring, the offset last used was beyond the threshold; while    *)
(* acquired, within eight times it (rtc_update_servo).                     *)
THEOREM LockTellsOffsetInvariant == Spec => []LockTellsOffset
<1>1. ServoInv => LockTellsOffset
  BY DEF ServoInv
<1> QED
  BY <1>1, ServoInvariant, PTL

(* The integral never is anything but zero or one of its bounds, and the    *)
(* derivative is the offset before (rtc_update_servo, in acquired mode).   *)
THEOREM NothingAccumulatesInvariant == Spec => []NothingAccumulates
<1>1. ServoInv => NothingAccumulates
  BY DEF ServoInv
<1> QED
  BY <1>1, ServoInvariant, PTL

----------------------------------------------------------------------------
(* From the timestamps to the rate.                                        *)

(* What an update makes of the rate, given the offset *)
LEMMA UpdateReachesGoal ==
  ASSUME TypeOK, NEW offset \in SignedWord, NEW ratio \in Word \cup {NoRatio},
         UpdateServo(offset, ratio), nominal \in Word \ {0}
  PROVE  LET increment == (Base(ratio) + (IF acquiring /\ Far(AcquireThreshold, offset)
                                          THEN Clamp(-IncrementDelta, IncrementDelta, -2 * offset)
                                          ELSE 0)) % (M \div 2)
         IN rate' = ((increment * M) \div nominal) \div 2
<1> DEFINE adjustment == Adjustment(Accumulated(IF StillAcquiring(offset) THEN AcquireCoefficient ELSE 0, offset))
           change == IF acquiring /\ Far(AcquireThreshold, offset)
                     THEN Clamp(-IncrementDelta, IncrementDelta, -2 * offset) ELSE 0
           increment == (Base(ratio) + change) % (M \div 2)
<1>1. rate' = RateOf((Base(ratio) + adjustment) % (M \div 2), nominal)
  BY DEF UpdateServo
<1>2. adjustment = change
  BY AdjustmentIsExact DEF StillAcquiring
<1>3. change \in Int
  BY WidthFacts, ServoAssumption DEF Clamp, SignedWord
<1>4. Base(ratio) \in Int
  BY BaseType DEF TypeOK
<1> HIDE DEF adjustment, change
<1>5. increment \in Word
  <2> DEFINE m == M \div 2
             n == Base(ratio) + change
  <2>1. m \in Nat \ {0} /\ M = 2 * m /\ n \in Int
    BY <1>3, <1>4, WidthFacts
  <2> HIDE DEF m, n, M
  <2>2. n % m \in 0..(m - 1)
    BY <2>1
  <2>3. n % m \in 0..(M - 1)
    BY <2>1, <2>2
  <2> QED
    BY <2>3 DEF m, n, Word
<1>6. rate' = RateOf(increment, nominal)
  BY <1>1, <1>2
<1> HIDE DEF increment
<1>7. rate' = ((increment * M) \div nominal) \div 2
  BY <1>5, <1>6, RateIsExact
<1> QED
  BY <1>7 DEF increment, change

LEMMA FollowUpReachesGoal ==
  ASSUME TypeOK, NEW rx \in Timestamp, NEW tx \in Timestamp, NEW correction \in SignedWord,
         NEW ratio \in Word \cup {NoRatio}, FollowUp(rx, tx, correction, ratio)
  PROVE  RateIsGoal'
<1> DEFINE difference == CorrectedDifference(rx, tx, correction)
           apart == Nanoseconds(rx) - (Nanoseconds(tx) + correction)
           offset == Signed(apart - peer.delay)
<1> SUFFICES ASSUME goal' # NoGoal, nominal \in Word \ {0}
             PROVE  rate' = ((goal' * M) \div nominal) \div 2
  BY DEF FollowUp, RateIsGoal
<1>1. goal' = Goal(rx, tx, correction, peer.delay, ratio) /\ nominal' = nominal /\ peer.delay \in Word
  BY DEF FollowUp, TypeOK, PeerType
<1>2. correction \in Int /\ Second \in Nat \ {0}
  BY WidthFacts DEF SignedWord
<1>3. WellFormed(rx) /\ WellFormed(tx) /\ ~Far(Second - 1, correction)
  BY <1>1 DEF Goal
<1>4. correction < Second /\ correction > -Second
  BY <1>2, <1>3 DEF Far
<1>5. /\ NeedsReset(difference) <=> Far(ResetThreshold, apart)
      /\ ~NeedsReset(difference) => difference.ns = apart
  BY <1>2, <1>3, <1>4, OffsetIsExact
<1>6. apart \in Int /\ apart - peer.delay \in Int
  BY <1>1, <1>2, ElapsedType DEF Word
<1>7. offset \in SignedWord
  BY <1>6, SignedType
<1>8. CASE NeedsReset(difference)
  <2>1. ResetClock
    BY <1>8 DEF FollowUp
  <2>2. rate' = RateOf(nominal, nominal)
    BY <2>1 DEF ResetClock
  <2>3. goal' = nominal
    BY <1>1, <1>3, <1>5, <1>8 DEF Goal
  <2> QED
    BY <2>2, <2>3, RateIsExact
<1>9. CASE ~NeedsReset(difference)
  <2>1. UpdateServo(Offset(difference, peer.delay), ratio)
    BY <1>9 DEF FollowUp
  <2>2. Offset(difference, peer.delay) = offset
    BY <1>5, <1>9 DEF Offset
  <2>3. goal' = (Base(ratio) + (IF acquiring /\ Far(AcquireThreshold, offset)
                                THEN Clamp(-IncrementDelta, IncrementDelta, -2 * offset)
                                ELSE 0)) % (M \div 2)
    BY <1>1, <1>3, <1>5, <1>9 DEF Goal
  <2>4. UpdateServo(offset, ratio)
    BY <2>1, <2>2
  <2> HIDE DEF offset
  <2> QED
    BY <1>7, <2>3, <2>4, UpdateReachesGoal
<1> QED
  BY <1>8, <1>9

(* RateIsGoal is inductive over the types. *)
LEMMA NextReachesGoal == TypeOK /\ RateIsGoal /\ [Next]_vars => RateIsGoal'
<1> SUFFICES ASSUME TypeOK, RateIsGoal, [Next]_vars PROVE RateIsGoal'
  OBVIOUS
<1>1. ASSUME NEW rx \in RxTimestamps, NEW tx \in TxTimestamps, NEW correction \in Corrections,
             NEW ratio \in MasterRatios \cup {NoRatio}, FollowUp(rx, tx, correction, ratio)
      PROVE  RateIsGoal'
  <2>1. rx \in Timestamp /\ tx \in Timestamp /\ correction \in SignedWord /\ ratio \in Word \cup {NoRatio}
    BY ServoAssumption
  <2> QED
    BY <1>1, <2>1, FollowUpReachesGoal
<1>2. ASSUME UNCHANGED <<nominal, rate, goal>> PROVE RateIsGoal'
  BY <1>2 DEF RateIsGoal
<1>3. ASSUME NEW e \in Exchanges, Measure(e) PROVE RateIsGoal'
  BY <1>2, <1>3 DEF Measure
<1>4. CASE ForgetInitial \/ ForgetRatio
  BY <1>2, <1>4 DEF ForgetInitial, ForgetRatio
<1>5. CASE AckGrandmasterChange
  <2>1. rate' = RateOf(nominal, nominal) /\ goal' = nominal /\ nominal' = nominal
    BY <1>5 DEF AckGrandmasterChange, ResetClock
  <2> QED
    BY <2>1, RateIsExact DEF RateIsGoal
<1>6. ASSUME NEW nom \in Nominals, Deinit(nom) PROVE RateIsGoal'
  <2>1. rate' = RateOf(nom, nom) /\ goal' = nom /\ nominal' = nom
    BY <1>6 DEF Deinit
  <2> QED
    BY <2>1, RateIsExact DEF RateIsGoal
<1>7. CASE UNCHANGED vars
  BY <1>2, <1>7 DEF vars
<1> QED
  BY <1>1, <1>3, <1>4, <1>5, <1>6, <1>7 DEF Next

(* From the timestamps of a follow-up to the rate of the clock no step in   *)
(* words loses anything (process_rx_fup, rtc_update_servo,                 *)
(* set_rtc_increment): differences, corrections, the reset, the signed      *)
(* product, its shift and the division give what plain arithmetic gives.   *)
THEOREM RateIsGoalInvariant == Spec => []RateIsGoal
<1>1. Init => RateIsGoal
  BY RateIsExact DEF Init, RateIsGoal
<1> QED
  BY <1>1, NextReachesGoal, ServoTypeCorrect, PTL DEF Spec

----------------------------------------------------------------------------
(* From the timestamps of an exchange to the ratio and the delay.          *)

LEMMA RatioIsExact ==
  ASSUME NEW i \in Exchange, NEW e \in Exchange, ExactRatio(i, e) # NoGoal
  PROVE  RateRatio( Interval(TimestampDifference(e.respTx, i.respTx)),
                    Interval(TimestampDifference(e.respRx, i.respRx)) ) = ExactRatio(i, e)
<1> DEFINE responder == Elapsed(i.respTx, e.respTx)
           requester == Elapsed(i.respRx, e.respRx)
<1>1. Forward(i.respTx, e.respTx) /\ Forward(i.respRx, e.respRx) /\ requester > 0
  BY DEF ExactRatio
<1>2. i.respTx \in Timestamp /\ e.respTx \in Timestamp /\ i.respRx \in Timestamp /\ e.respRx \in Timestamp
  BY DEF Exchange
<1>3. /\ Interval(TimestampDifference(e.respTx, i.respTx)) = responder
      /\ Interval(TimestampDifference(e.respRx, i.respRx)) = requester
      /\ responder \in Word /\ requester \in Word
  BY <1>1, <1>2, ElapsedIsExact
<1>4. ExactRatio(i, e) = ((responder * (M \div 2)) \div requester) % M
  BY <1>1 DEF ExactRatio
<1> HIDE DEF responder, requester
<1>5. requester \in Word \ {0}
  BY <1>1, <1>3
<1> QED
  BY <1>3, <1>4, <1>5, RateRatioIsExact

LEMMA DelayIsExact ==
  ASSUME NEW e \in Exchange, NEW ratio \in Word, ExactDelay(e, ratio) # NoGoal
  PROVE  PropDelay( Interval(TimestampDifference(e.respTx, e.reqRx)),
                    Interval(TimestampDifference(e.respRx, e.reqTx)), ratio ) = ExactDelay(e, ratio)
<1> DEFINE responder == Elapsed(e.reqRx, e.respTx)
           requester == Elapsed(e.reqTx, e.respRx)
           g == M \div 4
<1>1. Forward(e.reqRx, e.respTx) /\ Forward(e.reqTx, e.respRx) /\ requester < g /\ ratio < 3 * g
  BY DEF ExactDelay
<1>2. e.respTx \in Timestamp /\ e.reqRx \in Timestamp /\ e.respRx \in Timestamp /\ e.reqTx \in Timestamp
  BY DEF Exchange
<1>3. /\ Interval(TimestampDifference(e.respTx, e.reqRx)) = responder
      /\ Interval(TimestampDifference(e.respRx, e.reqTx)) = requester
      /\ responder \in Word /\ requester \in Word
  BY <1>1, <1>2, ElapsedIsExact
<1>4. ExactDelay(e, ratio) = (((requester * ratio) \div (M \div 2) - responder) \div 2) % M
  BY <1>1 DEF ExactDelay
<1> HIDE DEF responder, requester
<1>5. g \in Nat /\ requester \in Nat /\ ratio \in Nat
  BY <1>3, WidthFacts DEF Word
<1> HIDE DEF g
<1>6. requester \in 0..(g - 1) /\ ratio \in 0..(3 * g - 1)
  BY <1>1, <1>5
<1> QED
  BY <1>3, <1>4, <1>6, PropDelayIsExact DEF g

(* What is measured in plain numbers is what the code measures. *)
Exactly(r) ==
  /\ r.exactRatio \in {NoGoal, r.ratio}
  /\ r.exactDelay \in {NoGoal, r.delay}

LEMMA MeasureIsExact ==
  ASSUME NEW r \in PeerType, NEW e \in Exchange, r.valid => Exactly(r)
  PROVE  LET q == WithDelay(WithRatio(r, e), e) IN q.valid => Exactly(q)
<1> DEFINE responder == TimestampDifference(e.respTx, r.initial.respTx)
           requester == TimestampDifference(e.respRx, r.initial.respRx)
           q == WithRatio(r, e)
<1>1. q \in PeerType /\ (q.valid => q.exactRatio \in {NoGoal, q.ratio})
  <2>1. CASE r.initial = NoExchange
    <3>1. q = [r EXCEPT !.initial = e]
      BY <2>1 DEF WithRatio
    <3> HIDE DEF q
    <3> QED
      BY <3>1 DEF PeerType, Exactly
  <2>2. CASE r.initial # NoExchange /\ (responder.upper < 0 \/ requester.upper < 0)
    <3>1. q = [r EXCEPT !.initial = NoExchange, !.valid = FALSE]
      BY <2>2 DEF WithRatio
    <3> HIDE DEF q
    <3> QED
      BY <3>1 DEF PeerType
  <2>3. CASE r.initial # NoExchange /\ ~(responder.upper < 0 \/ requester.upper < 0)
    <3> DEFINE ratio == RateRatio(Interval(responder), Interval(requester))
               exact == ExactRatio(r.initial, e)
    <3>1. r.initial \in Exchange
      BY <2>3 DEF PeerType
    <3>2. Interval(responder) \in Wide /\ Interval(requester) \in Wide
      BY <3>1, IntervalType DEF Exchange
    <3>3. ratio \in Word
      BY <3>2, RateRatioType
    <3>4. exact \in Word \cup {NoGoal}
      <4>1. 0 \in Word
        BY WidthFacts DEF Word
      <4> QED
        BY <3>1, <4>1, ExactType
    <3>5. exact \in {NoGoal, ratio}
      BY <3>1, RatioIsExact
    <3>6. \/ q = [r EXCEPT !.initial = e]
          \/ q = [r EXCEPT !.initial = e, !.valid = TRUE, !.ratio = ratio, !.exactRatio = exact]
      BY <2>3 DEF WithRatio
    <3> HIDE DEF q, ratio, exact
    <3> QED
      BY <3>3, <3>4, <3>5, <3>6 DEF PeerType, Exactly
  <2> QED
    BY <2>1, <2>2, <2>3
<1> HIDE DEF q
<1> DEFINE delay == PropDelay( Interval(TimestampDifference(e.respTx, e.reqRx)),
                               Interval(TimestampDifference(e.respRx, e.reqTx)), q.ratio )
           exact == ExactDelay(e, q.ratio)
<1>2. q.ratio \in Word
  BY <1>1 DEF PeerType
<1>3. exact \in {NoGoal, delay}
  BY <1>2, DelayIsExact
<1>4. WithDelay(q, e) = IF ~q.valid THEN q ELSE [q EXCEPT !.delay = delay, !.exactDelay = exact]
  BY DEF WithDelay
<1> HIDE DEF delay, exact
<1>5. WithDelay(q, e).valid => Exactly(WithDelay(q, e))
  BY <1>1, <1>3, <1>4 DEF PeerType, Exactly
<1> QED
  BY <1>5 DEF q

LEMMA NextMeasuresExactly == TypeOK /\ MeasurementIsExact /\ [Next]_vars => MeasurementIsExact'
<1> SUFFICES ASSUME TypeOK, MeasurementIsExact, [Next]_vars PROVE MeasurementIsExact'
  OBVIOUS
<1>1. peer \in PeerType /\ (peer.valid => Exactly(peer))
  BY DEF TypeOK, MeasurementIsExact, Exactly
<1>2. SUFFICES peer'.valid => Exactly(peer')
  BY DEF MeasurementIsExact, Exactly
<1>3. ASSUME UNCHANGED peer PROVE peer'.valid => Exactly(peer')
  BY <1>1, <1>3
<1>4. ASSUME NEW e \in Exchanges, Measure(e) PROVE peer'.valid => Exactly(peer')
  <2>1. e \in Exchange /\ peer' = WithDelay(WithRatio(peer, e), e)
    BY <1>4, ServoAssumption DEF Measure
  <2> QED
    BY <1>1, <2>1, MeasureIsExact
<1>5. CASE ForgetInitial
  BY <1>1, <1>5 DEF ForgetInitial, PeerType, Exactly
<1>6. CASE ForgetRatio
  BY <1>1, <1>6 DEF ForgetRatio, PeerType, Exactly
<1>7. ASSUME NEW nom \in Nominals, Deinit(nom) PROVE peer'.valid => Exactly(peer')
  BY <1>1, <1>7 DEF Deinit, PeerType, Exactly
<1>8. CASE AckGrandmasterChange
  BY <1>3, <1>8 DEF AckGrandmasterChange
<1>9. CASE UNCHANGED vars
  BY <1>3, <1>9 DEF vars
<1>10. ASSUME NEW rx \in RxTimestamps, NEW tx \in TxTimestamps, NEW correction \in Corrections,
              NEW ratio \in MasterRatios \cup {NoRatio}, FollowUp(rx, tx, correction, ratio)
       PROVE  peer'.valid => Exactly(peer')
  BY <1>3, <1>10 DEF FollowUp
<1> QED
  BY <1>4, <1>5, <1>6, <1>7, <1>8, <1>9, <1>10 DEF Next

(* The rate ratio is that of the two intervals, and the delay half of what  *)
(* the exchange took longer here, in words as in plain numbers              *)
(* (computePdelayRateRatio, computePropTime).                              *)
THEOREM MeasurementIsExactInvariant == Spec => []MeasurementIsExact
<1>1. Init => MeasurementIsExact
  BY DEF Init, BootPeer, MeasurementIsExact
<1> QED
  BY <1>1, NextMeasuresExactly, ServoTypeCorrect, PTL DEF Spec

=============================================================================
