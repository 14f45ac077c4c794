---------------------------- MODULE GptpArithmetic ----------------------------
(***************************************************************************)
(* The arithmetic of gPTP (src/ptp): 64-bit numbers made of two words,     *)
(* timestamps, and what the peer delay measurement computes with them.     *)
(*                                                                         *)
(* The compiler has no 64-bit type; a word is 32 bits there and Bits bits   *)
(* here.  A pair of words is the number 0..(D - 1) it stands for; a signed  *)
(* word is an integer, a signed pair the number modulo D.  Shifts and the   *)
(* carry and borrow between the words of a pair are what they do to that    *)
(* number; multiplication and division, which work on parts of it, are step *)
(* by step what the code does.                                              *)
(***************************************************************************)
EXTENDS Integers, Sequences

CONSTANTS
  LogBits,      \* 5: a word has 2^5 bits
  Half,         \* 2^16: half a word
  Second        \* ONE_BILLION

M    == Half * Half
D    == M * M
Bits == 2 ^ LogBits

Word       == 0..(M - 1)
SignedWord == (-(M \div 2))..(M \div 2 - 1)
Wide       == 0..(D - 1)

(* A second is at most a quarter of a word of nanoseconds: two of them add  *)
(* up in a signed word.  The seconds in a word of them fit in half a word.  *)
ASSUME ArithmeticAssumption ==
  /\ LogBits \in Nat \ {0} /\ Half \in Nat \ {0, 1}
  /\ Half % 8 = 0
  /\ Second \in Nat \ {0} /\ 4 * Second <= M /\ M <= Half * Second

(* The provers know nothing of powers of two: what one is to the next is    *)
(* said here.                                                              *)
ASSUME WidthAssumption ==
  /\ M = 2 ^ Bits /\ Bits >= 4 /\ LogBits <= Bits
  /\ 2 ^ 0 = 1 /\ \A n \in 0..(2 * Bits) : 2 ^ (n + 1) = 2 * 2 ^ n

High(x)    == x \div M
Low(x)     == x % M
Pair(h, l) == (h % M) * M + (l % M)

(* A number cut to a signed word, and a pair read as a signed number *)
Signed(n)   == ((n + M \div 2) % M) - M \div 2
Negative(x) == High(x) >= M \div 2
Int64(x)    == IF Negative(x) THEN x - D ELSE x

Clamp(low, high, n) == IF n > high THEN high ELSE IF n < low THEN low ELSE n
Distance(n) == IF n < 0 THEN -n ELSE n

----------------------------------------------------------------------------
(* Multiplication.  The cross products are added in a word.                *)

(* long_multiply, and the high word of it *)
Multiply(v, w) ==
  LET a == v \div Half  b == v % Half  c == w \div Half  d == w % Half
      y == ((b * d) \div Half + ((a * d + c * b) % M)) % M
  IN Pair(y \div Half + a * c, ((b * d) % Half) + (y % Half) * Half)

MultiplyHigh(v, w) == High(Multiply(v, w))

(* Mutant: the negation does not carry into the high word. *)
NegatedWithoutCarry(x) == Pair(M - 1 - High(x), M - Low(x))

Negated(x) == Pair((M - 1 - High(x)) + (IF Low(x) = 0 THEN 1 ELSE 0), M - Low(x))

Magnitude(x) == IF Negative(x) THEN Negated(x) ELSE x

Int64TimesInt64(x, y) ==
  LET a == Magnitude(x)
      b == Magnitude(y)
      z == Pair( Low(a) * High(b) + High(a) * Low(b) + MultiplyHigh(Low(a), Low(b)),
                 Low(a) * Low(b) )
  IN IF Negative(x) # Negative(y) THEN Negated(z) ELSE z

Uint64TimesUint32(x, y) == Pair(High(x) * y + MultiplyHigh(Low(x), y), Low(x) * y)

Int64RShift(x, n)  == (Int64(x) \div 2 ^ n) % D
Uint64RShift(x, n) == x \div 2 ^ n
Uint64LShift(x, n) == (x * 2 ^ n) % D

----------------------------------------------------------------------------
(* Division, one bit of the quotient after the other.                      *)
Top(x) == IF High(x) # 0 THEN High(x) ELSE Low(x)

(* The index of the leftmost bit of a word, by halving: from the middle up  *)
(* or down by half of what is left, finally down by one if still too high.  *)
LeftmostBit(v) ==
  LET index[k \in 0..(LogBits - 1)] ==
        IF k = 0 THEN Bits \div 2
        ELSE LET i == index[k - 1]
                 step == 2 ^ (LogBits - 1 - k)
             IN IF v \div 2 ^ i # 0 THEN i + step ELSE i - step
      last == index[LogBits - 1]
  IN IF v \div 2 ^ last = 0 THEN last - 1 ELSE last

One(b) == IF b THEN 1 ELSE 0

BitsOfQuotient(n) == IF n < 0 THEN 0 ELSE n + 1

(* By how many bits the divisor is shifted left, to align the leftmost bits *)
Skew(x, y)   == LeftmostBit(Top(x)) - LeftmostBit(Top(y))
Places(x, y) == Skew(x, y) + (One(High(x) # 0) - One(High(y) # 0)) * Bits

Aligned(x, y) ==
  LET skew    == Skew(x, y)
      by      == skew % Bits
      shifted == Pair( High(y) * 2 ^ by + (IF skew = 0 THEN 0 ELSE Low(y) \div 2 ^ (Bits - by)),
                       Low(y) * 2 ^ by )
  IN IF Places(x, y) < Bits THEN shifted ELSE Pair(Low(shifted), 0)

(* One bit of the quotient z: what is left of the dividend, and the divisor *)
(* shifted back                                                            *)
Subtracted(s) ==
  [ x |-> IF s.x >= s.y THEN s.x - s.y ELSE s.x,
    y |-> s.y \div 2,
    z |-> (2 * s.z + One(s.x >= s.y)) % D ]

(* Uint64DivMod: the quotient *)
Uint64DividedByUint64(x, y) ==
  LET run[k \in 0..BitsOfQuotient(Places(x, y))] ==
        IF k = 0 THEN [x |-> x, y |-> Aligned(x, y), z |-> 0] ELSE Subtracted(run[k - 1])
  IN IF y = 0 THEN (IF x = 0 THEN 0 ELSE D \div 2)
     ELSE run[BitsOfQuotient(Places(x, y))].z

----------------------------------------------------------------------------
(* Timestamps: seconds in a signed and an unsigned word, signed nanoseconds.*)
Timestamp == [upper : SignedWord, lower : Word, ns : SignedWord]

(* s seconds, one or minus one, from the nanoseconds to the seconds *)
Carry(t, s) ==
  [ upper |-> Signed(t.upper + (t.lower + s) \div M),
    lower |-> (t.lower + s) % M,
    ns    |-> Signed(t.ns - s * Second) ]

(* normalize_timestamp *)
NormalizedTimestamp(t) ==
  CASE t.upper < 0 /\ t.ns > 0                           -> Carry(t, 1)
    [] t.upper >= 0 /\ t.upper + t.lower > 0 /\ t.ns < 0  -> Carry(t, -1)
    [] OTHER                                              -> t

WithinASecond(t) ==
  CASE t.ns >= Second  -> Carry(t, 1)
    [] t.ns <= -Second -> Carry(t, -1)
    [] OTHER           -> t

TimestampSum(a, b) ==
  NormalizedTimestamp(WithinASecond(
    [ upper |-> Signed(a.upper + b.upper + (a.lower + b.lower) \div M),
      lower |-> (a.lower + b.lower) % M,
      ns    |-> Signed(a.ns + b.ns) ]))

TimestampDifference(a, b) ==
  NormalizedTimestamp(WithinASecond(
    [ upper |-> Signed(a.upper - b.upper - One(b.lower > a.lower)),
      lower |-> (a.lower - b.lower) % M,
      ns    |-> Signed(a.ns - b.ns) ]))

TimestampAbs(t) ==
  LET seconds == IF t.upper < 0 THEN (D - ((t.upper % M) * M + t.lower)) % D
                 ELSE t.upper * M + t.lower
  IN [ upper |-> Signed(High(seconds)), lower |-> Low(seconds), ns |-> Signed(Distance(t.ns)) ]

(* Timestamps in plain numbers. *)
Nanoseconds(t) == (t.upper * M + t.lower) * Second + t.ns
WellFormed(t)  == t.ns \in 0..(Second - 1) /\ t.upper \in (-(M \div 8))..(M \div 8)
Elapsed(a, b)  == Nanoseconds(b) - Nanoseconds(a)
Forward(a, b)  == WellFormed(a) /\ WellFormed(b) /\ Elapsed(a, b) \in Word

----------------------------------------------------------------------------
(* Rate and delay of a neighbour.                                          *)

(* A difference of timestamps in nanoseconds, of the lower seconds only *)
Interval(d) == (Uint64TimesUint32(d.lower, Second) + (d.ns % M)) % D

(* The leading zeroes of the high word, one less if there are only zeroes *)
Headroom(x) ==
  CHOOSE s \in 0..(Bits - 1) :
    /\ s = Bits - 1 \/ High(x) \div 2 ^ (Bits - 1 - s) # 0
    /\ s > 0 => High(x) \div 2 ^ (Bits - s) = 0

(* Mutant: the requester's interval is not scaled with the responder's. *)
ScaledByAll(requester, shift) == requester \div 2 ^ (Bits - shift)

Scaled(requester, shift) == requester \div 2 ^ (Bits - 1 - shift)

(* Whether there is a ratio of two intervals, and the ratio, with Bits - 1   *)
(* bits after the point                                                     *)
HasRatio(responder, requester) == Scaled(requester, Headroom(responder)) # 0

RateRatio(responder, requester) ==
  LET shift == Headroom(responder)
  IN Low(Uint64DividedByUint64(Uint64LShift(responder, shift), Scaled(requester, shift)))

(* computePropTime: half of what the exchange took longer here than there *)
PropDelay(responder, requester, ratio) ==
  LET elapsed == Uint64RShift(Uint64TimesUint32(requester, ratio), Bits - 1)
  IN Low(Uint64RShift((elapsed - responder) % D, 1))

=============================================================================
