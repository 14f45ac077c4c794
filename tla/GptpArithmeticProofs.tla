------------------------ MODULE GptpArithmeticProofs ------------------------
(***************************************************************************)
(* Proofs about GptpArithmetic, for every width of a word: the types of its *)
(* results, and that division, the signed product of the servo and sums and *)
(* differences of timestamps are what plain arithmetic gives.              *)
(*                                                                         *)
(* Division rests on its recursions being defined.  The induction theorems *)
(* of the library range over operators and are of no use to the provers;   *)
(* SetInduction and Recursion below say the same of sets and functions and *)
(* follow from the well-founded order.                                     *)
(***************************************************************************)
EXTENDS GptpArithmetic, WellFoundedInduction, TLAPS

(* A set of natural numbers has a least element. *)
LEMMA LeastElement ==
  ASSUME NEW T \in SUBSET Nat, T # {}
  PROVE  \E m \in T : \A y \in T : ~(y < m)
<1> DEFINE R == {ss \in Nat \X Nat : ss[1] < ss[2]}
<1>1. IsWellFoundedOn(R, Nat)
  BY NatLessThanWellFounded DEF OpToRel
<1> HIDE DEF R
<1>2. \E m \in T : \A y \in T : ~(<<y, m>> \in R)
  BY <1>1, WFMin
<1> QED
  BY <1>2 DEF R

(* Induction over the natural numbers, for a set. *)
LEMMA SetInduction ==
  ASSUME NEW S \in SUBSET Nat, 0 \in S, \A n \in S : n + 1 \in S
  PROVE  Nat \subseteq S
<1> DEFINE T == Nat \ S
<1> SUFFICES ASSUME T # {} PROVE FALSE
  OBVIOUS
<1>1. PICK m \in T : \A y \in T : ~(y < m)
  <2>1. T \in SUBSET Nat
    OBVIOUS
  <2> HIDE DEF T
  <2> QED
    BY <2>1, LeastElement
<1>2. m - 1 \in Nat
  OBVIOUS
<1>3. m - 1 \in S
  BY <1>1, <1>2
<1>4. (m - 1) + 1 \in S
  BY <1>3
<1> QED
  BY <1>4

(* A function on 0..n is defined by its value at 0 and a function that     *)
(* gives each value from the one before.                                   *)
Unrolls(f, n, S, a, g) ==
  f \in [0..n -> S] /\ f[0] = a /\ \A k \in 1..n : f[k] = g[<<k, f[k - 1]>>]

LEMMA Recursion ==
  ASSUME NEW S, NEW a \in S, NEW g \in [Nat \X S -> S], NEW n \in Nat
  PROVE  \E f : Unrolls(f, n, S, a, g)
<1> DEFINE T == {m \in Nat : \E f \in [0..m -> S] :
                   f[0] = a /\ \A k \in 1..m : f[k] = g[<<k, f[k - 1]>>]}
<1>1. 0 \in T
  <2> DEFINE f0 == [k \in 0..0 |-> a]
  <2>1. f0 \in [0..0 -> S] /\ f0[0] = a
    OBVIOUS
  <2>2. 1..0 = {}
    OBVIOUS
  <2> QED
    BY <2>1, <2>2
<1>2. \A m \in T : m + 1 \in T
  <2> SUFFICES ASSUME NEW m \in T PROVE m + 1 \in T
    OBVIOUS
  <2>1. PICK f \in [0..m -> S] : f[0] = a /\ \A k \in 1..m : f[k] = g[<<k, f[k - 1]>>]
    OBVIOUS
  <2>2. m \in Nat
    OBVIOUS
  <2> DEFINE h == [k \in 0..(m + 1) |-> IF k <= m THEN f[k] ELSE g[<<m + 1, f[m]>>]]
  <2>3. g[<<m + 1, f[m]>>] \in S
    BY <2>1, <2>2
  <2>4. h \in [0..(m + 1) -> S]
    BY <2>1, <2>2, <2>3
  <2>5. h[0] = a
    BY <2>1, <2>2
  <2>6. \A k \in 1..(m + 1) : h[k] = g[<<k, h[k - 1]>>]
    <3> SUFFICES ASSUME NEW k \in 1..(m + 1) PROVE h[k] = g[<<k, h[k - 1]>>]
      OBVIOUS
    <3>1. k - 1 \in 0..m /\ k - 1 \in 0..(m + 1) /\ k \in 0..(m + 1)
      BY <2>2
    <3>2. h[k - 1] = f[k - 1]
      BY <3>1, <2>2
    <3>3. CASE k <= m
      BY <3>1, <3>2, <3>3, <2>1, <2>2
    <3>4. CASE ~(k <= m)
      <4>1. k = m + 1 /\ k - 1 = m
        BY <3>4, <2>2
      <4> QED
        BY <4>1, <3>1, <3>2, <3>4
    <3> QED
      BY <3>3, <3>4
  <2>7. \E hh \in [0..(m + 1) -> S] :
          hh[0] = a /\ \A k \in 1..(m + 1) : hh[k] = g[<<k, hh[k - 1]>>]
    <3> HIDE DEF h
    <3> QED
      BY <2>4, <2>5, <2>6
  <2> QED
    BY <2>2, <2>7
<1>3. Nat \subseteq T
  <2>1. T \in SUBSET Nat
    OBVIOUS
  <2> HIDE DEF T
  <2> QED
    BY <1>1, <1>2, <2>1, SetInduction
<1>4. \E f \in [0..n -> S] : f[0] = a /\ \A k \in 1..n : f[k] = g[<<k, f[k - 1]>>]
  BY <1>3
<1> QED
  BY <1>4 DEF Unrolls

----------------------------------------------------------------------------
(* Words, pairs and their signed readings.                                 *)

LEMMA WidthFacts ==
  /\ Half \in Nat /\ Half >= 2 /\ LogBits \in Nat /\ LogBits >= 1
  /\ M \in Nat /\ M >= 4 /\ M \div 2 \in Nat /\ M = 2 * (M \div 2)
  /\ D \in Nat /\ D >= 4 * M
  /\ Second \in Nat /\ Second > 0 /\ 4 * Second <= M
<1>1. Half \in Nat /\ Half >= 2 /\ Half % 8 = 0 /\ LogBits \in Nat /\ LogBits >= 1
  BY ArithmeticAssumption
<1>2. PICK h \in Nat : Half = 2 * h
  <2>1. Half = 2 * (4 * (Half \div 8)) /\ 4 * (Half \div 8) \in Nat
    BY <1>1
  <2> QED
    BY <2>1
<1>3. M = 2 * (h * Half) /\ M >= 2 * Half
  BY <1>1, <1>2 DEF M
<1>4. h * Half \in Nat
  BY <1>1, <1>2
<1>5. M \in Nat /\ M >= 4 /\ M \div 2 = h * Half
  BY <1>1, <1>3, <1>4
<1>6. D \in Nat /\ D >= 4 * M
  BY <1>5 DEF D
<1> QED
  BY <1>1, <1>3, <1>4, <1>5, <1>6, ArithmeticAssumption

LEMMA SignedType ==
  ASSUME NEW n \in Int
  PROVE  Signed(n) \in SignedWord
<1> HIDE DEF M
<1>1. (n + M \div 2) % M \in 0..(M - 1)
  BY WidthFacts
<1> QED
  BY <1>1, WidthFacts DEF Signed, SignedWord

LEMMA SignedIsIdentity ==
  ASSUME NEW n \in SignedWord
  PROVE  Signed(n) = n
<1>1. n + M \div 2 \in 0..(M - 1) /\ n \in Int
  BY WidthFacts DEF SignedWord
<1>2. (n + M \div 2) % M = n + M \div 2
  BY <1>1, WidthFacts
<1> QED
  BY <1>1, <1>2, WidthFacts DEF Signed

LEMMA PairType ==
  ASSUME NEW h \in Int, NEW l \in Int
  PROVE  Pair(h, l) \in Wide
<1>1. h % M \in 0..(M - 1) /\ l % M \in 0..(M - 1)
  BY WidthFacts
<1>2. \A i \in 0..(M - 1) : i * M \in Nat /\ i * M + M <= M * M
  BY WidthFacts
<1> QED
  BY <1>1, <1>2, WidthFacts DEF Pair, Wide, D

LEMMA HalvesType ==
  ASSUME NEW x \in Int
  PROVE  High(x) \in Int /\ Low(x) \in Word
BY WidthFacts DEF High, Low, Word

LEMMA ProductType ==
  ASSUME NEW v \in Int, NEW w \in Int
  PROVE  Multiply(v, w) \in Wide /\ MultiplyHigh(v, w) \in Int
<1>1. Multiply(v, w) \in Wide
  <2> DEFINE a == v \div Half
             b == v % Half
             c == w \div Half
             d == w % Half
             y == ((b * d) \div Half + ((a * d + c * b) % M)) % M
  <2>1. a \in Int /\ b \in Int /\ c \in Int /\ d \in Int
    BY WidthFacts
  <2> HIDE DEF a, b, c, d
  <2>2. a * d \in Int /\ c * b \in Int /\ b * d \in Int /\ a * c \in Int
    BY <2>1
  <2>3. (a * d + c * b) % M \in Int /\ (b * d) \div Half \in Int /\ (b * d) % Half \in Int
    BY <2>2, WidthFacts
  <2>4. y \in Int
    BY <2>3, WidthFacts
  <2> HIDE DEF y
  <2>5. y \div Half + a * c \in Int /\ ((b * d) % Half) + (y % Half) * Half \in Int
    BY <2>2, <2>3, <2>4, WidthFacts
  <2>6. Pair(y \div Half + a * c, ((b * d) % Half) + (y % Half) * Half) \in Wide
    BY <2>5, PairType
  <2> QED
    BY <2>6 DEF Multiply, a, b, c, d, y
<1>2. Multiply(v, w) \in Int
  BY <1>1, WidthFacts DEF Wide
<1> QED
  BY <1>1, <1>2, HalvesType DEF MultiplyHigh

LEMMA WideProductType ==
  ASSUME NEW x \in Int, NEW y \in Int
  PROVE  Uint64TimesUint32(x, y) \in Wide
<1>1. High(x) \in Int /\ Low(x) \in Int
  BY HalvesType DEF Word
<1>2. MultiplyHigh(Low(x), y) \in Int
  BY <1>1, ProductType
<1>3. High(x) * y + MultiplyHigh(Low(x), y) \in Int /\ Low(x) * y \in Int
  BY <1>1, <1>2
<1> QED
  BY <1>3, PairType DEF Uint64TimesUint32

----------------------------------------------------------------------------
(* Division: the recursions are defined, and the quotient is a wide number. *)

(* Powers of two. *)
LEMMA PowerFacts ==
  /\ Bits \in Nat /\ Bits >= 4
  /\ \A n \in 0..(2 * Bits + 1) : 2 ^ n \in Nat \ {0}
<1>1. Bits \in Int /\ \A n \in Int : 2 ^ n \in Int
  BY WidthFacts DEF Bits
<1>2. Bits \in Nat /\ Bits >= 4
  BY <1>1, WidthAssumption
<1> HIDE DEF Bits
<1> DEFINE T == {n \in Nat : n \in 0..(2 * Bits + 1) => 2 ^ n > 0}
<1>3. 0 \in T
  BY WidthAssumption
<1>4. \A n \in T : n + 1 \in T
  <2> SUFFICES ASSUME NEW n \in T, n + 1 \in 0..(2 * Bits + 1) PROVE 2 ^ (n + 1) > 0
    OBVIOUS
  <2>1. n \in 0..(2 * Bits) /\ n \in 0..(2 * Bits + 1) /\ n \in Nat
    BY <1>2
  <2>2. 2 ^ (n + 1) = 2 * 2 ^ n /\ 2 ^ n > 0 /\ 2 ^ n \in Int
    BY <1>1, <2>1, WidthAssumption
  <2> QED
    BY <2>2
<1>5. Nat \subseteq T
  <2>1. T \in SUBSET Nat
    OBVIOUS
  <2> HIDE DEF T
  <2> QED
    BY <1>3, <1>4, <2>1, SetInduction
<1> QED
  BY <1>1, <1>2, <1>5

LEMMA BitsFacts ==
  /\ Bits \in Nat /\ Bits >= 4
  /\ \A n \in 0..Bits : 2 ^ n \in Nat \ {0}
BY PowerFacts

LEMMA PowerSum ==
  ASSUME NEW m \in Nat, NEW n \in Nat, m + n <= 2 * Bits + 1
  PROVE  2 ^ (m + n) = 2 ^ m * 2 ^ n
<1> DEFINE T == {k \in Nat : m + k <= 2 * Bits + 1 => 2 ^ (m + k) = 2 ^ m * 2 ^ k}
<1>1. Bits \in Nat
  BY PowerFacts
<1>2. 0 \in T
  <2>1. 2 ^ m \in Int /\ m + 0 = m /\ 2 ^ 0 = 1
    BY WidthAssumption
  <2> QED
    BY <2>1
<1>3. \A k \in T : k + 1 \in T
  <2> SUFFICES ASSUME NEW k \in T, m + (k + 1) <= 2 * Bits + 1
               PROVE  2 ^ (m + (k + 1)) = 2 ^ m * 2 ^ (k + 1)
    OBVIOUS
  <2>1. k \in 0..(2 * Bits) /\ m + k \in 0..(2 * Bits) /\ m + k <= 2 * Bits + 1 /\ k \in Nat
        /\ m + (k + 1) = (m + k) + 1
    BY <1>1
  <2>2. 2 ^ (m + k) = 2 ^ m * 2 ^ k
    BY <2>1
  <2>3. 2 ^ ((m + k) + 1) = 2 * 2 ^ (m + k) /\ 2 ^ (k + 1) = 2 * 2 ^ k
    BY <2>1, WidthAssumption
  <2> DEFINE a == 2 ^ m
             b == 2 ^ k
  <2>4. a \in Int /\ b \in Int
    BY <2>1
  <2> HIDE DEF a, b
  <2>5. 2 * (a * b) = a * (2 * b)
    BY <2>4
  <2> QED
    BY <2>1, <2>2, <2>3, <2>5 DEF a, b
<1>4. Nat \subseteq T
  <2>1. T \in SUBSET Nat
    OBVIOUS
  <2> HIDE DEF T
  <2> QED
    BY <1>2, <1>3, <2>1, SetInduction
<1> QED
  BY <1>4

(* The search for the leftmost bit, unrolled. *)
Halved(v, k, i) ==
  IF v \div 2 ^ i # 0 THEN i + 2 ^ (LogBits - 1 - k) ELSE i - 2 ^ (LogBits - 1 - k)

LEMMA LeftmostBitUnrolls ==
  ASSUME NEW v
  PROVE  \E index :
           /\ index[0] = Bits \div 2
           /\ \A k \in 1..(LogBits - 1) : index[k] = Halved(v, k, index[k - 1])
           /\ index[LogBits - 1] \in Int
           /\ LeftmostBit(v) = IF v \div 2 ^ index[LogBits - 1] = 0
                               THEN index[LogBits - 1] - 1 ELSE index[LogBits - 1]
<1> DEFINE n == LogBits - 1
           a == Bits \div 2
           next(k, i) == LET step == 2 ^ (LogBits - 1 - k)
                         IN IF v \div 2 ^ i # 0 THEN i + step ELSE i - step
           Index(f) == f = [k \in 0..n |-> IF k = 0 THEN a ELSE next(k, f[k - 1])]
           g == [p \in Nat \X Int |-> next(p[1], p[2])]
           index == CHOOSE ff : Index(ff)
           T == {k \in Nat : k \in 0..n => index[k] \in Int}
<1>1. n \in Nat /\ a \in Int
  BY WidthFacts DEF Bits
<1>2. \A k \in Nat, i \in Int : next(k, i) \in Int
  BY WidthFacts
<1> HIDE DEF n, a, next
<1>3. g \in [Nat \X Int -> Int] /\ \A k \in Nat, i \in Int : g[<<k, i>>] = next(k, i)
  BY <1>2
<1> HIDE DEF g, index
<1>4. PICK f \in [0..n -> Int] : f[0] = a /\ \A k \in 1..n : f[k] = g[<<k, f[k - 1]>>]
  <2> DEFINE S == Int
  <2>1. a \in S /\ g \in [Nat \X S -> S] /\ n \in Nat
    BY <1>1, <1>3
  <2> HIDE DEF Index, S
  <2>2. \E f : Unrolls(f, n, S, a, g)
    BY <2>1, Recursion
  <2> QED
    BY <2>2 DEF S, Unrolls
<1>5. \A k \in 1..n : k \in Nat /\ k \in 0..n /\ k - 1 \in 0..n
  BY <1>1
<1>6. \A k \in 1..n : f[k] = next(k, f[k - 1])
  BY <1>3, <1>4, <1>5
<1>7. \A k \in 0..n : f[k] = IF k = 0 THEN a ELSE next(k, f[k - 1])
  BY <1>1, <1>4, <1>6
<1>8. Index(f)
  BY <1>4, <1>7
<1>9. Index(index)
  <2> HIDE DEF Index
  <2> QED
    BY <1>8 DEF index
<1>10. 0 \in T
  BY <1>1, <1>9
<1>11. \A k \in T : k + 1 \in T
  <2> SUFFICES ASSUME NEW k \in T, k + 1 \in 0..n PROVE index[k + 1] \in Int
    OBVIOUS
  <2>1. k \in Nat /\ k + 1 \in Nat /\ k \in 0..n /\ k + 1 # 0 /\ (k + 1) - 1 = k
    BY <1>1
  <2>2. index[k] \in Int
    BY <2>1
  <2>3. index[k + 1] = next(k + 1, index[k])
    BY <1>9, <2>1
  <2> HIDE DEF Index, T
  <2>4. next(k + 1, index[k]) \in Int
    BY <1>2, <2>1, <2>2
  <2> QED
    BY <2>3, <2>4
<1>12. Nat \subseteq T
  <2>1. T \in SUBSET Nat
    OBVIOUS
  <2> HIDE DEF T
  <2> QED
    BY <1>10, <1>11, <2>1, SetInduction
<1>13. index[n] \in Int
  BY <1>1, <1>12
<1>14. LeftmostBit(v) = IF v \div 2 ^ index[n] = 0 THEN index[n] - 1 ELSE index[n]
  BY DEF LeftmostBit, index, Index, next, n, a
<1>15. index[0] = a /\ \A k \in 1..n : index[k] = Halved(v, k, index[k - 1])
  <2>1. index[0] = a
    BY <1>1, <1>9
  <2>2. ASSUME NEW k \in 1..n PROVE index[k] = Halved(v, k, index[k - 1])
    <3>1. k \in 0..n /\ k # 0
      BY <1>1
    <3>2. index[k] = next(k, index[k - 1])
      BY <1>9, <3>1
    <3> QED
      BY <3>2 DEF next, Halved
  <2> QED
    BY <2>1, <2>2
<1> HIDE DEF Index, T
<1> QED
  BY <1>13, <1>14, <1>15 DEF n, a

LEMMA LeftmostBitType ==
  ASSUME NEW v
  PROVE  LeftmostBit(v) \in Int
BY LeftmostBitUnrolls

(* The leftmost bit of a word: of v > 0 the l with 2^l <= v < 2^(l + 1).   *)
LEMMA LeftmostBitIsExact ==
  ASSUME NEW v \in Word
  PROVE  /\ LeftmostBit(v) \in 0..(Bits - 1)
         /\ v < 2 ^ (LeftmostBit(v) + 1)
         /\ v > 0 => 2 ^ LeftmostBit(v) <= v
<1> DEFINE n == LogBits - 1
           s(k) == 2 ^ (n - k)
           Between(i, d) == /\ i \in Int /\ i - d >= 0 /\ i + d <= Bits
                            /\ v < 2 ^ (i + d)
                            /\ v > 0 => 2 ^ (i - d) <= v
<1>0. n \in Nat /\ Bits \in Nat /\ Bits >= 4 /\ n < Bits /\ v \in Nat /\ LogBits \in Nat
  BY WidthFacts, PowerFacts, WidthAssumption DEF Word
<1>1. PICK index : /\ index[0] = Bits \div 2
                   /\ \A k \in 1..n : index[k] = Halved(v, k, index[k - 1])
                   /\ index[n] \in Int
                   /\ LeftmostBit(v) = IF v \div 2 ^ index[n] = 0 THEN index[n] - 1 ELSE index[n]
  BY LeftmostBitUnrolls
<1> DEFINE T == {k \in Nat : k \in 0..n => Between(index[k], s(k))}
<1>2. \A k \in 0..n : s(k) \in Nat \ {0}
  BY <1>0, PowerFacts
<1>3. \A k \in 1..n : s(k - 1) = 2 * s(k)
  <2> TAKE k \in 1..n
  <2>1. n - k \in 0..(2 * Bits) /\ n - (k - 1) = (n - k) + 1
    BY <1>0
  <2> QED
    BY <2>1, WidthAssumption
<1>4. s(n) = 1 /\ Bits = 2 * s(0)
  <2>1. n - n = 0 /\ n - 0 = n /\ n \in 0..(2 * Bits) /\ n + 1 = LogBits
    BY <1>0
  <2> QED
    BY <2>1, WidthAssumption DEF Bits
<1>5. 0 \in T
  <2>1. s(0) \in Nat \ {0}
    BY <1>0, <1>2
  <2> HIDE DEF s
  <2>2. Bits \div 2 = s(0)
    BY <1>4, <2>1
  <2>3. s(0) + s(0) = Bits /\ s(0) - s(0) = 0
    BY <1>4, <2>1
  <2>4. v < 2 ^ Bits /\ 2 ^ 0 = 1
    BY WidthAssumption, WidthFacts DEF Word
  <2>5. Between(s(0), s(0))
    <3>1. 2 ^ (s(0) + s(0)) = 2 ^ Bits /\ 2 ^ (s(0) - s(0)) = 1
      BY <2>3, <2>4
    <3>2. v > 0 => 1 <= v
      BY <1>0
    <3> QED
      BY <1>0, <2>1, <2>3, <2>4, <3>1, <3>2
  <2> HIDE DEF Between
  <2> QED
    BY <1>1, <2>2, <2>5
<1>6. \A k \in T : k + 1 \in T
  <2> SUFFICES ASSUME NEW k \in T, k + 1 \in 0..n PROVE Between(index[k + 1], s(k + 1))
    OBVIOUS
  <2> DEFINE i == index[k]
             d == s(k + 1)
  <2>1. k \in Nat /\ k \in 0..n /\ k + 1 \in 1..n /\ (k + 1) - 1 = k
    BY <1>0
  <2>2. Between(i, s(k)) /\ s(k) = 2 * d /\ d \in Nat \ {0}
    BY <1>2, <1>3, <2>1
  <2>3. index[k + 1] = IF v \div 2 ^ i # 0 THEN i + d ELSE i - d
    BY <1>1, <2>1 DEF Halved
  <2> HIDE DEF i, d, s, T
  <2>4. i \in 0..Bits
    BY <1>0, <2>2
  <2>5. 2 ^ i \in Nat \ {0}
    BY <1>0, <2>4, PowerFacts
  <2>6. v \div 2 ^ i # 0 <=> v >= 2 ^ i
    <3> DEFINE p == 2 ^ i
    <3>1. p \in Nat \ {0}
      BY <2>5
    <3> HIDE DEF p
    <3>2. v \div p # 0 <=> v >= p
      BY <1>0, <3>1
    <3> QED
      BY <3>2 DEF p
  <2>7. CASE v \div 2 ^ i # 0
    <3>1. index[k + 1] = i + d /\ (i + d) - d = i /\ (i + d) + d = i + s(k)
      BY <2>2, <2>3, <2>7
    <3>2. Between(i + d, d)
      BY <1>0, <2>2, <2>4, <2>5, <2>6, <2>7, <3>1
    <3> QED
      BY <3>1, <3>2 DEF d
  <2>8. CASE v \div 2 ^ i = 0
    <3>1. index[k + 1] = i - d /\ (i - d) - d = i - s(k) /\ (i - d) + d = i
      BY <2>2, <2>3, <2>8
    <3>2. Between(i - d, d)
      BY <1>0, <2>2, <2>4, <2>5, <2>6, <2>8, <3>1
    <3> QED
      BY <3>1, <3>2 DEF d
  <2> QED
    BY <2>7, <2>8
<1>7. Nat \subseteq T
  <2>1. T \in SUBSET Nat
    OBVIOUS
  <2> HIDE DEF T
  <2> QED
    BY <1>5, <1>6, <2>1, SetInduction
<1>8. Between(index[n], 1)
  <2>1. n \in T /\ n \in 0..n
    <3> HIDE DEF T, n
    <3> QED
      BY <1>0, <1>7
  <2>2. Between(index[n], s(n))
    BY <2>1
  <2> HIDE DEF s, n, T
  <2> QED
    BY <1>4, <2>2
<1> DEFINE i == index[n]
           l == LeftmostBit(v)
<1>9. i \in 1..(Bits - 1) /\ v < 2 ^ (i + 1) /\ (v > 0 => 2 ^ (i - 1) <= v)
  BY <1>0, <1>8
<1>10. l = IF v \div 2 ^ i = 0 THEN i - 1 ELSE i
  BY <1>1
<1> HIDE DEF i, l
<1>11. v \div 2 ^ i = 0 <=> v < 2 ^ i
  <2> DEFINE p == 2 ^ i
  <2>1. p \in Nat \ {0}
    BY <1>0, <1>9, PowerFacts
  <2> HIDE DEF p
  <2>2. v \div p = 0 <=> v < p
    BY <1>0, <2>1
  <2> QED
    BY <2>2 DEF p
<1>12. 2 ^ i \in Nat \ {0}
  BY <1>0, <1>9, PowerFacts
<1>13. CASE v \div 2 ^ i = 0
  <2>1. l = i - 1 /\ l + 1 = i
    BY <1>9, <1>10, <1>13
  <2> QED
    BY <1>0, <1>9, <1>11, <1>13, <2>1 DEF l
<1>14. CASE v \div 2 ^ i # 0
  <2>1. l = i
    BY <1>10, <1>14
  <2> QED
    BY <1>0, <1>9, <1>11, <1>12, <1>14, <2>1 DEF l
<1> QED
  BY <1>13, <1>14

LEMMA PlacesType ==
  ASSUME NEW x, NEW y
  PROVE  Places(x, y) \in Int /\ BitsOfQuotient(Places(x, y)) \in Nat
<1>1. Skew(x, y) \in Int
  BY LeftmostBitType DEF Skew
<1>2. Places(x, y) \in Int
  BY <1>1, PowerFacts DEF Places, One
<1> QED
  BY <1>2 DEF BitsOfQuotient

LEMMA AlignedType ==
  ASSUME NEW x, NEW y \in Int
  PROVE  Aligned(x, y) \in Int
<1> DEFINE skew == Skew(x, y)
           by == skew % Bits
           rest == IF skew = 0 THEN 0 ELSE Low(y) \div 2 ^ (Bits - by)
           shifted == Pair(High(y) * 2 ^ by + rest, Low(y) * 2 ^ by)
<1>1. skew \in Int
  BY LeftmostBitType DEF Skew
<1>2. by \in 0..(Bits - 1) /\ Bits - by \in 0..Bits
  BY <1>1, BitsFacts
<1>3. 2 ^ by \in Nat \ {0} /\ 2 ^ (Bits - by) \in Nat \ {0}
  BY <1>2, BitsFacts
<1>4. High(y) \in Int /\ Low(y) \in Int
  BY HalvesType DEF Word
<1> HIDE DEF skew, by
<1>5. rest \in Int /\ Low(y) * 2 ^ by \in Int /\ High(y) * 2 ^ by \in Int
  BY <1>3, <1>4
<1> HIDE DEF rest
<1>6. shifted \in Int
  BY <1>5, PairType DEF Wide
<1> HIDE DEF shifted
<1>7. Pair(Low(shifted), 0) \in Int
  BY <1>6, HalvesType, PairType DEF Wide, Word
<1>8. Aligned(x, y) = IF Places(x, y) < Bits THEN shifted ELSE Pair(Low(shifted), 0)
  BY DEF Aligned, skew, by, rest, shifted
<1> QED
  BY <1>6, <1>7, <1>8

(* The division, unrolled. *)
Remainder == [x : Int, y : Int, z : Wide]

Divides(run, x, y) ==
  /\ run[0] = [x |-> x, y |-> Aligned(x, y), z |-> 0]
  /\ \A k \in 1..BitsOfQuotient(Places(x, y)) : run[k] = Subtracted(run[k - 1])
  /\ \A k \in 0..BitsOfQuotient(Places(x, y)) : run[k] \in Remainder

LEMMA SubtractedType ==
  ASSUME NEW s \in Remainder
  PROVE  Subtracted(s) \in Remainder
<1>1. s.x \in Int /\ s.y \in Int /\ s.z \in Int
  BY DEF Wide, Remainder
<1>2. One(s.x >= s.y) \in Int
  BY DEF One
<1>3. (2 * s.z + One(s.x >= s.y)) % D \in Wide
  BY <1>1, <1>2, WidthFacts DEF Wide
<1> QED
  BY <1>1, <1>3 DEF Subtracted, Remainder

LEMMA QuotientUnrolls ==
  ASSUME NEW x \in Int, NEW y \in Int
  PROVE  \E run : /\ Divides(run, x, y)
                  /\ Uint64DividedByUint64(x, y) =
                       IF y = 0 THEN (IF x = 0 THEN 0 ELSE D \div 2)
                       ELSE run[BitsOfQuotient(Places(x, y))].z
<1> DEFINE N == BitsOfQuotient(Places(x, y))
           a == [x |-> x, y |-> Aligned(x, y), z |-> 0]
           g == [p \in Nat \X Remainder |-> Subtracted(p[2])]
           Run(f) == f = [k \in 0..N |-> IF k = 0 THEN a ELSE Subtracted(f[k - 1])]
           run == CHOOSE f : Run(f)
           T == {k \in Nat : k \in 0..N => run[k] \in Remainder}
<1>1. N \in Nat
  BY PlacesType
<1>2. a \in Remainder
  BY AlignedType, WidthFacts DEF Wide, Remainder
<1>3. g \in [Nat \X Remainder -> Remainder]
      /\ \A k \in Nat, s \in Remainder : g[<<k, s>>] = Subtracted(s)
  BY SubtractedType
<1> HIDE DEF N, a, g, run
<1>4. PICK f : Unrolls(f, N, Remainder, a, g)
  <2> HIDE DEF Run, T
  <2> QED
    BY <1>1, <1>2, <1>3, Recursion
<1>5. \A k \in 1..N : k \in Nat /\ k \in 0..N /\ k - 1 \in 0..N
  BY <1>1
<1>6. \A k \in 1..N : f[k] = Subtracted(f[k - 1])
  BY <1>3, <1>4, <1>5 DEF Unrolls
<1>7. \A k \in 0..N : f[k] = IF k = 0 THEN a ELSE Subtracted(f[k - 1])
  BY <1>1, <1>4, <1>6 DEF Unrolls
<1>8. Run(f)
  BY <1>4, <1>7 DEF Unrolls
<1>9. Run(run)
  <2> HIDE DEF Run
  <2> QED
    BY <1>8 DEF run
<1>10. run[0] = a /\ \A k \in 1..N : run[k] = Subtracted(run[k - 1])
  <2>1. run[0] = a
    BY <1>1, <1>9
  <2>2. ASSUME NEW k \in 1..N PROVE run[k] = Subtracted(run[k - 1])
    <3>1. k \in 0..N /\ k # 0
      BY <1>1
    <3> QED
      BY <1>9, <3>1
  <2> QED
    BY <2>1, <2>2
<1>11. 0 \in T
  BY <1>2, <1>10
<1>12. \A k \in T : k + 1 \in T
  <2> SUFFICES ASSUME NEW k \in T, k + 1 \in 0..N PROVE run[k + 1] \in Remainder
    OBVIOUS
  <2>1. k \in Nat /\ k + 1 \in 1..N /\ k \in 0..N /\ (k + 1) - 1 = k
    BY <1>1
  <2>2. run[k] \in Remainder
    BY <2>1
  <2>3. run[k + 1] = Subtracted(run[k])
    BY <1>10, <2>1
  <2> HIDE DEF Run, T
  <2> QED
    BY <2>2, <2>3, SubtractedType
<1>13. Nat \subseteq T
  <2>1. T \in SUBSET Nat
    OBVIOUS
  <2> HIDE DEF T
  <2> QED
    BY <1>11, <1>12, <2>1, SetInduction
<1>14. \A k \in 0..N : run[k] \in Remainder
  BY <1>1, <1>13
<1>15. Uint64DividedByUint64(x, y) =
         IF y = 0 THEN (IF x = 0 THEN 0 ELSE D \div 2) ELSE run[N].z
  BY DEF Uint64DividedByUint64, run, Run, N, a
<1> HIDE DEF Run, T
<1> QED
  BY <1>10, <1>14, <1>15 DEF Divides, N, a

LEMMA QuotientType ==
  ASSUME NEW x \in Int, NEW y \in Int
  PROVE  Uint64DividedByUint64(x, y) \in Wide
<1>1. PICK run : /\ Divides(run, x, y)
                 /\ Uint64DividedByUint64(x, y) =
                      IF y = 0 THEN (IF x = 0 THEN 0 ELSE D \div 2)
                      ELSE run[BitsOfQuotient(Places(x, y))].z
  BY QuotientUnrolls
<1>2. run[BitsOfQuotient(Places(x, y))] \in Remainder
  BY <1>1, PlacesType DEF Divides
<1>3. 0 \in Wide /\ D \div 2 \in Wide
  BY WidthFacts DEF Wide
<1> QED
  BY <1>1, <1>2, <1>3 DEF Remainder

----------------------------------------------------------------------------
(* More of words: an eighth of half a word is whole. *)
LEMMA EighthFacts ==
  /\ Half \div 8 \in Nat /\ Half = 8 * (Half \div 8) /\ Half >= 8
  /\ M \div 8 \in Nat /\ M = 8 * (M \div 8) /\ M \div 8 = (Half \div 8) * Half
  /\ M \div 8 >= 8
<1>1. Half \in Nat \ {0} /\ Half % 8 = 0
  BY ArithmeticAssumption
<1> DEFINE e == Half \div 8
<1>2. e \in Nat \ {0} /\ Half = 8 * e
  BY <1>1
<1> HIDE DEF e
<1>3. M = 8 * (e * Half) /\ e * Half \in Nat
  BY <1>1, <1>2 DEF M
<1>4. e * Half >= 8
  BY <1>2
<1> DEFINE f == e * Half
<1>5. M = 8 * f /\ f \in Nat /\ f >= 8
  BY <1>3, <1>4
<1> HIDE DEF f
<1>6. M \div 8 = f
  BY <1>5
<1> QED
  BY <1>1, <1>2, <1>5, <1>6 DEF e, f

LEMMA DivMod ==
  ASSUME NEW n \in Int, NEW d \in Nat \ {0}
  PROVE  n \div d \in Int /\ n % d \in 0..(d - 1) /\ n = (n \div d) * d + (n % d)
<1>1. n \div d \in Int /\ n % d \in 0..(d - 1)
  OBVIOUS
<1>2. n = d * (n \div d) + (n % d)
  OBVIOUS
<1>3. d * (n \div d) = (n \div d) * d
  BY <1>1
<1> QED
  BY <1>1, <1>2, <1>3

(* The remainder of a number at most one divisor away. *)
LEMMA ModOfBorrow ==
  ASSUME NEW n \in Int, NEW d \in Nat \ {0}, n >= -d, n < d
  PROVE  n % d = IF n < 0 THEN n + d ELSE n
<1>1. n % d \in 0..(d - 1) /\ n \div d \in Int /\ n = (n \div d) * d + (n % d)
  BY DivMod
<1> DEFINE q == n \div d
           r == n % d
<1>2. n = q * d + r /\ q \in Int /\ r \in 0..(d - 1)
  BY <1>1
<1> HIDE DEF q, r
<1>3. q >= 1 => q * d >= d
  BY <1>2
<1>4. q <= -2 => q * d <= -d - d
  <2> SUFFICES ASSUME q <= -2 PROVE q * d <= -d - d
    OBVIOUS
  <2>1. q * d <= (-2) * d
    BY <1>2
  <2> QED
    BY <2>1
<1>5. q = 0 \/ q = -1
  BY <1>2, <1>3, <1>4
<1>6. (q = 0 => q * d = 0) /\ (q = -1 => q * d = -d)
  BY <1>2
<1> QED
  BY <1>2, <1>5, <1>6 DEF r

(* A quotient from a bound on the dividend. *)
LEMMA QuotientBound ==
  ASSUME NEW n \in Nat, NEW d \in Nat \ {0}, NEW b \in Nat, n < b * d
  PROVE  n \div d \in 0..(b - 1)
<1> DEFINE q == n \div d
           r == n % d
<1>1. q \in Int /\ r \in 0..(d - 1) /\ n = q * d + r
  BY DivMod
<1> HIDE DEF q, r
<1>2. q >= b => q * d >= b * d
  BY <1>1
<1>3. q <= -1 => q * d <= -d
  <2> SUFFICES ASSUME q <= -1 PROVE q * d <= -d
    OBVIOUS
  <2>1. q * d <= (-1) * d
    BY <1>1
  <2> QED
    BY <2>1
<1>4. q * d \in Int /\ b * d \in Int
  BY <1>1
<1> QED
  BY <1>1, <1>2, <1>3, <1>4 DEF q

(* A number is written one way only with a remainder. *)
LEMMA DivModUnique ==
  ASSUME NEW d \in Nat \ {0}, NEW q \in Int, NEW r \in 0..(d - 1)
  PROVE  (q * d + r) \div d = q /\ (q * d + r) % d = r
<1> DEFINE n == q * d + r
           a == n \div d
           b == n % d
<1>1. n \in Int
  OBVIOUS
<1>2. a \in Int /\ b \in 0..(d - 1) /\ n = a * d + b
  <2> HIDE DEF n
  <2> QED
    BY <1>1, DivMod
<1>3. (a - q) * d = r - b
  <2> HIDE DEF a, b
  <2>1. (a - q) * d = a * d - q * d /\ a * d \in Int /\ q * d \in Int
    BY <1>2
  <2> QED
    BY <1>2, <2>1
<1>4. a = q
  <2> HIDE DEF a, b
  <2>1. a - q >= 1 => (a - q) * d >= d
    BY <1>2
  <2>2. a - q <= -1 => (a - q) * d <= -d
    <3> SUFFICES ASSUME a - q <= -1 PROVE (a - q) * d <= -d
      OBVIOUS
    <3>1. (a - q) * d <= (-1) * d
      BY <1>2
    <3> QED
      BY <3>1
  <2> QED
    BY <1>2, <1>3, <2>1, <2>2
<1>5. b = r
  <2> HIDE DEF a, b
  <2>1. (a - q) * d = 0
    BY <1>4
  <2> QED
    BY <1>2, <1>3, <2>1
<1> QED
  BY <1>4, <1>5

----------------------------------------------------------------------------
(* Division, exactly.                                                      *)

(* The leftmost bit of a pair: of x > 0 the i with 2^i <= x < 2^(i + 1). *)
Leftmost(x) == LeftmostBit(Top(x)) + One(High(x) # 0) * Bits

LEMMA HalvesFacts ==
  ASSUME NEW x \in Wide
  PROVE  /\ x \in Nat /\ High(x) \in Word /\ Low(x) \in Word
         /\ x = High(x) * M + Low(x)
<1> DEFINE h == x \div M
           l == x % M
<1>1. x \in Nat /\ x < M * M /\ M \in Nat /\ M > 0
  BY WidthFacts DEF Wide, D
<1> HIDE DEF M
<1>2. h \in Nat /\ l \in 0..(M - 1) /\ x = h * M + l
  BY <1>1
<1> HIDE DEF h, l
<1>3. h < M
  <2> SUFFICES ASSUME h >= M PROVE FALSE
    BY <1>1, <1>2
  <2>1. h * M >= M * M
    BY <1>1, <1>2
  <2> QED
    BY <1>1, <1>2, <2>1
<1> QED
  BY <1>1, <1>2, <1>3 DEF High, Low, Word, h, l

LEMMA PowerGrows ==
  ASSUME NEW m \in Nat, NEW n \in Nat, m <= n, n <= 2 * Bits + 1
  PROVE  2 ^ m <= 2 ^ n
<1> DEFINE a == 2 ^ m
           b == 2 ^ (n - m)
<1>1. n - m \in Nat /\ m + (n - m) = n /\ Bits \in Nat
  BY PowerFacts
<1>2. 2 ^ n = a * b
  BY <1>1, PowerSum
<1>3. a \in Nat \ {0} /\ b \in Nat \ {0}
  BY <1>1, PowerFacts
<1> HIDE DEF a, b
<1>4. a * b >= a
  BY <1>3
<1> QED
  BY <1>2, <1>4 DEF a

LEMMA LeftmostIsExact ==
  ASSUME NEW x \in Wide
  PROVE  /\ Leftmost(x) \in 0..(2 * Bits - 1)
         /\ x < 2 ^ (Leftmost(x) + 1)
         /\ x > 0 => 2 ^ Leftmost(x) <= x
<1> DEFINE h == High(x)
           l == LeftmostBit(Top(x))
<1>1. x \in Nat /\ h \in Word /\ Low(x) \in Word /\ x = h * M + Low(x)
  BY HalvesFacts
<1>2. Bits \in Nat /\ Bits >= 4 /\ M \in Nat /\ M = 2 ^ Bits
  BY PowerFacts, WidthFacts, WidthAssumption
<1>3. CASE h = 0
  <2>1. Top(x) = Low(x) /\ Low(x) = x /\ Leftmost(x) = l
    <3>1. x = Low(x)
      <4>1. h * M = 0 /\ Low(x) \in Int
        BY <1>1, <1>2, <1>3 DEF Word
      <4> QED
        BY <1>1, <4>1
    <3>2. One(High(x) # 0) = 0 /\ Top(x) = Low(x)
      BY <1>3 DEF One, Top
    <3>3. l \in Int
      BY LeftmostBitType
    <3> HIDE DEF l
    <3>4. l + 0 * Bits = l
      BY <3>3, <1>2
    <3> QED
      BY <3>1, <3>2, <3>4 DEF Leftmost, l
  <2>2. l \in 0..(Bits - 1) /\ x < 2 ^ (l + 1) /\ (x > 0 => 2 ^ l <= x)
    BY <1>1, <2>1, LeftmostBitIsExact
  <2> HIDE DEF l
  <2> QED
    BY <1>2, <2>1, <2>2
<1>4. CASE h # 0
  <2>1. Top(x) = h /\ One(High(x) # 0) = 1
    BY <1>4 DEF Top, One
  <2>2. h \in Nat /\ h > 0 /\ x \in Nat /\ Low(x) \in 0..(M - 1)
    BY <1>1, <1>4 DEF Word
  <2>3. l \in 0..(Bits - 1) /\ h < 2 ^ (l + 1) /\ 2 ^ l <= h
    BY <1>1, <2>1, <2>2, LeftmostBitIsExact
  <2>4. Leftmost(x) = l + Bits
    <3> HIDE DEF l
    <3>1. l + 1 * Bits = l + Bits
      BY <1>2, <2>3
    <3> QED
      BY <2>1, <3>1 DEF Leftmost, l
  <2> HIDE DEF l
  <2>5. l + Bits \in 0..(2 * Bits - 1) /\ (l + Bits) + 1 = (l + 1) + Bits
        /\ l \in Nat /\ l + 1 \in Nat /\ l + Bits <= 2 * Bits + 1 /\ (l + 1) + Bits <= 2 * Bits + 1
        /\ l \in 0..(2 * Bits + 1) /\ l + 1 \in 0..(2 * Bits + 1)
    BY <1>2, <2>3
  <2> DEFINE a == 2 ^ l
             b == 2 ^ (l + 1)
             low == Low(x)
  <2>6. 2 ^ (l + Bits) = a * M /\ 2 ^ ((l + 1) + Bits) = b * M
    <3>1. 2 ^ (l + Bits) = 2 ^ l * 2 ^ Bits
      BY <1>2, <2>5, PowerSum
    <3>2. 2 ^ ((l + 1) + Bits) = 2 ^ (l + 1) * 2 ^ Bits
      BY <1>2, <2>5, PowerSum
    <3> QED
      BY <1>2, <3>1, <3>2
  <2>7. a \in Nat /\ b \in Nat /\ a <= h /\ h + 1 <= b
    <3>1. a \in Nat \ {0} /\ b \in Nat \ {0}
      BY <2>5, PowerFacts
    <3>2. a <= h /\ h < b
      BY <2>3
    <3> HIDE DEF a, b, h
    <3> QED
      BY <3>1, <3>2, <2>2
  <2>8. low \in 0..(M - 1) /\ x = h * M + low
    BY <1>1 DEF Word
  <2> HIDE DEF a, b, h, low, M
  <2>9. a * M <= h * M /\ (h + 1) * M <= b * M /\ (h + 1) * M = h * M + M
    BY <1>2, <2>2, <2>7
  <2>10. a * M \in Int /\ b * M \in Int /\ h * M \in Int
    BY <1>2, <2>2, <2>7
  <2>11. a * M <= x /\ x < b * M
    BY <1>2, <2>8, <2>9, <2>10
  <2> QED
    BY <2>4, <2>5, <2>6, <2>11
<1> QED
  BY <1>3, <1>4

LEMMA PlacesIsExact ==
  ASSUME NEW x \in Wide, NEW y \in Wide
  PROVE  Places(x, y) = Leftmost(x) - Leftmost(y)
<1> DEFINE a == LeftmostBit(Top(x))
           b == LeftmostBit(Top(y))
           c == One(High(x) # 0)
           d == One(High(y) # 0)
<1>1. a \in Int /\ b \in Int
  BY LeftmostBitType
<1>2. c \in {0, 1} /\ d \in {0, 1}
  BY DEF One
<1>3. Bits \in Int
  BY PowerFacts
<1>4. Places(x, y) = (a - b) + (c - d) * Bits
      /\ Leftmost(x) = a + c * Bits /\ Leftmost(y) = b + d * Bits
  BY DEF Places, Skew, Leftmost
<1> HIDE DEF a, b, c, d
<1>5. (c - d) * Bits = c * Bits - d * Bits
  BY <1>2, <1>3
<1>6. c * Bits \in Int /\ d * Bits \in Int
  BY <1>2, <1>3
<1> QED
  BY <1>1, <1>4, <1>5, <1>6

(* The remainder of a number in halves h and l. *)
LEMMA PairIsExact ==
  ASSUME NEW h \in Nat, NEW l \in Word, h * M + l < D
  PROVE  h \in Word /\ Pair(h, l) = h * M + l
<1>1. M \in Nat /\ M >= 4 /\ l \in 0..(M - 1) /\ h * M + l < M * M
  BY WidthFacts DEF Word, D
<1> HIDE DEF M
<1>2. h < M
  <2> SUFFICES ASSUME h >= M PROVE FALSE
    BY <1>1
  <2>1. h * M >= M * M
    BY <1>1
  <2> QED
    BY <1>1, <2>1
<1>3. h % M = h /\ l % M = l
  BY <1>1, <1>2
<1> QED
  BY <1>1, <1>2, <1>3 DEF Pair, Word

(* A pair shifted left within a word, as the code writes it. *)
LEMMA ShiftedIsExact ==
  ASSUME NEW y \in Wide, NEW by \in 0..(Bits - 1), y * 2 ^ by < D
  PROVE  Pair(High(y) * 2 ^ by + (IF by = 0 THEN 0 ELSE Low(y) \div 2 ^ (Bits - by)), Low(y) * 2 ^ by)
           = y * 2 ^ by
<1> DEFINE p == 2 ^ by
           q == 2 ^ (Bits - by)
           h == High(y)
           l == Low(y)
           up == l \div q
           left == l % q
           rest == IF by = 0 THEN 0 ELSE up
<1>1. Bits \in Nat /\ by \in Nat /\ Bits - by \in Nat /\ by + (Bits - by) = Bits
      /\ Bits <= 2 * Bits + 1 /\ Bits - by \in 0..(2 * Bits + 1) /\ by \in 0..(2 * Bits + 1)
  BY PowerFacts
<1>2. p \in Nat \ {0} /\ q \in Nat \ {0} /\ M = p * q
  <2>1. 2 ^ Bits = 2 ^ by * 2 ^ (Bits - by)
    BY <1>1, PowerSum
  <2> QED
    BY <1>1, <2>1, PowerFacts, WidthAssumption
<1>3. h \in Nat /\ l \in 0..(M - 1) /\ y = h * M + l /\ y \in Nat
  BY HalvesFacts DEF Word
<1>4. M \in Nat /\ M > 0
  BY WidthFacts
<1>5. rest = up
  <2>1. CASE by = 0
    <3>1. q = M
      BY <1>1, <2>1, WidthAssumption
    <3> HIDE DEF q, l
    <3>2. up = 0
      BY <1>3, <1>4, <3>1
    <3> QED
      BY <2>1, <3>2
  <2> QED
    BY <2>1
<1>6. y * p < D
  OBVIOUS
<1> HIDE DEF p, q, h, l, M, rest
<1>7. up \in Nat /\ left \in 0..(q - 1) /\ l = up * q + left
  BY <1>2, <1>3
<1> HIDE DEF up, left
<1>8. left * p \in 0..(M - 1)
  <2>1. left + 1 <= q /\ left \in Nat /\ q \in Nat /\ p \in Nat
    BY <1>2, <1>7
  <2>2. (left + 1) * p <= q * p /\ (left + 1) * p = left * p + p
    BY <2>1
  <2>3. left * p \in Nat /\ q * p = M
    BY <1>2, <2>1
  <2> QED
    BY <1>2, <1>4, <2>2, <2>3
<1>9. l * p = up * M + left * p
  <2>1. (up * q + left) * p = up * (p * q) + left * p
    BY <1>2, <1>7
  <2> QED
    BY <1>2, <1>7, <2>1
<1>10. (l * p) % M = left * p
  <2> DEFINE r == left * p
             n == l * p
  <2>1. r \in 0..(M - 1) /\ n = up * M + r /\ n \in Int
    BY <1>2, <1>3, <1>8, <1>9
  <2> HIDE DEF r, n
  <2>2. n % M = r
    BY <1>4, <1>7, <2>1
  <2> QED
    BY <2>2 DEF r, n
<1>11. y * p = (h * p + up) * M + left * p
  <2>1. (h * M + l) * p = (h * p) * M + l * p
    BY <1>2, <1>3, <1>4
  <2>2. (h * p + up) * M = (h * p) * M + up * M
    <3>1. h * p \in Nat
      BY <1>2, <1>3
    <3> QED
      BY <1>4, <1>7, <3>1
  <2>3. h * p \in Nat /\ (h * p) * M \in Nat /\ up * M \in Nat /\ l * p \in Nat /\ left * p \in Nat
    BY <1>2, <1>3, <1>4, <1>7, <1>8
  <2> QED
    BY <1>3, <1>9, <2>1, <2>2, <2>3
<1>12. Pair(h * p + up, left * p) = (h * p + up) * M + left * p
  <2>1. h * p + up \in Nat /\ left * p \in Word /\ (h * p + up) * M + left * p < D
    BY <1>2, <1>3, <1>6, <1>7, <1>8, <1>11 DEF Word
  <2> DEFINE hh == h * p + up
             ll == left * p
  <2> HIDE DEF hh, ll
  <2>2. hh \in Nat /\ ll \in Word /\ hh * M + ll < D
    BY <2>1 DEF hh, ll
  <2>3. Pair(hh, ll) = hh * M + ll
    BY <2>2, PairIsExact
  <2> QED
    BY <2>3 DEF hh, ll
<1>13. Pair(h * p + up, l * p) = Pair(h * p + up, left * p)
  <2>1. (left * p) % M = left * p
    <3> DEFINE r == left * p
    <3>1. r \in 0..(M - 1)
      BY <1>8
    <3> HIDE DEF r
    <3>2. r % M = r
      BY <1>4, <3>1
    <3> QED
      BY <3>2 DEF r
  <2> QED
    BY <1>10, <2>1 DEF Pair
<1> QED
  BY <1>5, <1>11, <1>12, <1>13 DEF p, q, h, l, rest, up

(* The divisor is shifted until its leftmost bit is that of the dividend,   *)
(* and loses none of its own.                                              *)
LEMMA AlignedIsExact ==
  ASSUME NEW x \in Wide, NEW y \in Wide, Places(x, y) >= 0
  PROVE  /\ Aligned(x, y) = y * 2 ^ Places(x, y)
         /\ x < 2 * (y * 2 ^ Places(x, y)) \/ y = 0
<1> DEFINE n == Places(x, y)
           i == Leftmost(x)
           j == Leftmost(y)
           skew == Skew(x, y)
           by == skew % Bits
           shifted == Pair(High(y) * 2 ^ by + (IF skew = 0 THEN 0 ELSE Low(y) \div 2 ^ (Bits - by)),
                           Low(y) * 2 ^ by)
<1>1. Bits \in Nat /\ Bits >= 4
  BY PowerFacts
<1>2. i \in 0..(2 * Bits - 1) /\ x < 2 ^ (i + 1)
  BY LeftmostIsExact
<1>3. j \in 0..(2 * Bits - 1) /\ y < 2 ^ (j + 1) /\ (y > 0 => 2 ^ j <= y)
  BY LeftmostIsExact
<1>4. n = i - j /\ n \in Nat /\ n \in 0..(2 * Bits + 1)
  <2>1. n = i - j /\ n >= 0
    BY PlacesIsExact
  <2> HIDE DEF n, i, j
  <2> QED
    BY <1>1, <1>2, <1>3, <2>1
<1>5. Aligned(x, y) = IF n < Bits THEN shifted ELSE Pair(Low(shifted), 0)
  BY DEF Aligned
<1>6. x \in Nat /\ y \in Nat
  BY HalvesFacts
<1>7. y * 2 ^ n < D
  <2> HIDE DEF n, i, j
  <2>1. j + 1 \in Nat /\ (j + 1) + n = i + 1 /\ i + 1 \in Nat /\ i + 1 <= 2 * Bits
        /\ 2 * Bits <= 2 * Bits + 1 /\ 2 * Bits \in Nat /\ i + 1 <= 2 * Bits + 1
        /\ j + 1 \in 0..(2 * Bits + 1)
    BY <1>1, <1>2, <1>3, <1>4
  <2>2. 2 ^ (i + 1) = 2 ^ (j + 1) * 2 ^ n
    BY <1>4, <2>1, PowerSum
  <2>3. 2 ^ (i + 1) <= 2 ^ (2 * Bits)
    BY <2>1, PowerGrows
  <2>4. 2 ^ (2 * Bits) = D
    <3>1. Bits + Bits = 2 * Bits /\ Bits + Bits <= 2 * Bits + 1
      BY <1>1
    <3>2. 2 ^ (Bits + Bits) = 2 ^ Bits * 2 ^ Bits
      BY <1>1, <3>1, PowerSum
    <3> QED
      BY <3>1, <3>2, WidthAssumption DEF D
  <2>5. 2 ^ n \in Nat \ {0} /\ 2 ^ (j + 1) \in Nat \ {0}
    BY <1>4, <2>1, PowerFacts
  <2> DEFINE p == 2 ^ n
             q == 2 ^ (j + 1)
             d == 2 ^ (i + 1)
  <2>6. d = q * p /\ d <= D /\ p \in Nat \ {0} /\ q \in Nat \ {0} /\ y < q
    BY <1>3, <2>2, <2>3, <2>4, <2>5
  <2> HIDE DEF p, q, d
  <2>7. y * p < q * p
    BY <1>6, <2>6
  <2>8. y * p \in Nat /\ D \in Nat
    BY <1>6, <2>6, WidthFacts
  <2>9. y * p < D
    BY <2>6, <2>7, <2>8
  <2> QED
    BY <2>9 DEF p
<1>8. x < 2 * (y * 2 ^ n) \/ y = 0
  <2> SUFFICES ASSUME y > 0 PROVE x < 2 * (y * 2 ^ n)
    BY <1>6
  <2> HIDE DEF n, i, j
  <2>1. j + n = i /\ j \in Nat /\ i \in 0..(2 * Bits) /\ i <= 2 * Bits + 1
        /\ j \in 0..(2 * Bits + 1)
    BY <1>1, <1>2, <1>3, <1>4
  <2>2. 2 ^ i = 2 ^ j * 2 ^ n
    BY <1>4, <2>1, PowerSum
  <2>3. 2 ^ (i + 1) = 2 * 2 ^ i
    BY <2>1, WidthAssumption
  <2>4. 2 ^ n \in Nat \ {0} /\ 2 ^ j \in Nat \ {0}
    BY <1>4, <2>1, PowerFacts
  <2> DEFINE p == 2 ^ n
             q == 2 ^ j
             d == 2 ^ i
             e == 2 ^ (i + 1)
  <2>5. d = q * p /\ e = 2 * d /\ p \in Nat \ {0} /\ q \in Nat \ {0} /\ q <= y /\ x < e
    BY <1>2, <1>3, <2>2, <2>3, <2>4
  <2> HIDE DEF p, q, d, e
  <2>6. q * p <= y * p
    BY <1>6, <2>5
  <2>7. y * p \in Nat /\ d \in Nat
    BY <1>6, <2>5
  <2>8. x < 2 * (y * p)
    BY <1>6, <2>5, <2>6, <2>7
  <2> QED
    BY <2>8 DEF p
<1> DEFINE a == LeftmostBit(Top(x))
           b == LeftmostBit(Top(y))
           c == One(High(x) # 0)
           d == One(High(y) # 0)
<1>9. a \in 0..(Bits - 1) /\ b \in 0..(Bits - 1)
  <2>1. Top(x) \in Word /\ Top(y) \in Word
    BY HalvesFacts DEF Top
  <2> QED
    BY <2>1, LeftmostBitIsExact
<1>10. skew = a - b /\ n = skew + (c - d) * Bits /\ c \in {0, 1} /\ d \in {0, 1}
  BY DEF Skew, Places, One
<1>11. d = 0 => High(y) = 0
  BY DEF One
<1>12. CASE n < Bits
  <2>1. by = n /\ (skew = 0 <=> n = 0)
    <3> HIDE DEF a, b, c, d, n, skew
    <3>1. skew \in (1 - Bits)..(Bits - 1)
      BY <1>1, <1>9, <1>10
    <3>2. (c - d) * Bits \in {0, Bits, -Bits}
      BY <1>1, <1>10
    <3>3. \/ (c - d) * Bits = 0 /\ n = skew
          \/ (c - d) * Bits = Bits /\ n = skew + Bits /\ skew < 0
      BY <1>1, <1>4, <1>10, <1>12, <3>1, <3>2
    <3>4. n \in 0..(Bits - 1) /\ (n = skew \/ n = skew + Bits)
      BY <1>1, <1>4, <1>12, <3>3
    <3>5. skew % Bits = n
      BY <1>1, <3>1, <3>4
    <3> QED
      BY <1>1, <3>1, <3>3, <3>4, <3>5
  <2>2. n \in 0..(Bits - 1)
    <3> HIDE DEF n
    <3> QED
      BY <1>1, <1>4, <1>12
  <2>3. Pair(High(y) * 2 ^ n + (IF n = 0 THEN 0 ELSE Low(y) \div 2 ^ (Bits - n)), Low(y) * 2 ^ n) = y * 2 ^ n
    BY <1>7, <2>2, ShiftedIsExact
  <2>4. shifted = Pair(High(y) * 2 ^ n + (IF n = 0 THEN 0 ELSE Low(y) \div 2 ^ (Bits - n)), Low(y) * 2 ^ n)
    <3> HIDE DEF n, by, skew
    <3> QED
      BY <2>1
  <2> HIDE DEF shifted, n
  <2> QED
    BY <1>5, <1>8, <1>12, <2>3, <2>4 DEF n
<1>13. CASE n >= Bits
  <2>1. by = skew /\ skew \in 0..(Bits - 1) /\ n = skew + Bits /\ d = 0
    <3> HIDE DEF a, b, c, d, n, skew
    <3>1. skew \in (1 - Bits)..(Bits - 1)
      BY <1>1, <1>9, <1>10
    <3>2. (c - d) * Bits \in {0, Bits, -Bits} /\ ((c - d) * Bits = Bits => d = 0)
      BY <1>1, <1>10
    <3>3. (c - d) * Bits = Bits /\ n = skew + Bits
      BY <1>1, <1>4, <1>10, <1>13, <3>1, <3>2
    <3>4. skew \in 0..(Bits - 1) /\ d = 0
      BY <1>1, <1>13, <3>1, <3>2, <3>3
    <3>5. skew % Bits = skew
      BY <1>1, <3>4
    <3> QED
      BY <3>3, <3>4, <3>5
  <2> DEFINE p == 2 ^ skew
  <2>2. p \in Nat \ {0} /\ 2 ^ n = p * M
    <3>1. skew \in Nat /\ skew + Bits <= 2 * Bits + 1 /\ skew \in 0..(2 * Bits + 1)
      <4> HIDE DEF skew
      <4> QED
        BY <1>1, <2>1
    <3> HIDE DEF n, skew
    <3>2. 2 ^ (skew + Bits) = 2 ^ skew * 2 ^ Bits
      BY <1>1, <3>1, PowerSum
    <3> QED
      BY <2>1, <3>1, <3>2, PowerFacts, WidthAssumption
  <2>3. y * 2 ^ n = (y * p) * M
    <3> HIDE DEF n, p
    <3> QED
      BY <1>6, <2>2, WidthFacts
  <2>4. y * p \in Nat /\ y * p < M
    <3> DEFINE r == y * p
    <3>1. r \in Nat
      <4> HIDE DEF p
      <4> QED
        BY <1>6, <2>2
    <3>2. r * M < D
      BY <1>7, <2>3
    <3> HIDE DEF r
    <3>3. r \in Word /\ M \in Nat
      <4>1. r * M + 0 < D /\ 0 \in Word
        BY <3>1, <3>2, WidthFacts DEF Word
      <4> QED
        BY <3>1, <4>1, PairIsExact, WidthFacts
    <3>4. r < M
      BY <3>1, <3>3 DEF Word
    <3> QED
      BY <3>1, <3>4 DEF r
  <2>5. shifted = y * p
    <3>1. y * p < D
      <4> DEFINE r == y * p
      <4>1. r \in Nat /\ r < M
        BY <2>4
      <4> HIDE DEF r
      <4>2. r < D
        BY <4>1, WidthFacts
      <4> QED
        BY <4>2 DEF r
    <3>2. Pair(High(y) * 2 ^ skew + (IF skew = 0 THEN 0 ELSE Low(y) \div 2 ^ (Bits - skew)), Low(y) * 2 ^ skew) = y * 2 ^ skew
      BY <2>1, <3>1, ShiftedIsExact
    <3>3. shifted = Pair(High(y) * 2 ^ skew + (IF skew = 0 THEN 0 ELSE Low(y) \div 2 ^ (Bits - skew)), Low(y) * 2 ^ skew)
      <4> HIDE DEF skew, by
      <4> QED
        BY <2>1
    <3> QED
      BY <3>2, <3>3
  <2>6. Pair(Low(shifted), 0) = (y * p) * M
    <3> DEFINE r == y * p
    <3>1. r \in Nat /\ r < M /\ shifted = r
      BY <2>4, <2>5
    <3> HIDE DEF r, shifted
    <3>2. r % M = r /\ 0 % M = 0
      BY <3>1, WidthFacts
    <3>3. (r % M) % M = r /\ r * M + 0 = r * M
      BY <3>1, <3>2, WidthFacts
    <3> QED
      BY <3>1, <3>2, <3>3 DEF Pair, Low, r
  <2>7. ~(n < Bits)
    <3> HIDE DEF n
    <3> QED
      BY <1>1, <1>4, <1>13
  <2> HIDE DEF shifted
  <2> QED
    BY <1>5, <1>8, <2>3, <2>6, <2>7
<1> QED
  <2>1. n < Bits \/ n >= Bits
    <3> HIDE DEF n
    <3> QED
      BY <1>1, <1>4
  <2> QED
    BY <1>12, <1>13, <2>1

(* What the division keeps of the dividend: with the bits of the quotient   *)
(* found so far, it makes up the dividend.                                 *)
Remains(s, x, u) ==
  /\ s.x \in Nat /\ s.x < u
  /\ x = s.x + s.z * u
  /\ s.y = u \div 2

LEMMA SubtractedRemains ==
  ASSUME NEW x \in Wide, NEW u \in Nat \ {0}, NEW s \in Remainder, Remains(s, x, 2 * u)
  PROVE  Remains(Subtracted(s), x, u)
<1> DEFINE r == s.x
           z == s.z
           b == One(r >= u)
           w == 2 * z + b
           rr == IF r >= u THEN r - u ELSE r
<1>1. r \in Nat /\ r < 2 * u /\ x = r + z * (2 * u) /\ s.y = u /\ z \in Nat /\ x \in Nat /\ x < D
  BY WidthFacts DEF Remains, Remainder, Wide
<1>2. b \in {0, 1} /\ (b = 1 <=> r >= u)
  BY DEF One
<1>3. Subtracted(s) = [x |-> rr, y |-> u \div 2, z |-> w % D]
  BY <1>1 DEF Subtracted
<1> HIDE DEF r, z, b
<1>4. w \in Nat /\ w * u = z * (2 * u) + b * u /\ b * u = (IF b = 1 THEN u ELSE 0)
  BY <1>1, <1>2
<1> HIDE DEF w
<1>5. rr \in Nat /\ rr < u /\ x = rr + w * u
  <2>1. z * (2 * u) \in Nat
    BY <1>1
  <2> QED
    BY <1>1, <1>2, <1>4, <2>1
<1> HIDE DEF rr
<1>6. w < D
  <2>1. w <= w * u /\ w * u \in Nat
    BY <1>4
  <2> QED
    BY <1>1, <1>4, <1>5, <2>1, WidthFacts
<1>7. w % D = w
  BY <1>4, <1>6, WidthFacts
<1> QED
  BY <1>3, <1>5, <1>7 DEF Remains

(* The quotient of the code is the quotient, whatever the width of a word   *)
(* (the 64-bit division of the ratios and of the rate).                    *)
THEOREM DivisionIsExact ==
  ASSUME NEW x \in Wide, NEW y \in Wide \ {0}
  PROVE  Uint64DividedByUint64(x, y) = x \div y
<1> DEFINE n == Places(x, y)
           N == BitsOfQuotient(n)
           u(k) == y * 2 ^ (N - k)
<1>1. n \in Int /\ N \in Nat /\ N = IF n < 0 THEN 0 ELSE n + 1
  BY PlacesType DEF BitsOfQuotient
<1>2. x \in Nat /\ y \in Nat /\ y > 0
  BY HalvesFacts
<1>3. PICK run : Divides(run, x, y) /\ Uint64DividedByUint64(x, y) = run[N].z
  <2>1. x \in Int /\ y \in Int
    BY <1>2
  <2> QED
    BY <1>2, <2>1, QuotientUnrolls
<1>4. /\ run[0] = [x |-> x, y |-> Aligned(x, y), z |-> 0]
      /\ \A k \in 1..N : run[k] = Subtracted(run[k - 1])
      /\ \A k \in 0..N : run[k] \in Remainder
  BY <1>3 DEF Divides
<1>5. Leftmost(x) \in 0..(2 * Bits - 1) /\ Leftmost(y) \in 0..(2 * Bits - 1)
      /\ n = Leftmost(x) - Leftmost(y) /\ Bits \in Nat /\ Bits >= 4
  BY LeftmostIsExact, PlacesIsExact, PowerFacts
<1>6. CASE n < 0
  <2> DEFINE i == Leftmost(x)
             j == Leftmost(y)
  <2>1. i \in Nat /\ i + 1 \in Nat /\ j \in Nat /\ i + 1 <= j /\ j <= 2 * Bits + 1
        /\ i + 1 \in 0..(2 * Bits + 1) /\ j \in 0..(2 * Bits + 1)
    <3> HIDE DEF n, i, j
    <3> QED
      BY <1>5, <1>6 DEF i, j
  <2>2. x < 2 ^ (i + 1) /\ 2 ^ j <= y
    BY <1>2, LeftmostIsExact
  <2>3. 2 ^ (i + 1) <= 2 ^ j
    <3> HIDE DEF i, j
    <3> QED
      BY <2>1, PowerGrows
  <2>4. 2 ^ (i + 1) \in Nat /\ 2 ^ j \in Nat
    BY <2>1, PowerFacts
  <2>5. x < y
    BY <1>2, <2>2, <2>3, <2>4
  <2>6. x \div y = 0
    BY <1>2, <2>5
  <2>7. N = 0
    BY <1>1, <1>6
  <2> HIDE DEF N
  <2> QED
    BY <1>3, <1>4, <2>6, <2>7
<1>7. CASE n >= 0
  <2> HIDE DEF n, N
  <2>1. N = n + 1 /\ n \in Nat /\ N <= 2 * Bits
    BY <1>1, <1>5, <1>7
  <2> DEFINE T == {k \in Nat : k \in 0..N => Remains(run[k], x, u(k))}
  <2>2. \A k \in 0..N : u(k) \in Nat \ {0}
    <3> TAKE k \in 0..N
    <3> DEFINE p == 2 ^ (N - k)
    <3>1. p \in Nat \ {0}
      BY <1>1, <1>5, <2>1, PowerFacts
    <3> HIDE DEF p
    <3>2. y * p \in Nat \ {0}
      BY <1>2, <3>1
    <3> QED
      BY <3>2 DEF p
  <2>3. \A k \in 0..n : u(k) = 2 * u(k + 1)
    <3> TAKE k \in 0..n
    <3>1. N - (k + 1) \in 0..(2 * Bits) /\ N - k = (N - (k + 1)) + 1
      BY <1>1, <1>5, <2>1
    <3> DEFINE p == 2 ^ (N - (k + 1))
    <3>2. 2 ^ (N - k) = 2 * p /\ p \in Nat \ {0}
      BY <1>1, <1>5, <3>1, WidthAssumption, PowerFacts
    <3> HIDE DEF p
    <3>3. y * (2 * p) = 2 * (y * p)
      BY <1>2, <3>2
    <3> QED
      BY <3>2, <3>3 DEF p
  <2>4. 0 \in T
    <3>1. Places(x, y) >= 0
      BY <1>7 DEF n
    <3>2. Aligned(x, y) = y * 2 ^ n /\ x < 2 * (y * 2 ^ n)
      BY <1>2, <3>1, AlignedIsExact DEF n
    <3>3. 0 \in 0..n /\ 0 + 1 = 1 /\ N - 1 = n /\ 1 \in 0..N
      BY <2>1
    <3> DEFINE v == u(1)
    <3>4. v = y * 2 ^ n /\ u(0) = 2 * v /\ v \in Nat \ {0}
      BY <2>2, <2>3, <3>3
    <3> HIDE DEF u, v
    <3>5. Aligned(x, y) = v /\ x < u(0) /\ u(0) \div 2 = v
      BY <3>2, <3>4
    <3>6. x = x + 0 * u(0)
      BY <1>2, <3>4
    <3>7. Remains(run[0], x, u(0))
      BY <1>2, <1>4, <3>5, <3>6 DEF Remains
    <3> QED
      BY <3>7
  <2>5. \A k \in T : k + 1 \in T
    <3> SUFFICES ASSUME NEW k \in T, k + 1 \in 0..N PROVE Remains(run[k + 1], x, u(k + 1))
      OBVIOUS
    <3>1. k \in Nat /\ k \in 0..n /\ k \in 0..N /\ k + 1 \in 1..N /\ (k + 1) - 1 = k
      BY <2>1
    <3>2. Remains(run[k], x, u(k))
      BY <3>1
    <3>3. run[k] \in Remainder /\ run[k + 1] = Subtracted(run[k])
      BY <1>4, <3>1
    <3>4. u(k) = 2 * u(k + 1) /\ u(k + 1) \in Nat \ {0}
      BY <2>2, <2>3, <3>1
    <3> HIDE DEF u, T
    <3>5. Remains(run[k], x, 2 * u(k + 1))
      BY <3>2, <3>4
    <3> QED
      BY <3>3, <3>4, <3>5, SubtractedRemains
  <2>6. Nat \subseteq T
    <3>1. T \in SUBSET Nat
      OBVIOUS
    <3> HIDE DEF T
    <3> QED
      BY <2>4, <2>5, <3>1, SetInduction
  <2>7. Remains(run[N], x, u(N)) /\ run[N] \in Remainder
    <3>1. N \in T /\ N \in 0..N
      <4> HIDE DEF T
      <4> QED
        BY <1>1, <2>6
    <3> QED
      BY <1>4, <3>1
  <2>8. u(N) = y
    <3>1. N - N = 0 /\ 2 ^ 0 = 1 /\ y * 1 = y
      BY <1>1, <1>2, WidthAssumption
    <3>2. 2 ^ (N - N) = 1
      BY <3>1
    <3> QED
      BY <3>1, <3>2
  <2> DEFINE r == run[N].x
             z == run[N].z
  <2> HIDE DEF u, T
  <2>9. r \in Nat /\ r < y /\ x = r + z * y /\ z \in Nat
    BY <2>7, <2>8, WidthFacts DEF Remains, Remainder, Wide
  <2> HIDE DEF r, z
  <2>10. x \div y = z
    BY <1>2, <2>9
  <2> QED
    BY <1>3, <2>10 DEF z
<1> QED
  <2>1. n < 0 \/ n >= 0
    BY <1>1
  <2> QED
    BY <1>6, <1>7, <2>1

----------------------------------------------------------------------------
(* Products, exactly.                                                      *)

(* The product of words, as long as the cross products do not overflow the *)
(* word they are added in.                                                 *)
LEMMA MultiplyIsExact ==
  ASSUME NEW a \in 0..(Half - 1), NEW b \in 0..(Half - 1), NEW c \in 0..(Half - 1), NEW d \in 0..(Half - 1),
         (b * d) \div Half + (a * d + c * b) < M
  PROVE  Multiply(a * Half + b, c * Half + d) = (a * Half + b) * (c * Half + d)
<1> DEFINE H == Half
           v == a * H + b
           w == c * H + d
           t == b * d
           tq == t \div H
           tr == t % H
           cross == a * d + c * b
           y == tq + cross
           q == y \div H
           r == y % H
           top == q + a * c
           low == tr + r * H
<1>1. H \in Nat \ {0} /\ H >= 2 /\ M = H * H /\ M \in Nat \ {0}
      /\ a \in 0..(H - 1) /\ b \in 0..(H - 1) /\ c \in 0..(H - 1) /\ d \in 0..(H - 1)
  BY WidthFacts DEF M
<1>2. v \div H = a /\ v % H = b /\ w \div H = c /\ w % H = d
  BY <1>1, DivModUnique
<1>3. y < M
  OBVIOUS
<1> HIDE DEF H, v, w, M
<1>4. t \in Nat /\ cross \in Nat /\ a * c \in Nat
  <2>1. a * d \in Nat /\ c * b \in Nat
    BY <1>1
  <2> QED
    BY <1>1, <2>1
<1> HIDE DEF t, cross
<1>5. tq \in Nat /\ tr \in 0..(H - 1) /\ t = tq * H + tr
  <2>1. tq \in Int /\ tr \in 0..(H - 1) /\ t = tq * H + tr
    <3>1. t \in Int /\ H \in Nat \ {0}
      BY <1>1, <1>4
    <3> QED
      BY <3>1, DivMod
  <2>2. t < (t + 1) * H
    BY <1>1, <1>4
  <2>3. tq \in 0..(t + 1 - 1)
    <3>1. t + 1 \in Nat
      BY <1>4
    <3> QED
      BY <1>1, <1>4, <2>2, <3>1, QuotientBound
  <2> QED
    BY <2>1, <2>3
<1> HIDE DEF tq, tr
<1>6. y \in 0..(M - 1)
  BY <1>1, <1>3, <1>4, <1>5
<1> HIDE DEF y
<1>7. q \in 0..(H - 1) /\ r \in 0..(H - 1) /\ y = q * H + r
  <2>0. y \in Int /\ y \in Nat /\ H \in Nat \ {0} /\ H \in Nat /\ y < H * H
    BY <1>1, <1>6
  <2>1. q \in Int /\ r \in 0..(H - 1) /\ y = q * H + r
    BY <2>0, DivMod
  <2>2. q \in 0..(H - 1)
    BY <2>0, QuotientBound
  <2> QED
    BY <2>1, <2>2
<1>8. Multiply(v, w) = Pair(top, low)
  <2>1. tq + (cross % M) = y /\ y % M = y
    <3>1. cross < M
      <4>1. tq + cross < M
        BY <1>3 DEF y
      <4>2. M \in Int
        BY <1>1
      <4> QED
        BY <1>4, <1>5, <4>1, <4>2
    <3>2. cross % M = cross
      BY <1>1, <1>4, <3>1
    <3>3. y % M = y
      BY <1>1, <1>6
    <3> QED
      BY <3>2, <3>3 DEF y
  <2>2. Multiply(v, w) = LET yy == (tq + (cross % M)) % M IN Pair(yy \div H + a * c, tr + (yy % H) * H)
    BY <1>2 DEF Multiply, H, tq, tr, t, cross
  <2> QED
    BY <2>1, <2>2
<1> HIDE DEF q, r
<1>9. low \in 0..(M - 1)
  <2>1. r * H <= (H - 1) * H /\ (H - 1) * H = H * H - H /\ r * H \in Nat
    BY <1>1, <1>7
  <2> QED
    BY <1>1, <1>5, <2>1
<1>10. top \in 0..(M - 1)
  <2>1. a * c <= (H - 1) * (H - 1)
    <3>1. a * c <= a * (H - 1) /\ a * (H - 1) <= (H - 1) * (H - 1) /\ a * (H - 1) \in Int /\ (H - 1) * (H - 1) \in Int
      BY <1>1
    <3> QED
      BY <1>4, <3>1
  <2>2. (H - 1) * (H - 1) = H * H - H - H + 1
    BY <1>1
  <2> QED
    BY <1>1, <1>4, <1>7, <2>1, <2>2
<1>11. Pair(top, low) = top * M + low
  <2> HIDE DEF top, low
  <2>1. top % M = top /\ low % M = low
    BY <1>1, <1>9, <1>10
  <2> QED
    BY <2>1 DEF Pair
<1>12. top * M + low = v * w
  <2>1. top * M = (q * H) * H + (a * c) * (H * H)
    BY <1>1, <1>4, <1>7
  <2>2. (q * H) * H + r * H = y * H
    BY <1>1, <1>7
  <2>3. y * H = tq * H + cross * H
    BY <1>1, <1>4, <1>5 DEF y
  <2>4. cross * H = (a * d) * H + (c * b) * H
    <3>1. a * d \in Nat /\ c * b \in Nat
      BY <1>1
    <3> QED
      BY <1>1, <3>1 DEF cross
  <2>5. v * w = (a * c) * (H * H) + ((a * d) * H + (c * b) * H) + b * d
    <3>1. (a * H + b) * (c * H + d) = (a * H) * (c * H) + (a * H) * d + b * (c * H) + b * d
      BY <1>1
    <3>2. (a * H) * (c * H) = (a * c) * (H * H) /\ (a * H) * d = (a * d) * H /\ b * (c * H) = (c * b) * H
      BY <1>1
    <3>3. (a * c) * (H * H) \in Int /\ (a * d) * H \in Int /\ (c * b) * H \in Int /\ b * d \in Int
      BY <1>1
    <3> QED
      BY <3>1, <3>2, <3>3 DEF v, w
  <2>6. (q * H) * H \in Int /\ (a * c) * (H * H) \in Int /\ r * H \in Int /\ tq * H \in Int /\ cross * H \in Int
    BY <1>1, <1>4, <1>5, <1>7
  <2> QED
    BY <1>5, <2>1, <2>2, <2>3, <2>4, <2>5, <2>6 DEF t
<1> QED
  BY <1>8, <1>11, <1>12 DEF v, w, H

(* The halves of a word. *)
LEMMA HalvesOfWord ==
  ASSUME NEW v \in Word
  PROVE  /\ v \div Half \in 0..(Half - 1) /\ v % Half \in 0..(Half - 1)
         /\ v = (v \div Half) * Half + (v % Half)
<1>1. v \in Nat /\ v \in Int /\ Half \in Nat \ {0} /\ Half \in Nat /\ v < Half * Half
  BY WidthFacts DEF Word, M
<1>2. v \div Half \in 0..(Half - 1)
  BY <1>1, QuotientBound
<1>3. v % Half \in 0..(Half - 1) /\ v = (v \div Half) * Half + (v % Half)
  BY <1>1, DivMod
<1> QED
  BY <1>2, <1>3

(* The upper of the two products of halves is less than half a word. *)
LEMMA LowerProduct ==
  ASSUME NEW b \in 0..(Half - 1), NEW d \in 0..(Half - 1)
  PROVE  (b * d) \div Half \in 0..(Half - 1)
<1>1. Half \in Nat \ {0}
  BY WidthFacts
<1>2. b * d \in Nat /\ b * d <= b * Half /\ b * Half <= (Half - 1) * Half
  BY <1>1
<1>3. (Half - 1) * Half = Half * Half - Half /\ b * Half \in Int /\ Half * Half \in Int
  BY <1>1
<1>4. b * d < Half * Half
  BY <1>1, <1>2, <1>3
<1> QED
  BY <1>1, <1>2, <1>4, QuotientBound

(* If the upper halves do not add up to more than a half, no carry is lost. *)
LEMMA NoCarryLost ==
  ASSUME NEW v \in Word, NEW w \in Word, v \div Half + w \div Half <= Half - 1
  PROVE  Multiply(v, w) = v * w
<1> DEFINE a == v \div Half
           b == v % Half
           c == w \div Half
           d == w % Half
           t == (b * d) \div Half
           H == Half
<1>1. a \in 0..(Half - 1) /\ b \in 0..(Half - 1) /\ v = a * Half + b
  BY HalvesOfWord
<1>2. c \in 0..(Half - 1) /\ d \in 0..(Half - 1) /\ w = c * Half + d
  BY HalvesOfWord
<1>3. a + c <= H - 1 /\ H \in Nat \ {0} /\ M = H * H /\ H >= 2
  BY WidthFacts DEF M
<1> HIDE DEF a, b, c, d
<1>4. t \in 0..(Half - 1)
  BY <1>1, <1>2, LowerProduct
<1> HIDE DEF t
<1>5. a * d + c * b <= (H - 1) * (H - 1)
  <2>1. a * d <= a * (H - 1) /\ c * b <= c * (H - 1)
    BY <1>1, <1>2, <1>3
  <2>2. a * (H - 1) + c * (H - 1) = (a + c) * (H - 1)
    BY <1>1, <1>2, <1>3
  <2>3. (a + c) * (H - 1) <= (H - 1) * (H - 1)
    BY <1>1, <1>2, <1>3
  <2>4. a * d \in Int /\ c * b \in Int /\ a * (H - 1) \in Int /\ c * (H - 1) \in Int /\ (H - 1) * (H - 1) \in Int
    BY <1>1, <1>2, <1>3
  <2> QED
    BY <2>1, <2>2, <2>3, <2>4
<1>6. t + (a * d + c * b) < M
  <2>1. (H - 1) * (H - 1) = H * H - H - H + 1 /\ a * d \in Int /\ c * b \in Int /\ H * H \in Int
    BY <1>1, <1>2, <1>3
  <2> QED
    BY <1>3, <1>4, <1>5, <2>1
<1> QED
  BY <1>1, <1>2, <1>6, MultiplyIsExact DEF t

(* The 64-bit product of a word and a word. *)
LEMMA WordProductIsExact ==
  ASSUME NEW v \in Word, NEW w \in Word, v \div Half + w \div Half <= Half - 1
  PROVE  Uint64TimesUint32(v, w) = v * w /\ v * w \in Wide
<1> DEFINE p == v * w
<1>1. M \in Nat \ {0} /\ v \in 0..(M - 1) /\ w \in 0..(M - 1) /\ D = M * M
  BY WidthFacts DEF Word, D
<1>2. v % M = v /\ v \div M = 0
  BY <1>1
<1>3. Multiply(v, w) = p
  BY NoCarryLost
<1> HIDE DEF M, D
<1>4. p \in 0..(D - 1)
  <2>1. v * w <= v * (M - 1) /\ v * (M - 1) <= (M - 1) * (M - 1) /\ v * w \in Nat /\ v * (M - 1) \in Int
    BY <1>1
  <2>2. (M - 1) * (M - 1) = M * M - M - M + 1 /\ M * M \in Int
    BY <1>1
  <2> QED
    BY <1>1, <2>1, <2>2
<1> HIDE DEF p
<1>5. p \in Wide /\ p \in Int
  BY <1>4 DEF Wide
<1>6. High(p) \in 0..(M - 1) /\ Low(p) \in 0..(M - 1) /\ p = High(p) * M + Low(p)
  BY <1>5, HalvesFacts DEF Word
<1>7. Uint64TimesUint32(v, w) = Pair(0 * w + High(p), p)
  BY <1>2, <1>3 DEF Uint64TimesUint32, MultiplyHigh, High, Low, p
<1>8. (0 * w + High(p)) % M = High(p)
  BY <1>1, <1>6
<1>9. Uint64TimesUint32(v, w) = High(p) * M + Low(p)
  BY <1>7, <1>8 DEF Pair, Low
<1> QED
  BY <1>5, <1>6, <1>9 DEF p

(* Negation, magnitude and sign, of the number a pair stands for. *)
LEMMA NegatedIsExact ==
  ASSUME NEW x \in Wide
  PROVE  Negated(x) = IF x = 0 THEN 0 ELSE D - x
<1> DEFINE h == High(x)
           l == Low(x)
<1>1. M \in Nat \ {0} /\ D = M * M /\ h \in 0..(M - 1) /\ l \in 0..(M - 1) /\ x = h * M + l
  BY HalvesFacts, WidthFacts DEF D, Word
<1> HIDE DEF h, l, M, D
<1>2. (M - 1 - h) * M = M * M - M - h * M /\ (M - h) * M = M * M - h * M /\ h * M \in Nat /\ M * M \in Nat
  BY <1>1
<1>3. CASE l > 0
  <2>1. M - 1 - h \in 0..(M - 1) /\ M - l \in 0..(M - 1)
    BY <1>1, <1>3
  <2>2. (M - 1 - h) % M = M - 1 - h /\ (M - l) % M = M - l
    BY <1>1, <2>1
  <2>3. Negated(x) = (M - 1 - h) * M + (M - l)
    BY <1>1, <1>3, <2>2 DEF Negated, Pair, h, l
  <2> QED
    BY <1>1, <1>2, <1>3, <2>3
<1>4. CASE l = 0 /\ h > 0
  <2>1. M - h \in 0..(M - 1) /\ M - 1 - h + 1 = M - h
    BY <1>1, <1>4
  <2>2. (M - h) % M = M - h /\ (M - 0) % M = 0
    BY <1>1, <2>1
  <2>3. Negated(x) = (M - h) * M + 0
    BY <1>1, <1>4, <2>1, <2>2 DEF Negated, Pair, h, l
  <2>4. h * M > 0
    BY <1>1, <1>4
  <2> QED
    BY <1>1, <1>2, <1>4, <2>3, <2>4
<1>5. CASE l = 0 /\ h = 0
  <2>1. (M - 1 - 0 + 1) % M = 0 /\ (M - 0) % M = 0
    BY <1>1
  <2>2. Negated(x) = 0 * M + 0
    BY <1>1, <1>5, <2>1 DEF Negated, Pair, h, l
  <2> QED
    BY <1>1, <1>5, <2>2
<1> QED
  BY <1>1, <1>3, <1>4, <1>5

(* The pair of a signed number that fits in one. *)
Fits(v) == v \in Int /\ v >= -((M \div 2) * M) /\ v < (M \div 2) * M

LEMMA SignedPairIsExact ==
  ASSUME NEW v, Fits(v)
  PROVE  /\ v % D \in Wide
         /\ v % D = IF v < 0 THEN v + D ELSE v
         /\ Negative(v % D) <=> v < 0
         /\ Int64(v % D) = v
         /\ Magnitude(v % D) = Distance(v)
<1> DEFINE m == M \div 2
           x == v % D
           h == High(x)
<1>1. M \in Nat \ {0} /\ m \in Nat \ {0} /\ M = 2 * m /\ D = M * M /\ m * M \in Nat /\ v \in Int
      /\ v >= -(m * M) /\ v < m * M
  BY WidthFacts DEF D, Fits
<1> HIDE DEF M, m
<1>2. D = m * M + m * M /\ D \in Nat \ {0}
  <2>1. M * M = (m + m) * M /\ (m + m) * M = m * M + m * M /\ m * M > 0
    BY <1>1
  <2> QED
    BY <1>1, <2>1
<1> HIDE DEF D
<1>3. x = IF v < 0 THEN v + D ELSE v
  <2>1. v >= -D /\ v < D
    BY <1>1, <1>2
  <2> QED
    BY <1>1, <1>2, <2>1, ModOfBorrow
<1> HIDE DEF x
<1>4. x \in Wide /\ x \in Nat /\ x < D
  BY <1>1, <1>2, <1>3 DEF Wide
<1>5. h \in 0..(M - 1) /\ Low(x) \in 0..(M - 1) /\ x = h * M + Low(x)
  BY <1>4, HalvesFacts DEF Word
<1> HIDE DEF h
<1>6. h >= m <=> x >= m * M
  <2>1. h >= m => h * M >= m * M
    BY <1>1, <1>5
  <2>2. h < m => h * M <= m * M - M
    <3> SUFFICES ASSUME h <= m - 1 PROVE h * M <= m * M - M
      BY <1>1, <1>5
    <3>1. h * M <= (m - 1) * M
      BY <1>1, <1>5
    <3> QED
      BY <1>1, <3>1
  <2>3. h * M \in Nat
    BY <1>1, <1>5
  <2> QED
    BY <1>1, <1>5, <2>1, <2>2, <2>3
<1>7. Negative(x) <=> v < 0
  BY <1>1, <1>2, <1>3, <1>6 DEF Negative, h, m
<1>8. Int64(x) = v
  BY <1>1, <1>2, <1>3, <1>7 DEF Int64
<1>9. Magnitude(x) = Distance(v)
  <2>1. CASE v < 0
    <3>1. Negated(x) = D - x
      BY <1>1, <1>2, <1>3, <1>4, <2>1, NegatedIsExact
    <3> QED
      BY <1>1, <1>2, <1>3, <1>7, <2>1, <3>1 DEF Magnitude, Distance
  <2>2. CASE ~(v < 0)
    BY <1>3, <1>7, <2>2 DEF Magnitude, Distance
  <2> QED
    BY <2>1, <2>2
<1> QED
  BY <1>3, <1>4, <1>7, <1>8, <1>9 DEF x

(* The product of a negative number without a lower half and an offset. *)
LEMMA SignedProductIsExact ==
  ASSUME NEW g \in 0..(Half \div 8), NEW offset \in SignedWord
  PROVE  /\ Fits(-((g * Half) * offset))
         /\ Int64TimesInt64((-(g * Half)) % D, offset % D) = (-((g * Half) * offset)) % D
<1> DEFINE m == M \div 2
           e == M \div 8
           k == g * Half
           x == (-k) % D
           y == offset % D
           a == Magnitude(x)
           b == Magnitude(y)
           p == k * b
           z == Pair( Low(a) * High(b) + High(a) * Low(b) + MultiplyHigh(Low(a), Low(b)),
                      Low(a) * Low(b) )
<1>1. M \in Nat \ {0} /\ m \in Nat \ {0} /\ M = 2 * m /\ D = M * M /\ e \in Nat /\ m = 4 * e /\ M >= 4
      /\ Half \in Nat \ {0} /\ Half \div 8 \in Nat /\ Half = 8 * (Half \div 8)
      /\ e = (Half \div 8) * Half /\ D \in Nat \ {0}
  BY WidthFacts, EighthFacts DEF D
<1>2. g \in 0..(Half - 1) /\ g \in 0..(Half \div 8)
  <2> DEFINE f == Half \div 8
  <2>1. f \in Nat /\ Half = 8 * f /\ Half \in Nat \ {0} /\ g \in 0..f
    BY <1>1
  <2> HIDE DEF f
  <2> QED
    BY <2>1 DEF f
<1>3. k \in 0..e
  <2> DEFINE f == Half \div 8
  <2>1. f \in Nat /\ Half \in Nat /\ g \in 0..f /\ e = f * Half
    BY <1>1, <1>2
  <2> HIDE DEF f, e
  <2>2. g * Half <= f * Half /\ g * Half \in Nat
    BY <2>1
  <2> QED
    BY <2>1, <2>2
<1>4. offset \in Int /\ offset >= -m /\ offset < m
  BY <1>1 DEF SignedWord
<1> HIDE DEF M, D, m, e, k
<1>5. -k \in Int /\ -k >= -m /\ -k < m /\ Fits(-k) /\ Fits(offset)
  <2>1. m * M >= m /\ m * M \in Nat
    BY <1>1
  <2>2. -k \in Int /\ -k >= -m /\ -k < m
    BY <1>1, <1>3
  <2> QED
    BY <1>1, <1>4, <2>1, <2>2 DEF Fits, m
<1>6. a = Distance(-k) /\ (Negative(x) <=> -k < 0) /\ b = Distance(offset) /\ (Negative(y) <=> offset < 0)
  BY <1>5, SignedPairIsExact
<1>7. a = k /\ b \in 0..m /\ (Negative(x) <=> k > 0)
  BY <1>1, <1>3, <1>4, <1>6 DEF Distance
<1>8. Int64TimesInt64(x, y) = IF Negative(x) # Negative(y) THEN Negated(z) ELSE z
  BY DEF Int64TimesInt64
<1> HIDE DEF a, b, x, y
<1>9. a \in 0..(M - 1) /\ b \in 0..(M - 1) /\ k \in Nat /\ b \in Nat
  BY <1>1, <1>3, <1>7
<1>10. Low(a) = k /\ High(a) = 0 /\ Low(b) = b /\ High(b) = 0
  <2>1. a % M = a /\ a \div M = 0 /\ b % M = b /\ b \div M = 0
    BY <1>1, <1>9
  <2> QED
    BY <1>7, <2>1 DEF Low, High
<1>11. p \in Nat /\ p <= e * m /\ p < D /\ e * m < m * M /\ e * m \in Nat
  <2>1. k * b <= e * b /\ e * b <= e * m /\ k * b \in Nat
    BY <1>1, <1>3, <1>7
  <2>2. e < M
    BY <1>1
  <2>3. e * m < M * m /\ e * m \in Nat /\ M * m = m * M
    BY <1>1, <2>2
  <2>4. m * M <= M * M /\ m * M \in Nat
    BY <1>1
  <2> DEFINE em == e * m
             mm == m * M
             kb == k * b
  <2>5. kb \in Nat /\ kb <= em /\ em < mm /\ em \in Nat /\ mm <= D /\ mm \in Nat
    <3>1. k * b <= e * m
      <4>1. k * b \in Int /\ e * b \in Int /\ e * m \in Int
        BY <1>1, <1>9
      <4> QED
        BY <2>1, <4>1
    <3> QED
      BY <1>1, <2>1, <2>3, <2>4, <3>1
  <2> HIDE DEF em, mm, kb
  <2>6. kb < D
    BY <1>1, <2>5
  <2> QED
    BY <2>5, <2>6 DEF em, mm, kb
<1>12. MultiplyHigh(k, b) = p \div M
  <2> DEFINE f == Half \div 8
             H == Half
  <2>1. b \in Word /\ k \in Word
    BY <1>9, <1>7 DEF Word
  <2>2. f \in Nat /\ H = 8 * f /\ H \in Nat \ {0} /\ e = f * H /\ f * H \in Nat
    BY <1>1
  <2> HIDE DEF f, H
  <2>3. k < (f + 1) * H /\ b < (4 * f + 1) * H
    <3>1. (f + 1) * H = f * H + H /\ (4 * f + 1) * H = 4 * (f * H) + H
      BY <2>2
    <3> QED
      BY <1>1, <1>3, <1>7, <2>2, <3>1
  <2>4. k \div H \in 0..(f + 1 - 1) /\ b \div H \in 0..(4 * f + 1 - 1)
    <3>1. f + 1 \in Nat /\ 4 * f + 1 \in Nat
      BY <2>2
    <3> QED
      BY <1>9, <2>2, <2>3, <3>1, QuotientBound
  <2>5. k \div H + b \div H <= H - 1
    BY <2>2, <2>4
  <2>6. Multiply(k, b) = p
    BY <2>1, <2>5, NoCarryLost DEF H
  <2> QED
    BY <2>6 DEF MultiplyHigh, High
<1> HIDE DEF p
<1>13. p \in Wide /\ p \div M \in 0..(M - 1) /\ p % M \in 0..(M - 1) /\ p = (p \div M) * M + (p % M)
  <2>1. p \in Wide
    BY <1>1, <1>11 DEF Wide
  <2> QED
    BY <2>1, HalvesFacts DEF High, Low, Word
<1>14. z = p
  <2>1. k * 0 + 0 * b + p \div M = p \div M
    BY <1>9, <1>13
  <2>2. z = Pair(p \div M, p)
    BY <1>10, <1>12, <2>1 DEF p
  <2> DEFINE t == p \div M
  <2>3. t \in 0..(M - 1)
    BY <1>13
  <2> HIDE DEF t
  <2>4. t % M = t
    BY <1>1, <2>3
  <2>5. z = t * M + (p % M)
    BY <2>2, <2>4 DEF Pair, t
  <2> QED
    BY <1>13, <2>5 DEF t
<1> HIDE DEF z
<1> DEFINE v == -(k * offset)
<1>15. v = (IF offset < 0 THEN p ELSE -p) /\ v \in Int
  <2>1. CASE offset < 0
    <3>1. b = -offset
      BY <1>6, <2>1 DEF Distance
    <3>2. k * (-offset) = -(k * offset)
      BY <1>4, <1>9
    <3> QED
      BY <1>11, <2>1, <3>1, <3>2 DEF p
  <2>2. CASE ~(offset < 0)
    <3>1. b = offset
      BY <1>6, <2>2 DEF Distance
    <3> QED
      BY <1>11, <2>2, <3>1 DEF p
  <2> QED
    BY <2>1, <2>2
<1> HIDE DEF v
<1>16. Fits(v)
  BY <1>1, <1>11, <1>15 DEF Fits, m
<1>17. k = 0 => p = 0
  BY <1>9 DEF p
<1>18. v % D = IF v < 0 THEN v + D ELSE v
  BY <1>16, SignedPairIsExact
<1>19. Negated(p) = IF p = 0 THEN 0 ELSE D - p
  BY <1>13, NegatedIsExact
<1>20. Int64TimesInt64(x, y) = v % D
  <2>1. CASE k = 0
    BY <1>6, <1>7, <1>8, <1>14, <1>15, <1>17, <1>18, <1>19, <2>1
  <2>2. CASE k > 0 /\ offset < 0
    <3>1. Int64TimesInt64(x, y) = p
      BY <1>6, <1>7, <1>8, <1>14, <2>2
    <3> QED
      BY <1>11, <1>15, <1>18, <2>2, <3>1
  <2>3. CASE k > 0 /\ ~(offset < 0)
    <3>1. Int64TimesInt64(x, y) = Negated(p)
      BY <1>6, <1>7, <1>8, <1>14, <2>3
    <3> QED
      BY <1>1, <1>11, <1>15, <1>18, <1>19, <2>3, <3>1
  <2> QED
    BY <1>9, <2>1, <2>2, <2>3
<1> QED
  BY <1>16, <1>20 DEF v, k, x, y

----------------------------------------------------------------------------
(* Timestamps.                                                             *)

LEMMA CarryType ==
  ASSUME NEW t \in Timestamp, NEW s \in Int
  PROVE  Carry(t, s) \in Timestamp
<1>1. t.upper \in Int /\ t.lower \in Int /\ t.ns \in Int
  BY WidthFacts DEF Timestamp, SignedWord, Word
<1>2. t.upper + (t.lower + s) \div M \in Int /\ (t.lower + s) % M \in Word
  BY <1>1, WidthFacts DEF Word
<1>3. t.ns - s * Second \in Int
  BY <1>1, WidthFacts
<1>4. Signed(t.upper + (t.lower + s) \div M) \in SignedWord /\ Signed(t.ns - s * Second) \in SignedWord
  BY <1>2, <1>3, SignedType
<1> QED
  BY <1>2, <1>4 DEF Carry, Timestamp

LEMMA NormalizedType ==
  ASSUME NEW t \in Timestamp
  PROVE  NormalizedTimestamp(WithinASecond(t)) \in Timestamp
<1>1. Carry(t, 1) \in Timestamp /\ Carry(t, -1) \in Timestamp
  BY CarryType
<1>2. WithinASecond(t) \in Timestamp
  BY <1>1 DEF WithinASecond
<1>3. Carry(WithinASecond(t), 1) \in Timestamp /\ Carry(WithinASecond(t), -1) \in Timestamp
  BY <1>2, CarryType
<1> QED
  BY <1>2, <1>3 DEF NormalizedTimestamp

LEMMA SumAndDifferenceType ==
  ASSUME NEW a \in Timestamp, NEW b \in Timestamp
  PROVE  TimestampSum(a, b) \in Timestamp /\ TimestampDifference(a, b) \in Timestamp
<1>1. /\ a.upper \in Int /\ a.lower \in Int /\ a.ns \in Int
      /\ b.upper \in Int /\ b.lower \in Int /\ b.ns \in Int
  BY WidthFacts DEF Timestamp, SignedWord, Word
<1>2. [ upper |-> Signed(a.upper + b.upper + (a.lower + b.lower) \div M),
        lower |-> (a.lower + b.lower) % M,
        ns    |-> Signed(a.ns + b.ns) ] \in Timestamp
  <2>1. a.upper + b.upper + (a.lower + b.lower) \div M \in Int /\ (a.lower + b.lower) % M \in Word
    BY <1>1, WidthFacts DEF Word
  <2>2. Signed(a.upper + b.upper + (a.lower + b.lower) \div M) \in SignedWord
    BY <2>1, SignedType
  <2>3. Signed(a.ns + b.ns) \in SignedWord
    BY <1>1, SignedType
  <2> QED
    BY <2>1, <2>2, <2>3 DEF Timestamp
<1>3. [ upper |-> Signed(a.upper - b.upper - One(b.lower > a.lower)),
        lower |-> (a.lower - b.lower) % M,
        ns    |-> Signed(a.ns - b.ns) ] \in Timestamp
  <2>1. a.upper - b.upper - One(b.lower > a.lower) \in Int /\ (a.lower - b.lower) % M \in Word
    BY <1>1, WidthFacts DEF Word, One
  <2>2. Signed(a.upper - b.upper - One(b.lower > a.lower)) \in SignedWord
    BY <2>1, SignedType
  <2>3. Signed(a.ns - b.ns) \in SignedWord
    BY <1>1, SignedType
  <2> QED
    BY <2>1, <2>2, <2>3 DEF Timestamp
<1> QED
  BY <1>2, <1>3, NormalizedType DEF TimestampSum, TimestampDifference

LEMMA IntervalType ==
  ASSUME NEW a \in Timestamp, NEW b \in Timestamp
  PROVE  Interval(TimestampDifference(a, b)) \in Wide
<1> DEFINE d == TimestampDifference(a, b)
<1>1. d \in Timestamp
  BY SumAndDifferenceType
<1> HIDE DEF d
<1>2. d.lower \in Int /\ d.ns \in Int
  BY <1>1, WidthFacts DEF Timestamp, SignedWord, Word
<1>3. Uint64TimesUint32(d.lower, Second) \in Int
  <2>1. Second \in Int
    BY WidthFacts
  <2>2. Uint64TimesUint32(d.lower, Second) \in Wide
    BY <1>2, <2>1, WideProductType
  <2> QED
    BY <2>2 DEF Wide
<1>4. (Uint64TimesUint32(d.lower, Second) + (d.ns % M)) % D \in Wide
  BY <1>2, <1>3, WidthFacts DEF Wide
<1> QED
  BY <1>4 DEF Interval, d

(* The search for the leading bit of a responder's interval ends. *)
LEMMA HeadroomType ==
  ASSUME NEW x
  PROVE  Headroom(x) \in 0..(Bits - 1)
<1> DEFINE T == {s \in 0..(Bits - 1) : s = Bits - 1 \/ High(x) \div 2 ^ (Bits - 1 - s) # 0}
<1>1. T \in SUBSET Nat /\ Bits - 1 \in T
  BY BitsFacts
<1>2. PICK s \in T : \A r \in T : ~(r < s)
  <2> HIDE DEF T
  <2> QED
    BY <1>1, LeastElement
<1>3. s > 0 => High(x) \div 2 ^ (Bits - s) = 0
  <2> SUFFICES ASSUME s > 0 PROVE High(x) \div 2 ^ (Bits - s) = 0
    OBVIOUS
  <2>1. s - 1 \in 0..(Bits - 1) /\ s - 1 < s /\ Bits - 1 - (s - 1) = Bits - s /\ s - 1 # Bits - 1
    BY BitsFacts
  <2>2. s - 1 \notin T
    BY <1>2, <2>1
  <2> QED
    BY <2>1, <2>2
<1> QED
  BY <1>2, <1>3 DEF Headroom

LEMMA RateRatioType ==
  ASSUME NEW x \in Wide, NEW y \in Wide
  PROVE  RateRatio(x, y) \in Word
<1> DEFINE s == Headroom(x)
<1>1. s \in 0..(Bits - 1)
  BY HeadroomType
<1> HIDE DEF s
<1>2. 2 ^ s \in Nat \ {0} /\ 2 ^ (Bits - 1 - s) \in Nat \ {0}
  BY <1>1, BitsFacts
<1>3. x \in Int /\ y \in Int
  BY DEF Wide
<1>4. Uint64LShift(x, s) \in Int /\ Scaled(y, s) \in Int
  BY <1>2, <1>3, WidthFacts DEF Uint64LShift, Scaled
<1>5. Uint64DividedByUint64(Uint64LShift(x, s), Scaled(y, s)) \in Int
  BY <1>4, QuotientType DEF Wide
<1> QED
  BY <1>5, HalvesType DEF RateRatio, s

LEMMA PropDelayType ==
  ASSUME NEW x \in Wide, NEW y \in Wide, NEW ratio \in Word
  PROVE  PropDelay(x, y, ratio) \in Word
<1>1. x \in Int /\ y \in Int /\ ratio \in Int
  BY DEF Wide, Word
<1>2. Uint64TimesUint32(y, ratio) \in Int
  BY <1>1, WideProductType DEF Wide
<1>3. 2 ^ (Bits - 1) \in Nat \ {0} /\ 2 ^ 1 \in Nat \ {0}
  BY BitsFacts
<1>4. Uint64RShift(Uint64TimesUint32(y, ratio), Bits - 1) \in Int
  BY <1>2, <1>3 DEF Uint64RShift
<1> DEFINE e == Uint64RShift(Uint64TimesUint32(y, ratio), Bits - 1)
<1> HIDE DEF e
<1>5. (e - x) % D \in Int
  BY <1>1, <1>4, WidthFacts DEF e
<1>6. Uint64RShift((e - x) % D, 1) \in Int
  BY <1>3, <1>5 DEF Uint64RShift
<1> QED
  BY <1>6, HalvesType DEF PropDelay, e

LEMMA ElapsedType ==
  ASSUME NEW a \in Timestamp, NEW b \in Timestamp
  PROVE  Nanoseconds(a) \in Int /\ Elapsed(a, b) \in Int
<1>1. \A t \in Timestamp : Nanoseconds(t) \in Int
  <2> SUFFICES ASSUME NEW t \in Timestamp PROVE Nanoseconds(t) \in Int
    OBVIOUS
  <2>1. t.upper \in Int /\ t.lower \in Int /\ t.ns \in Int
    BY WidthFacts DEF Timestamp, SignedWord, Word
  <2>2. t.upper * M + t.lower \in Int
    BY <2>1, WidthFacts
  <2> QED
    BY <2>1, <2>2, WidthFacts DEF Nanoseconds
<1> QED
  BY <1>1 DEF Elapsed

----------------------------------------------------------------------------
(* Timestamps, in plain seconds and nanoseconds.                           *)
Seconds(t) == t.upper * M + t.lower

(* A carry keeps the time, unless the upper seconds leave their word. *)
LEMMA CarryIsExact ==
  ASSUME NEW t, t.upper \in (3 - M \div 2)..(M \div 2 - 4), t.lower \in Word, NEW s \in {1, -1},
         t.ns \in Int, t.ns - s * Second \in SignedWord
  PROVE  /\ Carry(t, s) \in Timestamp
         /\ Seconds(Carry(t, s)) = Seconds(t) + s
         /\ Carry(t, s).ns = t.ns - s * Second
         /\ Carry(t, s).upper \in (t.upper - 1)..(t.upper + 1)
<1> DEFINE up == (t.lower + s) \div M
           low == (t.lower + s) % M
           u == t.upper
           m == M \div 2
<1>1. M \in Nat /\ M >= 4 /\ m \in Nat /\ M = 2 * m /\ Second \in Nat
  BY WidthFacts
<1>2. t.lower \in 0..(M - 1) /\ u \in Int /\ u >= 3 - m /\ u <= m - 4
  BY <1>1 DEF Word
<1> HIDE DEF m, u, M
<1>3. up \in Int /\ low \in 0..(M - 1) /\ t.lower + s = up * M + low
  <2> DEFINE n == t.lower + s
  <2>1. n \in Int
    BY <1>1, <1>2
  <2> HIDE DEF n
  <2>2. n \div M \in Int /\ n % M \in 0..(M - 1) /\ n = (n \div M) * M + (n % M)
    <3>1. M \in Nat \ {0}
      BY <1>1
    <3> QED
      BY <2>1, <3>1, DivMod
  <2> QED
    BY <2>2 DEF n
<1> HIDE DEF low
<1>4. up \in {-1, 0, 1}
  BY <1>1, <1>2
<1> HIDE DEF up
<1>5. u + up \in SignedWord
  BY <1>1, <1>2, <1>4 DEF SignedWord, m
<1>6. Carry(t, s) = [upper |-> u + up, lower |-> low, ns |-> t.ns - s * Second]
  BY <1>5, SignedIsIdentity DEF Carry, u, up, low
<1>7. low \in Word
  BY <1>3 DEF Word
<1>8. Carry(t, s) \in Timestamp
  BY <1>5, <1>6, <1>7 DEF Timestamp
<1>9. (u + up) * M = u * M + up * M /\ u * M \in Int /\ up * M \in Int
  BY <1>1, <1>2, <1>4
<1>10. (u + up) * M + low = (u * M + t.lower) + s
  BY <1>2, <1>3, <1>9
<1>11. Seconds(Carry(t, s)) = Seconds(t) + s
  BY <1>6, <1>10 DEF Seconds, u
<1>12. Carry(t, s).upper \in (u - 1)..(u + 1)
  BY <1>2, <1>4, <1>6
<1> QED
  BY <1>6, <1>8, <1>11, <1>12 DEF u

(* The seconds have the sign of their upper word. *)
LEMMA SecondsSign ==
  ASSUME NEW t \in Timestamp
  PROVE  /\ Seconds(t) \in Int
         /\ Seconds(t) < 0 <=> t.upper < 0
         /\ t.upper >= 0 => (Seconds(t) > 0 <=> t.upper + t.lower > 0)
<1> DEFINE u == t.upper
           l == t.lower
<1>1. u \in Int /\ l \in 0..(M - 1) /\ M \in Nat /\ M >= 4
  BY WidthFacts DEF Timestamp, SignedWord, Word
<1> HIDE DEF u, l, M
<1>2. u * M \in Int
  BY <1>1
<1>3. u < 0 => u * M <= -M
  <2> SUFFICES ASSUME u <= -1 PROVE u * M <= -M
    BY <1>1
  <2>1. u * M <= (-1) * M
    BY <1>1
  <2> QED
    BY <1>1, <2>1
<1>4. u > 0 => u * M >= M
  BY <1>1
<1>5. u = 0 => u * M = 0
  BY <1>1
<1>6. u * M + l < 0 <=> u < 0
  BY <1>1, <1>2, <1>3, <1>4, <1>5
<1>7. u >= 0 => (u * M + l > 0 <=> u + l > 0)
  BY <1>1, <1>2, <1>4, <1>5
<1> QED
  BY <1>1, <1>2, <1>6, <1>7 DEF Seconds, u, l

(* Less than two seconds of nanoseconds become less than one, with the sign *)
(* of the seconds if there are any.                                        *)
Normal(t) ==
  /\ t \in Timestamp
  /\ t.ns < Second /\ t.ns > -Second
  /\ Seconds(t) > 0 => t.ns >= 0
  /\ Seconds(t) < 0 => t.ns <= 0

LEMMA NormalizedIsExact ==
  ASSUME NEW t \in Timestamp, t.upper \in (5 - M \div 2)..(M \div 2 - 6),
         t.ns < 2 * Second, t.ns > -(2 * Second)
  PROVE  LET r == NormalizedTimestamp(WithinASecond(t)) IN
           /\ Normal(r)
           /\ Nanoseconds(r) = Nanoseconds(t)
           /\ r.upper \in (t.upper - 2)..(t.upper + 2)
<1> DEFINE w == WithinASecond(t)
           r == NormalizedTimestamp(w)
           m == M \div 2
<1>0. M \in Nat /\ M >= 4 /\ m \in Nat /\ M = 2 * m /\ Second \in Nat \ {0} /\ 2 * Second <= m
  BY WidthFacts
<1>1. t.upper \in Int /\ t.upper >= 5 - m /\ t.upper <= m - 6 /\ t.lower \in Word /\ t.ns \in Int
  BY <1>0 DEF Timestamp, SignedWord
<1>2. ASSUME NEW v \in Timestamp, v.upper \in (3 - m)..(m - 4), v.ns \in Int, NEW s \in {1, -1},
             v.ns - s * Second < Second, v.ns - s * Second > -Second
      PROVE  /\ Carry(v, s) \in Timestamp
             /\ Seconds(Carry(v, s)) = Seconds(v) + s
             /\ Carry(v, s).ns = v.ns - s * Second
             /\ Carry(v, s).upper \in (v.upper - 1)..(v.upper + 1)
             /\ Nanoseconds(Carry(v, s)) = Nanoseconds(v)
  <2> DEFINE c == Carry(v, s)
  <2>1. v.ns - s * Second \in SignedWord
    BY <1>0, <1>2 DEF SignedWord, m
  <2>2. v.lower \in Word
    BY DEF Timestamp
  <2>3. /\ c \in Timestamp
        /\ Seconds(c) = Seconds(v) + s
        /\ c.ns = v.ns - s * Second
        /\ c.upper \in (v.upper - 1)..(v.upper + 1)
    BY <1>2, <2>1, <2>2, CarryIsExact DEF m
  <2> HIDE DEF c
  <2>4. Seconds(v) \in Int
    BY SecondsSign
  <2>5. (Seconds(v) + s) * Second = Seconds(v) * Second + s * Second
    BY <1>0, <2>4
  <2>6. Seconds(v) * Second \in Int /\ s * Second \in Int
    BY <1>0, <2>4
  <2>7. Seconds(c) * Second + c.ns = Seconds(v) * Second + v.ns
    BY <1>2, <2>3, <2>5, <2>6
  <2> QED
    BY <2>3, <2>7 DEF c, Nanoseconds, Seconds
<1> HIDE DEF m, M
<1>3. /\ w \in Timestamp
      /\ Nanoseconds(w) = Nanoseconds(t)
      /\ w.ns \in Int /\ w.ns < Second /\ w.ns > -Second
      /\ w.upper \in (t.upper - 1)..(t.upper + 1)
  <2>1. t.upper \in (3 - m)..(m - 4)
    BY <1>0, <1>1
  <2>2. CASE t.ns >= Second
    <3>1. w = Carry(t, 1)
      BY <1>0, <1>1, <2>2 DEF WithinASecond
    <3>2. t.ns - 1 * Second < Second /\ t.ns - 1 * Second > -Second
      BY <1>0, <1>1, <2>2
    <3> HIDE DEF w
    <3> QED
      BY <1>0, <1>1, <1>2, <2>1, <3>1, <3>2
  <2>3. CASE t.ns <= -Second
    <3>1. w = Carry(t, -1)
      BY <1>0, <1>1, <2>3 DEF WithinASecond
    <3>2. t.ns - (-1) * Second < Second /\ t.ns - (-1) * Second > -Second
      BY <1>0, <1>1, <2>3
    <3> HIDE DEF w
    <3> QED
      BY <1>0, <1>1, <1>2, <2>1, <3>1, <3>2
  <2>4. CASE ~(t.ns >= Second) /\ ~(t.ns <= -Second)
    <3>1. w = t
      BY <2>4 DEF WithinASecond
    <3> HIDE DEF w
    <3> QED
      BY <1>0, <1>1, <2>4, <3>1
  <2> QED
    BY <2>2, <2>3, <2>4
<1> HIDE DEF w
<1>4. w.upper \in (3 - m)..(m - 4) /\ w.upper \in Int /\ w.lower \in Nat
  BY <1>0, <1>1, <1>3 DEF Timestamp, Word
<1>5. /\ Seconds(w) \in Int
      /\ Seconds(w) < 0 <=> w.upper < 0
      /\ w.upper >= 0 => (Seconds(w) > 0 <=> w.upper + w.lower > 0)
  BY <1>3, SecondsSign
<1>6. CASE w.upper < 0 /\ w.ns > 0
  <2>1. r = Carry(w, 1)
    BY <1>4, <1>6 DEF NormalizedTimestamp
  <2>2. w.ns - 1 * Second < Second /\ w.ns - 1 * Second > -Second
    BY <1>0, <1>3, <1>6
  <2> HIDE DEF r
  <2>3. /\ r \in Timestamp /\ Seconds(r) = Seconds(w) + 1 /\ r.ns = w.ns - 1 * Second
        /\ r.upper \in (w.upper - 1)..(w.upper + 1) /\ Nanoseconds(r) = Nanoseconds(w)
    BY <1>2, <1>3, <1>4, <2>1, <2>2
  <2>4. Seconds(r) <= 0 /\ r.ns < 0 /\ r.ns > -Second /\ r.ns < Second
    BY <1>0, <1>3, <1>5, <1>6, <2>2, <2>3
  <2>5. r.upper \in (t.upper - 2)..(t.upper + 2)
    BY <1>1, <1>3, <1>4, <2>3
  <2>6. Normal(r)
    BY <1>0, <1>3, <1>5, <2>3, <2>4 DEF Normal
  <2> QED
    BY <1>3, <2>3, <2>5, <2>6 DEF r, w
<1>7. CASE w.upper >= 0 /\ w.upper + w.lower > 0 /\ w.ns < 0
  <2>1. r = Carry(w, -1)
    BY <1>3, <1>4, <1>7 DEF NormalizedTimestamp
  <2>2. w.ns - (-1) * Second < Second /\ w.ns - (-1) * Second > -Second
    BY <1>0, <1>3, <1>7
  <2> HIDE DEF r
  <2>3. /\ r \in Timestamp /\ Seconds(r) = Seconds(w) + (-1) /\ r.ns = w.ns - (-1) * Second
        /\ r.upper \in (w.upper - 1)..(w.upper + 1) /\ Nanoseconds(r) = Nanoseconds(w)
    BY <1>2, <1>3, <1>4, <2>1, <2>2
  <2>4. Seconds(r) >= 0 /\ r.ns > 0 /\ r.ns > -Second /\ r.ns < Second
    BY <1>0, <1>3, <1>5, <1>7, <2>2, <2>3
  <2>5. r.upper \in (t.upper - 2)..(t.upper + 2)
    BY <1>1, <1>3, <1>4, <2>3
  <2>6. Normal(r)
    BY <1>0, <1>3, <1>5, <2>3, <2>4 DEF Normal
  <2> QED
    BY <1>3, <2>3, <2>5, <2>6 DEF r, w
<1>8. CASE ~(w.upper < 0 /\ w.ns > 0) /\ ~(w.upper >= 0 /\ w.upper + w.lower > 0 /\ w.ns < 0)
  <2>1. r = w
    BY <1>8 DEF NormalizedTimestamp
  <2>2. (Seconds(w) > 0 => w.ns >= 0) /\ (Seconds(w) < 0 => w.ns <= 0)
    BY <1>3, <1>4, <1>5, <1>8
  <2>3. Normal(w)
    BY <1>3, <2>2 DEF Normal
  <2>4. w.upper \in (t.upper - 2)..(t.upper + 2)
    BY <1>1, <1>3, <1>4
  <2> HIDE DEF r
  <2> QED
    BY <1>3, <2>1, <2>3, <2>4 DEF r, w
<1> QED
  BY <1>6, <1>7, <1>8

LEMMA DifferenceIsExact ==
  ASSUME NEW a \in Timestamp, NEW b \in Timestamp,
         a.upper \in (-(M \div 8))..(M \div 8), b.upper \in (-(M \div 8) - 2)..(M \div 8 + 2),
         a.ns - b.ns < 2 * Second, a.ns - b.ns > -(2 * Second)
  PROVE  LET d == TimestampDifference(a, b) IN
           Normal(d) /\ Nanoseconds(d) = Nanoseconds(a) - Nanoseconds(b)
           /\ d.upper \in (5 - M \div 2)..(M \div 2 - 6)
<1> DEFINE borrow == One(b.lower > a.lower)
           low == (a.lower - b.lower) % M
           up == a.upper - b.upper - borrow
           raw == [upper |-> up, lower |-> low, ns |-> a.ns - b.ns]
           d == NormalizedTimestamp(WithinASecond(raw))
           e == M \div 8
           m == M \div 2
<1>1. M \in Nat /\ e \in Nat /\ M = 8 * e /\ e >= 8 /\ m = 4 * e /\ Second \in Nat \ {0} /\ 2 * Second <= m
  BY EighthFacts, WidthFacts
<1>2. a.lower \in 0..(M - 1) /\ b.lower \in 0..(M - 1) /\ a.ns \in Int /\ b.ns \in Int
  BY WidthFacts DEF Timestamp, SignedWord, Word
<1>3. borrow \in {0, 1} /\ (borrow = 1 <=> b.lower > a.lower)
  BY DEF One
<1>4. a.upper \in (-e)..e /\ b.upper \in (-e - 2)..(e + 2)
  OBVIOUS
<1>5. a.ns - b.ns < m /\ a.ns - b.ns > -m /\ a.ns - b.ns \in Int
  BY <1>1, <1>2
<1> HIDE DEF M, e, m, borrow
<1>6. low = a.lower - b.lower + borrow * M /\ low \in 0..(M - 1)
  <2> DEFINE n == a.lower - b.lower
  <2>1. n \in Int /\ n >= -M /\ n < M /\ M \in Nat \ {0} /\ (n < 0 <=> borrow = 1)
    BY <1>1, <1>2, <1>3
  <2> HIDE DEF n
  <2>2. n % M = IF n < 0 THEN n + M ELSE n
    BY <2>1, ModOfBorrow
  <2>3. borrow * M = IF n < 0 THEN M ELSE 0
    BY <1>3, <2>1
  <2> DEFINE r == n % M
             c == borrow * M
  <2>4. r = (IF n < 0 THEN n + M ELSE n) /\ c = (IF n < 0 THEN M ELSE 0)
    BY <2>2, <2>3
  <2> HIDE DEF r, c
  <2>5. r = n + c /\ r \in 0..(M - 1)
    BY <2>1, <2>4
  <2> QED
    BY <2>5 DEF n, r, c, low
<1>7. up \in (-(2 * e) - 3)..(2 * e + 3)
  BY <1>1, <1>3, <1>4
<1>8. up \in (5 - m + 2)..(m - 6 - 2) /\ up \in Int
  BY <1>1, <1>7
<1> HIDE DEF low, up
<1>9. up \in SignedWord /\ a.ns - b.ns \in SignedWord /\ low \in Word
  BY <1>1, <1>5, <1>6, <1>8 DEF SignedWord, Word, m
<1>10. raw \in Timestamp
  BY <1>9 DEF Timestamp
<1>11. TimestampDifference(a, b) = d
  BY <1>9, SignedIsIdentity DEF TimestampDifference, up, low, borrow
<1>12. raw.upper \in (5 - m)..(m - 6) /\ raw.ns = a.ns - b.ns
  BY <1>1, <1>8
<1>13. Seconds(raw) = Seconds(a) - Seconds(b)
  <2>1. raw.upper = up /\ raw.lower = low
    OBVIOUS
  <2>2. up = a.upper - b.upper - borrow /\ a.upper \in Int /\ b.upper \in Int /\ borrow \in Int
    BY <1>1, <1>3, <1>4 DEF up
  <2>3. (a.upper - b.upper - borrow) * M = a.upper * M - b.upper * M - borrow * M
    BY <1>1, <2>2
  <2>4. a.upper * M \in Int /\ b.upper * M \in Int /\ borrow * M \in Int
    BY <1>1, <2>2
  <2>5. up * M + low = (a.upper * M + a.lower) - (b.upper * M + b.lower)
    BY <1>2, <1>6, <2>2, <2>3, <2>4
  <2> QED
    BY <2>1, <2>5 DEF Seconds
<1>14. Nanoseconds(raw) = Nanoseconds(a) - Nanoseconds(b)
  <2>1. Seconds(a) \in Int /\ Seconds(b) \in Int
    BY SecondsSign
  <2>2. (Seconds(a) - Seconds(b)) * Second = Seconds(a) * Second - Seconds(b) * Second
    BY <1>1, <2>1
  <2>3. Seconds(a) * Second \in Int /\ Seconds(b) * Second \in Int
    BY <1>1, <2>1
  <2>4. Nanoseconds(raw) = Seconds(raw) * Second + raw.ns
        /\ Nanoseconds(a) = Seconds(a) * Second + a.ns /\ Nanoseconds(b) = Seconds(b) * Second + b.ns
    BY DEF Nanoseconds, Seconds
  <2> HIDE DEF raw
  <2> QED
    BY <1>2, <1>12, <1>13, <2>2, <2>3, <2>4
<1> DEFINE r == raw
<1>15. /\ r \in Timestamp /\ r.upper \in (5 - M \div 2)..(M \div 2 - 6)
       /\ r.ns < 2 * Second /\ r.ns > -(2 * Second)
  BY <1>10, <1>12 DEF m
<1>16. r.upper \in (5 - m + 2)..(m - 6 - 2)
  BY <1>8
<1> HIDE DEF r
<1>17. /\ Normal(d) /\ Nanoseconds(d) = Nanoseconds(r)
       /\ d.upper \in (r.upper - 2)..(r.upper + 2)
  <2>1. d = NormalizedTimestamp(WithinASecond(r))
    BY DEF r
  <2> HIDE DEF d
  <2> QED
    BY <1>15, <2>1, NormalizedIsExact
<1> HIDE DEF d
<1>18. d.upper \in (5 - m)..(m - 6)
  BY <1>1, <1>16, <1>17
<1> QED
  BY <1>11, <1>14, <1>17, <1>18 DEF r, m

LEMMA CorrectedIsExact ==
  ASSUME NEW t \in Timestamp, WellFormed(t), NEW correction \in Int,
         correction < Second, correction > -Second
  PROVE  LET c == TimestampSum(t, [upper |-> 0, lower |-> 0, ns |-> correction]) IN
           Normal(c) /\ Nanoseconds(c) = Nanoseconds(t) + correction
           /\ c.upper \in (-(M \div 8) - 2)..(M \div 8 + 2)
<1> DEFINE raw == [upper |-> t.upper, lower |-> t.lower, ns |-> t.ns + correction]
           c == NormalizedTimestamp(WithinASecond(raw))
           e == M \div 8
           m == M \div 2
<1>1. M \in Nat /\ e \in Nat /\ M = 8 * e /\ e >= 8 /\ m = 4 * e /\ Second \in Nat \ {0} /\ 2 * Second <= m
  BY EighthFacts, WidthFacts
<1>2. t.upper \in (-e)..e /\ t.lower \in 0..(M - 1) /\ t.ns \in 0..(Second - 1)
  BY DEF Timestamp, Word, WellFormed
<1>3. t.upper \in SignedWord /\ t.lower \in Word
  BY DEF Timestamp
<1> HIDE DEF M, e, m
<1>4. t.ns + correction < 2 * Second /\ t.ns + correction > -(2 * Second) /\ t.ns + correction \in Int
  BY <1>1, <1>2
<1>5. t.ns + correction \in SignedWord
  BY <1>1, <1>4 DEF SignedWord, m
<1>6. raw \in Timestamp
  BY <1>3, <1>5 DEF Timestamp
<1>7. t.lower \div M = 0 /\ t.lower % M = t.lower
  BY <1>1, <1>2
<1>8. TimestampSum(t, [upper |-> 0, lower |-> 0, ns |-> correction]) = c
  <2>1. t.upper + 0 + (t.lower + 0) \div M = t.upper /\ (t.lower + 0) % M = t.lower
    BY <1>2, <1>7
  <2> QED
    BY <1>3, <1>5, <2>1, SignedIsIdentity DEF TimestampSum
<1>9. Nanoseconds(raw) = Nanoseconds(t) + correction
  <2>1. Seconds(t) \in Int
    BY SecondsSign
  <2>2. Seconds(t) * Second \in Int
    BY <1>1, <2>1
  <2>3. Nanoseconds(raw) = Seconds(t) * Second + (t.ns + correction)
        /\ Nanoseconds(t) = Seconds(t) * Second + t.ns
    BY DEF Nanoseconds, Seconds
  <2> QED
    BY <1>2, <2>2, <2>3
<1> DEFINE r == raw
<1>10. /\ r \in Timestamp /\ r.upper \in (5 - m)..(m - 6)
       /\ r.ns < 2 * Second /\ r.ns > -(2 * Second)
  BY <1>1, <1>2, <1>4, <1>6
<1>11. r.upper = t.upper
  OBVIOUS
<1> HIDE DEF r
<1>12. /\ Normal(c) /\ Nanoseconds(c) = Nanoseconds(r)
       /\ c.upper \in (r.upper - 2)..(r.upper + 2)
  <2>1. c = NormalizedTimestamp(WithinASecond(r))
    BY DEF r
  <2> HIDE DEF c
  <2> QED
    BY <1>10, <2>1, NormalizedIsExact DEF m
<1> HIDE DEF c
<1>13. c.upper \in (-e - 2)..(e + 2)
  BY <1>1, <1>2, <1>11, <1>12
<1> QED
  BY <1>8, <1>9, <1>12, <1>13 DEF r, e

----------------------------------------------------------------------------
(* Intervals, ratio and delay, exactly.                                    *)

(* The interval of a difference is its nanoseconds, if they fit in a word. *)
LEMMA IntervalIsExact ==
  ASSUME NEW d, Normal(d), Nanoseconds(d) \in Word
  PROVE  Interval(d) = Nanoseconds(d) /\ d.upper = 0
<1> DEFINE s == Seconds(d)
           n == Nanoseconds(d)
<1>1. M \in Nat \ {0} /\ M >= 4 /\ Second \in Nat \ {0} /\ Half \in Nat \ {0} /\ M <= Half * Second /\ 4 * Second <= M
      /\ D \in Nat /\ D >= 4 * M /\ M = Half * Half
  BY WidthFacts, ArithmeticAssumption DEF M
<1>2. d \in Timestamp /\ d.ns < Second /\ d.ns > -Second /\ (s > 0 => d.ns >= 0) /\ (s < 0 => d.ns <= 0)
      /\ d.ns \in Int /\ d.lower \in 0..(M - 1) /\ d.upper \in Int
  BY <1>1 DEF Normal, Timestamp, SignedWord, Word
<1>3. s \in Int /\ s = d.upper * M + d.lower
  BY <1>2, SecondsSign DEF Seconds
<1>4. n = s * Second + d.ns /\ n \in 0..(M - 1)
  BY DEF Nanoseconds, Seconds, Word
<1> HIDE DEF s, n, M
<1>5. s >= 0
  <2> SUFFICES ASSUME s <= -1 PROVE FALSE
    BY <1>3
  <2>1. s * Second <= (-1) * Second /\ s * Second \in Int
    BY <1>1, <1>3
  <2> QED
    BY <1>1, <1>2, <1>4, <2>1
<1>6. d.ns \in 0..(Second - 1)
  <2>1. s = 0 => s * Second = 0
    BY <1>1
  <2> QED
    BY <1>1, <1>2, <1>3, <1>4, <1>5, <2>1
<1>7. s \in 0..(Half - 1)
  <2>1. s >= Half => s * Second >= Half * Second
    BY <1>1, <1>3
  <2>2. s * Second \in Int /\ Half * Second \in Int
    BY <1>1, <1>3
  <2> QED
    BY <1>1, <1>3, <1>4, <1>5, <1>6, <2>1, <2>2
<1>8. d.upper = 0 /\ d.lower = s
  <2>1. d.upper >= 1 => d.upper * M >= M
    BY <1>1, <1>2
  <2>2. d.upper <= -1 => d.upper * M <= -M
    <3> SUFFICES ASSUME d.upper <= -1 PROVE d.upper * M <= -M
      OBVIOUS
    <3>1. d.upper * M <= (-1) * M
      BY <1>1, <1>2
    <3> QED
      BY <1>1, <3>1
  <2>3. Half <= M
    <3>1. Half * 1 <= Half * Half
      BY <1>1
    <3> QED
      BY <1>1, <3>1
  <2>4. d.upper * M \in Int /\ (d.upper = 0 => d.upper * M = 0)
    BY <1>1, <1>2
  <2> QED
    BY <1>1, <1>2, <1>3, <1>7, <2>1, <2>2, <2>3, <2>4
<1>9. Uint64TimesUint32(s, Second) = s * Second
  <2>1. s \in Word /\ Second \in Word
    <3>1. Second < M
      BY <1>1
    <3> QED
      BY <1>1, <1>2, <1>8, <3>1 DEF Word
  <2>2. s \div Half = 0
    BY <1>1, <1>7
  <2>3. Second \div Half \in 0..(Half - 1)
    BY <2>1, HalvesOfWord
  <2>4. s \div Half + Second \div Half <= Half - 1
    BY <1>1, <2>2, <2>3
  <2> QED
    BY <2>1, <2>4, WordProductIsExact
<1>10. Interval(d) = n
  <2>1. d.ns % M = d.ns
    BY <1>1, <1>6
  <2>2. s * Second + d.ns = n /\ n % D = n
    BY <1>1, <1>4
  <2> QED
    BY <1>8, <1>9, <2>1, <2>2 DEF Interval
<1> QED
  BY <1>8, <1>10 DEF n

(* The interval between two timestamps. *)
LEMMA ElapsedIsExact ==
  ASSUME NEW a \in Timestamp, NEW b \in Timestamp, Forward(b, a)
  PROVE  Interval(TimestampDifference(a, b)) = Elapsed(b, a) /\ Elapsed(b, a) \in Word
<1> DEFINE d == TimestampDifference(a, b)
           e == M \div 8
<1>1. Elapsed(b, a) \in Word /\ Elapsed(b, a) = Nanoseconds(a) - Nanoseconds(b)
  BY DEF Forward, Elapsed
<1>2. a.upper \in (-e)..e /\ b.upper \in (-e)..e /\ a.ns \in 0..(Second - 1) /\ b.ns \in 0..(Second - 1)
  BY DEF Forward, WellFormed
<1>3. a.ns - b.ns < 2 * Second /\ a.ns - b.ns > -(2 * Second)
  BY <1>2, WidthFacts
<1>4. e \in Nat
  BY EighthFacts
<1> HIDE DEF e
<1>5. b.upper \in (-e - 2)..(e + 2)
  BY <1>2, <1>4
<1>6. Normal(d) /\ Nanoseconds(d) = Nanoseconds(a) - Nanoseconds(b)
  BY <1>2, <1>3, <1>5, DifferenceIsExact DEF e
<1> HIDE DEF d
<1>7. Interval(d) = Nanoseconds(d)
  BY <1>1, <1>6, IntervalIsExact
<1> QED
  BY <1>1, <1>6, <1>7 DEF d

(* The ratio of intervals that fit in a word. *)
LEMMA RateRatioIsExact ==
  ASSUME NEW responder \in Word, NEW requester \in Word \ {0}
  PROVE  RateRatio(responder, requester) = ((responder * (M \div 2)) \div requester) % M
<1> DEFINE m == M \div 2
           s == Headroom(responder)
           x == responder * m
<1>1. M \in Nat \ {0} /\ m \in Nat \ {0} /\ M = 2 * m /\ D \in Nat \ {0} /\ D = M * M
      /\ responder \in 0..(M - 1) /\ requester \in 1..(M - 1) /\ Bits \in Nat /\ Bits >= 4
  BY WidthFacts, PowerFacts DEF Word, D
<1>2. High(responder) = 0
  BY <1>1 DEF High
<1> HIDE DEF M, m, D, Bits
<1>3. \A k \in 0..Bits : 0 \div 2 ^ k = 0
  <2> SUFFICES ASSUME NEW k \in 0..Bits PROVE 0 \div 2 ^ k = 0
    OBVIOUS
  <2> DEFINE p == 2 ^ k
  <2>1. p \in Nat \ {0}
    BY BitsFacts
  <2> HIDE DEF p
  <2>2. 0 \div p = 0
    BY <2>1
  <2> QED
    BY <2>2 DEF p
<1>4. s = Bits - 1
  <2> DEFINE P(k) == /\ k = Bits - 1 \/ High(responder) \div 2 ^ (Bits - 1 - k) # 0
                     /\ k > 0 => High(responder) \div 2 ^ (Bits - k) = 0
  <2>1. P(Bits - 1) /\ Bits - 1 \in 0..(Bits - 1)
    <3>1. Bits - (Bits - 1) = 1 /\ 1 \in 0..Bits
      BY <1>1
    <3> QED
      BY <1>1, <1>2, <1>3, <3>1
  <2>2. \A k \in 0..(Bits - 1) : P(k) => k = Bits - 1
    <3> SUFFICES ASSUME NEW k \in 0..(Bits - 1), P(k) PROVE k = Bits - 1
      OBVIOUS
    <3>1. Bits - 1 - k \in 0..Bits
      BY <1>1
    <3> QED
      BY <1>2, <1>3, <3>1
  <2>3. s = CHOOSE k \in 0..(Bits - 1) : P(k)
    BY DEF Headroom
  <2> HIDE DEF P, s
  <2> QED
    BY <2>1, <2>2, <2>3
<1> HIDE DEF s
<1>5. 2 ^ (Bits - 1) = m /\ 2 ^ (Bits - 1 - (Bits - 1)) = 1
  <2> DEFINE k == Bits - 1
             p == 2 ^ k
  <2>1. k \in 0..(2 * Bits) /\ k \in 0..Bits /\ k + 1 = Bits /\ k - k = 0
    BY <1>1
  <2> HIDE DEF k
  <2>2. 2 ^ (k + 1) = 2 * p /\ 2 ^ 0 = 1 /\ 2 ^ Bits = M
    BY <2>1, WidthAssumption
  <2>3. p \in Nat
    BY <2>1, BitsFacts
  <2> HIDE DEF p
  <2>4. p = m
    BY <1>1, <2>1, <2>2, <2>3
  <2> QED
    BY <2>1, <2>2, <2>4 DEF k, p
<1>6. Scaled(requester, s) = requester
  <2>1. requester \div 1 = requester
    BY <1>1
  <2> QED
    BY <1>4, <1>5, <2>1 DEF Scaled
<1>7. x \in 0..(D - 1) /\ x % D = x
  <2>1. x \in Nat /\ x <= (M - 1) * m /\ (M - 1) * m <= (M - 1) * M /\ (M - 1) * M = M * M - M
    BY <1>1
  <2>2. (M - 1) * m \in Int /\ M * M \in Int
    BY <1>1
  <2>3. x \in 0..(D - 1)
    BY <1>1, <2>1, <2>2
  <2> HIDE DEF x
  <2> QED
    BY <1>1, <2>3
<1>8. Uint64LShift(responder, s) = x
  BY <1>4, <1>5, <1>7 DEF Uint64LShift
<1>9. x \in Wide /\ requester \in Wide \ {0}
  <2>1. M <= D
    BY WidthFacts
  <2> QED
    BY <1>1, <1>7, <2>1 DEF Wide
<1> HIDE DEF x
<1>10. Uint64DividedByUint64(x, requester) = x \div requester
  BY <1>9, DivisionIsExact
<1> QED
  BY <1>6, <1>8, <1>10 DEF RateRatio, s, x, Low, m

(* The delay, as long as the exchange took less than a quarter of a word    *)
(* and the neighbour's clock is not half as fast again: then the cross      *)
(* products of the multiplication do not overflow.                         *)
LEMMA PropDelayIsExact ==
  ASSUME NEW responder \in Word, NEW requester \in 0..(M \div 4 - 1), NEW ratio \in 0..(3 * (M \div 4) - 1)
  PROVE  PropDelay(responder, requester, ratio)
           = (((requester * ratio) \div (M \div 2) - responder) \div 2) % M
<1> DEFINE m == M \div 2
           g == M \div 4
           h == Half \div 4
           H == Half
           p == requester * ratio
           here == p \div m
           n == here - responder
<1>1. M \in Nat \ {0} /\ m \in Nat \ {0} /\ M = 2 * m /\ D \in Nat \ {0} /\ D = M * M
      /\ responder \in 0..(M - 1) /\ requester \in 0..(g - 1) /\ ratio \in 0..(3 * g - 1) /\ Bits \in Nat /\ Bits >= 4
  BY WidthFacts, PowerFacts DEF Word, D
<1>2. h \in Nat /\ H = 4 * h /\ H \in Nat \ {0}
  <2>1. Half \in Nat \ {0} /\ Half \div 8 \in Nat /\ Half = 8 * (Half \div 8)
    BY EighthFacts, WidthFacts
  <2> QED
    BY <2>1
<1>3. g = h * H /\ M = 4 * g /\ g \in Nat
  <2>1. M = H * H
    BY DEF M
  <2> HIDE DEF h, H, M
  <2>2. M = 4 * (h * H) /\ h * H \in Nat
    BY <1>2, <2>1
  <2> DEFINE f == h * H
  <2>3. M = 4 * f /\ f \in Nat
    BY <2>2
  <2> HIDE DEF f
  <2> QED
    BY <2>3 DEF f
<1> HIDE DEF M, m, D, Bits, g, h, H
<1>4. requester \in Word /\ ratio \in Word /\ requester \in Nat /\ ratio \in Nat
  BY <1>1, <1>3 DEF Word
<1>5. requester \div H + ratio \div H <= H - 1
  <2>1. requester < h * H /\ ratio < (3 * h) * H
    <3>1. (3 * h) * H = 3 * (h * H)
      BY <1>2
    <3> QED
      BY <1>1, <1>3, <3>1
  <2>2. 3 * h \in Nat
    BY <1>2
  <2>3. requester \div H \in 0..(h - 1)
    BY <1>2, <1>4, <2>1, QuotientBound
  <2>4. ratio \div H \in 0..(3 * h - 1)
    BY <1>2, <1>4, <2>1, <2>2, QuotientBound
  <2> QED
    BY <1>2, <2>3, <2>4
<1>6. Uint64TimesUint32(requester, ratio) = p /\ p \in Wide
  BY <1>4, <1>5, WordProductIsExact DEF H
<1>7. 2 ^ (Bits - 1) = m /\ 2 ^ 1 = 2
  <2> DEFINE k == Bits - 1
             q == 2 ^ k
  <2>1. k \in 0..(2 * Bits) /\ k \in 0..Bits /\ k + 1 = Bits /\ 0 \in 0..(2 * Bits) /\ 0 + 1 = 1
    BY <1>1
  <2> HIDE DEF k
  <2>2. 2 ^ (k + 1) = 2 * q /\ 2 ^ 0 = 1 /\ 2 ^ Bits = M /\ 2 ^ (0 + 1) = 2 * 2 ^ 0
    BY <2>1, WidthAssumption
  <2>3. q \in Nat
    BY <2>1, BitsFacts
  <2> HIDE DEF q
  <2>4. q = m
    BY <1>1, <2>1, <2>2, <2>3
  <2> QED
    BY <2>1, <2>2, <2>4 DEF k, q
<1> HIDE DEF p
<1>8. here \in 0..(D - 1) /\ here \in Int
  <2>1. p \in Nat /\ p < D /\ D <= D * m
    <3>1. D * 1 <= D * m /\ D * 1 = D
      BY <1>1
    <3> QED
      BY <1>1, <1>6, <3>1 DEF Wide
  <2>2. p < D * m
    <3>1. D * m \in Nat
      BY <1>1
    <3> QED
      BY <1>1, <2>1, <3>1
  <2>3. m \in Nat \ {0} /\ D \in Nat /\ p \in Nat
    BY <1>1, <2>1
  <2>4. p \div m \in 0..(D - 1)
    BY <2>2, <2>3, QuotientBound
  <2> QED
    BY <2>3, <2>4
<1> HIDE DEF here
<1>9. n \in Int /\ n >= -D /\ n < D /\ M <= D
  <2>1. M <= D
    BY WidthFacts
  <2> QED
    BY <1>1, <1>8, <2>1
<1>10. PropDelay(responder, requester, ratio) = ((n % D) \div 2) % M
  BY <1>6, <1>7 DEF PropDelay, Uint64RShift, Low, here
<1> HIDE DEF n
<1>11. n % D = IF n < 0 THEN n + D ELSE n
  BY <1>1, <1>9, ModOfBorrow
<1>12. CASE n < 0
  <2> DEFINE k == n \div 2
             b == n % 2
             z == m * M
  <2>1. k \in Int /\ b \in 0..1 /\ n = k * 2 + b
    BY <1>9, DivMod
  <2> HIDE DEF k, b
  <2>2. D = z * 2 /\ z \in Int
    <3>1. M * M = (2 * m) * M /\ (2 * m) * M = (m * M) * 2
      BY <1>1
    <3> QED
      BY <1>1, <3>1
  <2>3. (k + z) * 2 + b = n + D
    BY <2>1, <2>2
  <2>4. (n + D) \div 2 = k + z
    <3> DEFINE i == k + z
    <3>1. i \in Int /\ b \in 0..(2 - 1)
      BY <2>1, <2>2
    <3> HIDE DEF i
    <3>2. (i * 2 + b) \div 2 = i
      BY <3>1, DivModUnique
    <3> QED
      BY <2>3, <3>2 DEF i
  <2>5. (k + z) % M = k % M
    <3> DEFINE q == k \div M
               r == k % M
    <3>1. q \in Int /\ r \in 0..(M - 1) /\ k = q * M + r
      BY <1>1, <2>1, DivMod
    <3> HIDE DEF q, r
    <3>2. (q + m) * M + r = k + z
      BY <1>1, <3>1
    <3>3. ((q + m) * M + r) % M = r
      <4> DEFINE i == q + m
      <4>1. i \in Int /\ M \in Nat \ {0} /\ r \in 0..(M - 1)
        BY <1>1, <3>1
      <4> HIDE DEF i
      <4>2. (i * M + r) % M = r
        BY <4>1, DivModUnique
      <4> QED
        BY <4>2 DEF i
    <3> QED
      BY <3>2, <3>3 DEF r
  <2>6. ((n % D) \div 2) % M = (n \div 2) % M
    BY <1>11, <1>12, <2>4, <2>5 DEF k
  <2> QED
    BY <1>10, <2>6 DEF n, here, p, m
<1>13. CASE ~(n < 0)
  BY <1>10, <1>11, <1>13 DEF n, here, p, m
<1> QED
  BY <1>12, <1>13

=============================================================================
