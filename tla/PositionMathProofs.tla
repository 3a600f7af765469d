--------------------------- MODULE PositionMathProofs ---------------------------
(* Fees, liquidity and amounts for every range, every price grid and every     *)
(* width of the accumulators.                                                  *)
EXTENDS PositionMath, TLAPS

-----------------------------------------------------------------------------
(* Counting modulo Q128.                                                   *)

Congruent(a, b) == \E k \in Int : a = b + k * Q128

\* A remainder is in range and differs by a multiple of the divisor.
LEMMA Remainder ==
    ASSUME NEW a \in Int, NEW n \in Nat \ {0}
    PROVE  a % n \in 0 .. n - 1 /\ \E k \in Int : a % n = a + k * n
<1> DEFINE q == a \div n
<1>1. q \in Int /\ a = n * q + (a % n) /\ a % n \in 0 .. n - 1
  BY SMT
<1>2. -q \in Int /\ a % n = a + (-q) * n
  BY <1>1
<1> QED
  BY <1>1, <1>2

\* Reducing modulo Q128 keeps the class.
LEMMA CongruentRemainder ==
    ASSUME NEW a \in Int
    PROVE  a % Q128 \in 0 .. Q128 - 1 /\ Congruent(a % Q128, a)
  BY Remainder, PositionMathAssumption DEF Congruent

\* So does reducing modulo Word, a multiple of Q128.
LEMMA CongruentWord ==
    ASSUME NEW a \in Int
    PROVE  a % Word \in Growth /\ Congruent(a % Word, a)
<1>1. PICK m \in 1 .. Word : Word = m * Q128
  BY PositionMathAssumption
<1>2. Word \in Nat \ {0} /\ Q128 \in Nat \ {0} /\ m \in Int
  BY PositionMathAssumption
<1>3. a % Word \in 0 .. Word - 1 /\ \E k \in Int : a % Word = a + k * Word
  BY <1>2, Remainder
<1>4. PICK k \in Int : a % Word = a + k * Word
  BY <1>3
<1>5. k * m \in Int /\ k * Word = (k * m) * Q128
  BY <1>1, <1>2
<1> QED
  BY <1>3, <1>4, <1>5 DEF Congruent, Growth

\* A number is in its own class.
LEMMA CongruentSelf == ASSUME NEW a \in Int PROVE Congruent(a, a)
<1>1. 0 \in Int /\ a = a + 0 * Q128
  BY PositionMathAssumption
<1> QED
  BY <1>1 DEF Congruent

\* Classes add up.
LEMMA CongruentSum ==
    ASSUME NEW a \in Int, NEW b \in Int, NEW c \in Int, NEW d \in Int,
           Congruent(a, b), Congruent(c, d)
    PROVE  Congruent(a + c, b + d) /\ Congruent(a - c, b - d)
<1>1. PICK j \in Int : a = b + j * Q128
  BY DEF Congruent
<1>2. PICK k \in Int : c = d + k * Q128
  BY DEF Congruent
<1>3. Q128 \in Int
  BY PositionMathAssumption
<1>4. j + k \in Int /\ a + c = (b + d) + (j + k) * Q128
  BY <1>1, <1>2, <1>3
<1>5. j - k \in Int /\ a - c = (b - d) + (j - k) * Q128
  BY <1>1, <1>2, <1>3
<1> QED
  BY <1>4, <1>5 DEF Congruent

\* A class can be looked at from either side and through another member.
LEMMA CongruentVia ==
    ASSUME NEW a \in Int, NEW b \in Int, NEW c \in Int,
           Congruent(a, b), Congruent(c, b)
    PROVE  Congruent(a, c)
<1>1. PICK j \in Int : a = b + j * Q128
  BY DEF Congruent
<1>2. PICK k \in Int : c = b + k * Q128
  BY DEF Congruent
<1>3. Q128 \in Int
  BY PositionMathAssumption
<1>4. j - k \in Int /\ a = c + (j - k) * Q128
  BY <1>1, <1>2, <1>3
<1> QED
  BY <1>4 DEF Congruent

\* Looking at a class from the other side.
LEMMA CongruentBack ==
    ASSUME NEW a \in Int, NEW b \in Int, Congruent(a, b)
    PROVE  Congruent(b, a)
  BY CongruentSelf, CongruentVia

\* Members of one class have one remainder.
LEMMA OneRemainder ==
    ASSUME NEW a \in Int, NEW b \in Int, Congruent(a, b)
    PROVE  a % Q128 = b % Q128
<1> DEFINE r == a % Q128
           s == b % Q128
<1>1. r \in 0 .. Q128 - 1 /\ s \in 0 .. Q128 - 1 /\ Q128 \in Nat \ {0}
  BY CongruentRemainder, PositionMathAssumption
<1>2. Congruent(r, a) /\ Congruent(s, b)
  BY CongruentRemainder
<1>3. r \in Int /\ s \in Int
  BY <1>1
<1>4. Congruent(b, a)
  BY CongruentBack
<1>5. Congruent(a, b) /\ Congruent(a, r)
  BY <1>2, <1>3, CongruentBack
<1>6. Congruent(b, s)
  BY <1>2, <1>3, CongruentBack
<1>7. Congruent(s, a)
  BY <1>2, <1>3, <1>4, <1>5, CongruentVia
<1>8. Congruent(r, s)
  BY <1>2, <1>3, <1>7, CongruentVia
<1>9. PICK k \in Int : r = s + k * Q128
  BY <1>8 DEF Congruent
<1>10. k < 1
  <2>1. SUFFICES ASSUME k >= 1 PROVE FALSE
    OBVIOUS
  <2>2. k * Q128 >= Q128
    BY <1>1, <2>1
  <2> QED
    BY <1>1, <1>3, <1>9, <2>2
<1>11. k > -1
  <2>1. SUFFICES ASSUME k <= -1 PROVE FALSE
    OBVIOUS
  <2>2. k * Q128 <= -Q128
    BY <1>1, <2>1
  <2> QED
    BY <1>1, <1>3, <1>9, <2>2
<1>12. k = 0
  BY <1>10, <1>11
<1> QED
  BY <1>1, <1>3, <1>9, <1>12

-----------------------------------------------------------------------------
(* The growth inside a range.                                              *)

\* What fee_growth_inside reduces: the fees paid at the ticks of the range, up
\* to a constant.
InsideUnreduced(l, u, t, g, outLower, outUpper) ==
    IF t < l THEN outLower - outUpper
    ELSE IF t < u THEN g - outLower - outUpper
    ELSE outUpper - outLower

\* The code's result is that number modulo Q128, for a tick anywhere.
LEMMA InsideReduced ==
    ASSUME NEW l \in Int, NEW u \in Int, NEW t \in Int, l < u,
           NEW g \in Int, NEW outLower \in Int, NEW outUpper \in Int
    PROVE  /\ FeeGrowthInside(l, u, t, g, outLower, outUpper) \in 0 .. Q128 - 1
           /\ InsideUnreduced(l, u, t, g, outLower, outUpper) \in Int
           /\ Congruent(FeeGrowthInside(l, u, t, g, outLower, outUpper),
                        InsideUnreduced(l, u, t, g, outLower, outUpper))
<1> DEFINE below == IF t >= l THEN outLower ELSE (g - outLower) % Q128
           above == IF t < u THEN outUpper ELSE (g - outUpper) % Q128
           b == IF t >= l THEN outLower ELSE g - outLower
           a == IF t < u THEN outUpper ELSE g - outUpper
           inside == FeeGrowthInside(l, u, t, g, outLower, outUpper)
           unreduced == InsideUnreduced(l, u, t, g, outLower, outUpper)
<1>1. a \in Int /\ b \in Int /\ g - outLower \in Int /\ g - outUpper \in Int
  OBVIOUS
<1>2. below \in Int /\ Congruent(below, b)
  <2>1. CASE t >= l
    BY <2>1, CongruentSelf
  <2>2. CASE ~(t >= l)
    <3>1. (g - outLower) % Q128 \in 0 .. Q128 - 1 /\ Congruent((g - outLower) % Q128, g - outLower)
      BY <1>1, CongruentRemainder
    <3>2. Q128 \in Int
      BY PositionMathAssumption
    <3> QED
      BY <2>2, <3>1, <3>2
  <2> QED
    BY <2>1, <2>2
<1>3. above \in Int /\ Congruent(above, a)
  <2>1. CASE t < u
    BY <2>1, CongruentSelf
  <2>2. CASE ~(t < u)
    <3>1. (g - outUpper) % Q128 \in 0 .. Q128 - 1 /\ Congruent((g - outUpper) % Q128, g - outUpper)
      BY <1>1, CongruentRemainder
    <3>2. Q128 \in Int
      BY PositionMathAssumption
    <3> QED
      BY <2>2, <3>1, <3>2
  <2> QED
    BY <2>1, <2>2
<1>4. g - b - a = unreduced /\ unreduced \in Int
  BY DEF InsideUnreduced
<1>5. inside = (g - below - above) % Q128
  BY DEF FeeGrowthInside
<1> HIDE DEF below, above, a, b, inside, unreduced
<1>6. Congruent(g, g)
  BY CongruentSelf
<1>7. g - below \in Int /\ g - b \in Int /\ Congruent(g - below, g - b)
  BY <1>1, <1>2, <1>6, CongruentSum
<1>8. g - below - above \in Int /\ g - b - a \in Int /\ Congruent(g - below - above, g - b - a)
  <2>1. g - below - above \in Int /\ g - b - a \in Int
    BY <1>1, <1>2, <1>3
  <2>2. Congruent((g - below) - above, (g - b) - a)
    BY <1>1, <1>3, <1>7, CongruentSum
  <2> QED
    BY <2>1, <2>2
<1>9. inside \in 0 .. Q128 - 1 /\ Congruent(inside, g - below - above)
  BY <1>5, <1>8, CongruentRemainder
<1>10. Q128 \in Int
  BY PositionMathAssumption
<1>11. Congruent(g - b - a, g - below - above)
  BY <1>8, CongruentBack
<1>12. inside \in Int
  BY <1>9, <1>10
<1>13. Congruent(inside, g - b - a)
  BY <1>8, <1>9, <1>11, <1>12, CongruentVia
<1> QED
  BY <1>4, <1>9, <1>13 DEF inside, unreduced

-----------------------------------------------------------------------------
(* Liquidity and amounts.                                                  *)

\* Floor division answers how many times d fits into n.
LEMMA FloorFits ==
    ASSUME NEW n \in Nat, NEW d \in Nat \ {0}
    PROVE  /\ n \div d \in Nat
           /\ \A k \in Nat : k * d <= n <=> k <= n \div d
<1> DEFINE q == n \div d
<1>1. q \in Int /\ n = d * q + (n % d) /\ n % d \in 0 .. d - 1
  BY SMT
<1> HIDE DEF q
<1>2. q \in Nat
  <2>1. SUFFICES ASSUME q <= -1 PROVE FALSE
    BY <1>1
  <2>2. d * q <= -d
    BY <1>1, <2>1
  <2> QED
    BY <1>1, <2>2
<1>3. ASSUME NEW k \in Nat PROVE k * d <= n <=> k <= q
  <2>1. CASE k <= q
    <3>1. k * d <= q * d
      BY <1>2, <2>1
    <3> QED
      BY <1>1, <2>1, <3>1
  <2>2. CASE k >= q + 1
    <3>1. k * d >= (q + 1) * d
      BY <1>2, <2>2
    <3>2. (q + 1) * d = d * q + d
      BY <1>2
    <3>3. k * d > n
      BY <1>1, <3>1, <3>2
    <3> QED
      BY <1>2, <2>2, <3>3
  <2> QED
    BY <1>2, <2>1, <2>2
<1> QED
  BY <1>2, <1>3 DEF q

\* How much liquidity an amount of token0 gives is how much it is enough for.
LEMMA FitsToken0 ==
    ASSUME NEW a \in Nat \ {0}, NEW b \in Nat \ {0}, a < b, NEW x \in Nat
    PROVE  /\ Floor(LForAmount0(a, b, x)) \in Nat
           /\ \A k \in Nat : AtMost(Fraction((k * (b - a)) * Q96, a * b), Fraction(x, 1))
                                <=> k <= Floor(LForAmount0(a, b, x))
<1> DEFINE n == x * (a * b)
           d == Q96 * (b - a)
<1>1. Q96 \in Nat \ {0} /\ b - a \in Nat \ {0}
  BY PositionMathAssumption
<1>2. n \in Nat /\ d \in Nat \ {0}
  BY <1>1
<1>3. Floor(LForAmount0(a, b, x)) = n \div d
  BY DEF Floor, LForAmount0, Fraction
<1>4. ASSUME NEW k \in Nat
      PROVE  AtMost(Fraction((k * (b - a)) * Q96, a * b), Fraction(x, 1)) <=> k * d <= n
  <2>1. (k * (b - a)) * Q96 = k * d /\ k * d \in Int
    BY <1>1
  <2>2. AtMost(Fraction((k * (b - a)) * Q96, a * b), Fraction(x, 1))
            <=> ((k * (b - a)) * Q96) * 1 <= x * (a * b)
    BY DEF AtMost, Fraction
  <2> QED
    BY <2>1, <2>2
<1> HIDE DEF n, d
<1> QED
  BY <1>2, <1>3, <1>4, FloorFits

\* The same for token1.
LEMMA FitsToken1 ==
    ASSUME NEW a \in Nat \ {0}, NEW b \in Nat \ {0}, a < b, NEW y \in Nat
    PROVE  /\ Floor(LForAmount1(a, b, y)) \in Nat
           /\ \A k \in Nat : AtMost(Fraction(k * (b - a), Q96), Fraction(y, 1))
                                <=> k <= Floor(LForAmount1(a, b, y))
<1> DEFINE n == y * Q96
           d == b - a
<1>1. n \in Nat /\ d \in Nat \ {0}
  BY PositionMathAssumption
<1>2. Floor(LForAmount1(a, b, y)) = n \div d
  BY DEF Floor, LForAmount1, Fraction
<1>3. ASSUME NEW k \in Nat
      PROVE  AtMost(Fraction(k * (b - a), Q96), Fraction(y, 1)) <=> k * d <= n
  <2>1. AtMost(Fraction(k * (b - a), Q96), Fraction(y, 1)) <=> (k * (b - a)) * 1 <= y * Q96
    BY DEF AtMost, Fraction
  <2> QED
    BY <2>1
<1> HIDE DEF n, d
<1> QED
  BY <1>1, <1>2, <1>3, FloorFits

\* Liquidity is enough for the deposit exactly when liquidity_for_amounts gives
\* at least that much, below, in and above the range.
LEMMA LiquidityFits ==
    ASSUME NEW p \in Nat \ {0}, NEW l \in Nat \ {0}, NEW u \in Nat \ {0}, l < u,
           NEW x \in Nat, NEW y \in Nat
    PROVE  /\ LiquidityForAmounts(p, l, u, x, y) \in Nat
           /\ \A k \in Nat :
                (/\ AtMost(Amount0(p, l, u, k), Fraction(x, 1))
                 /\ AtMost(Amount1(p, l, u, k), Fraction(y, 1)))
                    <=> k <= LiquidityForAmounts(p, l, u, x, y)
<1>1. Q96 \in Nat \ {0}
  BY PositionMathAssumption
<1>2. CASE p <= l
  <2>1. Clamped(p, l, u) = l
    BY <1>2 DEF Clamped
  <2>2. LiquidityForAmounts(p, l, u, x, y) = Floor(LForAmount0(l, u, x))
    BY <1>2 DEF LiquidityForAmounts
  <2>3. ASSUME NEW k \in Nat PROVE AtMost(Amount1(p, l, u, k), Fraction(y, 1))
    <3>1. k * (l - l) = 0 /\ y * Q96 >= 0
      BY <1>1
    <3> QED
      BY <2>1, <3>1, <1>1 DEF AtMost, Amount1, Fraction
  <2>4. \A k \in Nat : Amount0(p, l, u, k) = Fraction((k * (u - l)) * Q96, l * u)
    BY <2>1 DEF Amount0
  <2>5. /\ Floor(LForAmount0(l, u, x)) \in Nat
        /\ \A k \in Nat : AtMost(Fraction((k * (u - l)) * Q96, l * u), Fraction(x, 1))
                              <=> k <= Floor(LForAmount0(l, u, x))
    BY FitsToken0
  <2> QED
    BY <2>2, <2>3, <2>4, <2>5, Zenon
<1>3. CASE l < p /\ p < u
  <2>1. Clamped(p, l, u) = p
    BY <1>3 DEF Clamped
  <2> DEFINE l0 == Floor(LForAmount0(p, u, x))
             l1 == Floor(LForAmount1(l, p, y))
  <2>2. /\ l0 \in Nat /\ l1 \in Nat
        /\ \A k \in Nat : AtMost(Amount0(p, l, u, k), Fraction(x, 1)) <=> k <= l0
        /\ \A k \in Nat : AtMost(Amount1(p, l, u, k), Fraction(y, 1)) <=> k <= l1
    <3>1. \A k \in Nat : Amount0(p, l, u, k) = Fraction((k * (u - p)) * Q96, p * u)
      BY <2>1 DEF Amount0
    <3>2. \A k \in Nat : Amount1(p, l, u, k) = Fraction(k * (p - l), Q96)
      BY <2>1 DEF Amount1
    <3>3. /\ l0 \in Nat
          /\ \A k \in Nat : AtMost(Fraction((k * (u - p)) * Q96, p * u), Fraction(x, 1))
                                <=> k <= l0
      BY <1>3, FitsToken0
    <3>4. /\ l1 \in Nat
          /\ \A k \in Nat : AtMost(Fraction(k * (p - l), Q96), Fraction(y, 1))
                                <=> k <= l1
      BY <1>3, FitsToken1
    <3> HIDE DEF l0, l1
    <3> QED
      BY <3>1, <3>2, <3>3, <3>4, Zenon
  <2>3. LiquidityForAmounts(p, l, u, x, y) = IF l0 <= l1 THEN l0 ELSE l1
    <3>1. ~(p <= l) /\ p < u
      BY <1>3
    <3> QED
      BY <3>1 DEF LiquidityForAmounts
  <2> HIDE DEF l0, l1
  <2> QED
    BY <2>2, <2>3
<1>4. CASE u <= p
  <2>1. Clamped(p, l, u) = u
    BY <1>4 DEF Clamped
  <2>2. LiquidityForAmounts(p, l, u, x, y) = Floor(LForAmount1(l, u, y))
    BY <1>4 DEF LiquidityForAmounts
  <2>3. ASSUME NEW k \in Nat PROVE AtMost(Amount0(p, l, u, k), Fraction(x, 1))
    <3>1. (k * (u - u)) * Q96 = 0 /\ x * (u * u) >= 0
      BY <1>1
    <3> QED
      BY <2>1, <3>1, <1>1 DEF AtMost, Amount0, Fraction
  <2>4. \A k \in Nat : Amount1(p, l, u, k) = Fraction(k * (u - l), Q96)
    BY <2>1 DEF Amount1
  <2>5. /\ Floor(LForAmount1(l, u, y)) \in Nat
        /\ \A k \in Nat : AtMost(Fraction(k * (u - l), Q96), Fraction(y, 1))
                              <=> k <= Floor(LForAmount1(l, u, y))
    BY FitsToken1
  <2> QED
    BY <2>2, <2>3, <2>4, <2>5, Zenon
<1> QED
  BY <1>2, <1>3, <1>4

\* A higher price leaves less token0 and more token1, inside the range and out.
LEMMA AmountsMonotone ==
    ASSUME NEW p \in Nat \ {0}, NEW r \in Nat \ {0}, p <= r,
           NEW l \in Nat \ {0}, NEW u \in Nat \ {0}, l < u, NEW liq \in Nat
    PROVE  /\ AtMost(Amount0(r, l, u, liq), Amount0(p, l, u, liq))
           /\ AtMost(Amount1(p, l, u, liq), Amount1(r, l, u, liq))
<1> DEFINE a == Clamped(p, l, u)
           b == Clamped(r, l, u)
<1>1. a \in Nat \ {0} /\ b \in Nat \ {0} /\ l <= a /\ a <= b /\ b <= u
  BY DEF Clamped
<1>2. Q96 \in Nat \ {0}
  BY PositionMathAssumption
<1> HIDE DEF a, b
<1>3. AtMost(Amount0(r, l, u, liq), Amount0(p, l, u, liq))
  <2>1. AtMost(Amount0(r, l, u, liq), Amount0(p, l, u, liq))
            <=> ((liq * (u - b)) * Q96) * (a * u) <= ((liq * (u - a)) * Q96) * (b * u)
    BY DEF AtMost, Amount0, Fraction, a, b
  <2>2. (u - b) * a <= (u - a) * b
    <3>1. u * a <= u * b
      BY <1>1
    <3>2. (u - b) * a = u * a - a * b /\ (u - a) * b = u * b - a * b
      BY <1>1
    <3> QED
      BY <1>1, <3>1, <3>2
  <2> DEFINE s == (u - b) * a
             t == (u - a) * b
             c == (liq * Q96) * u
  <2>3. c \in Nat /\ s \in Int /\ t \in Int
    BY <1>1, <1>2
  <2>4. ((liq * (u - b)) * Q96) * (a * u) = c * s
    BY <1>1, <1>2
  <2>5. ((liq * (u - a)) * Q96) * (b * u) = c * t
    BY <1>1, <1>2
  <2> HIDE DEF s, t, c
  <2>6. c * s <= c * t
    BY <2>2, <2>3 DEF s, t
  <2> QED
    BY <2>1, <2>4, <2>5, <2>6
<1>4. AtMost(Amount1(p, l, u, liq), Amount1(r, l, u, liq))
  <2>1. AtMost(Amount1(p, l, u, liq), Amount1(r, l, u, liq))
            <=> (liq * (a - l)) * Q96 <= (liq * (b - l)) * Q96
    BY DEF AtMost, Amount1, Fraction, a, b
  <2>2. liq * (a - l) <= liq * (b - l)
    BY <1>1
  <2>3. (liq * (a - l)) \in Int /\ (liq * (b - l)) \in Int
    BY <1>1
  <2> QED
    BY <1>2, <2>1, <2>2, <2>3
<1> QED
  BY <1>3, <1>4

-----------------------------------------------------------------------------
(* The life of a position.                                                 *)

\* Ticks and growth are integers, and prices follow the ticks.
LEMMA Grid ==
    /\ Bounds \subseteq Ticks /\ Ticks \subseteq Int /\ Growth \subseteq Int
    /\ \A t \in Ticks : SqrtPrice[t] \in Nat \ {0}
    /\ \A s, t \in Ticks : s < t => SqrtPrice[s] < SqrtPrice[t]
    /\ Q128 \in Nat \ {0} /\ Word \in Nat \ {0} /\ 0 .. Q128 - 1 \subseteq Int
    /\ 0 .. MaxGrowth \subseteq Int
  BY PositionMathAssumption DEF Ticks, Growth

\* What has been earned is what the growth inside has moved since the last
\* collect, up to multiples of Q128; the liquidity is that of the deposit.
FeesInv == Congruent(Inside, last + accrued)
LiquidityInv ==
    liquidity = LiquidityForAmounts(SqrtPrice[deposit.tick], SqrtPrice[lower],
                                    SqrtPrice[upper], deposit.amount0, deposit.amount1)
PositionInv == TypeOK /\ FeesInv /\ LiquidityInv

\* The growth inside the position's range, unreduced.
Unreduced ==
    InsideUnreduced(lower, upper, tick, global, outside[lower], outside[upper])

\* For a typed state, Inside is a remainder in the class of Unreduced.
LEMMA InsideFacts ==
    ASSUME TypeOK
    PROVE  /\ Inside \in 0 .. Q128 - 1 /\ Inside \in Int
           /\ Unreduced \in Int /\ Congruent(Inside, Unreduced)
<1>1. /\ lower \in Int /\ upper \in Int /\ tick \in Int /\ lower < upper
      /\ global \in Int /\ outside[lower] \in Int /\ outside[upper] \in Int
  BY Grid DEF TypeOK
<1> QED
  BY <1>1, InsideReduced, Grid DEF Inside, Unreduced

\* The same after a step.
LEMMA InsideFactsNext ==
    ASSUME TypeOK'
    PROVE  /\ Inside' \in 0 .. Q128 - 1 /\ Inside' \in Int
           /\ Unreduced' \in Int /\ Congruent(Inside', Unreduced')
<1>1. /\ lower' \in Int /\ upper' \in Int /\ tick' \in Int /\ lower' < upper'
      /\ global' \in Int /\ outside'[lower'] \in Int /\ outside'[upper'] \in Int
  BY Grid DEF TypeOK
<1> QED
  BY <1>1, InsideReduced, Grid DEF Inside, Unreduced

\* A step that moves the unreduced growth by what it adds to accrued keeps the
\* account of the fees.
LEMMA AccountKept ==
    ASSUME TypeOK, TypeOK', FeesInv, NEW d \in Int,
           Congruent(Unreduced', Unreduced + d),
           last' = last, accrued' = accrued + d
    PROVE  FeesInv'
<1>1. /\ last \in Int /\ accrued \in Int
      /\ Inside \in Int /\ Unreduced \in Int /\ Congruent(Inside, Unreduced)
      /\ Inside' \in Int /\ Unreduced' \in Int /\ Congruent(Inside', Unreduced')
  BY InsideFacts, InsideFactsNext, Grid DEF TypeOK
<1>2. Congruent(Inside, last + accrued)
  BY DEF FeesInv
<1>3. last + accrued \in Int /\ Unreduced + d \in Int /\ last' + accrued' = (last + accrued) + d
      /\ last' + accrued' \in Int
  BY <1>1
<1>4. Congruent(Unreduced, Inside) /\ Congruent(last + accrued, Inside)
  BY <1>1, <1>2, <1>3, CongruentBack
<1>5. Congruent(Unreduced, last + accrued)
  BY <1>1, <1>3, <1>4, CongruentVia
<1>6. Congruent(Unreduced + d, (last + accrued) + d)
  BY <1>1, <1>3, <1>5, CongruentSelf, CongruentSum
<1>7. Congruent(Unreduced + d, Unreduced')
  BY <1>1, <1>3, CongruentBack
<1>8. Congruent(last' + accrued', Unreduced + d)
  BY <1>3, <1>6, CongruentBack
<1>9. Congruent(Unreduced', Unreduced + d)
  OBVIOUS
<1>10. Congruent(last' + accrued', Unreduced')
  BY <1>1, <1>3, <1>7, <1>8, <1>9, CongruentVia
<1>11. Congruent(Inside', last' + accrued')
  BY <1>1, <1>3, <1>10, CongruentVia
<1> QED
  BY <1>11 DEF FeesInv

\* Swaps grow the inside of the range they happen in and no other.
LEMMA GrowthKeepsFees ==
    ASSUME TypeOK, TypeOK', FeesInv, FeesGrow
    PROVE  FeesInv'
<1>1. PICK g \in 1 .. MaxGrowth :
        /\ global' = (global + g) % Word
        /\ accrued' = IF Earns THEN accrued + g ELSE accrued
  BY DEF FeesGrow
<1>2. /\ lower' = lower /\ upper' = upper /\ tick' = tick /\ outside' = outside /\ last' = last
  BY DEF FeesGrow, position
<1>3. /\ lower \in Int /\ upper \in Int /\ tick \in Int /\ lower < upper
      /\ global \in Int /\ global' \in Int /\ outside[lower] \in Int /\ outside[upper] \in Int
      /\ accrued \in Int
  BY Grid DEF TypeOK
<1>3a. g \in Int
  BY <1>1, Grid
<1> DEFINE d == IF Earns THEN g ELSE 0
           c == outside[lower] + outside[upper]
<1>4. d \in Int /\ accrued' = accrued + d /\ c \in Int
  BY <1>1, <1>3, <1>3a
<1>5. Congruent(Unreduced', Unreduced + d)
  <2>1. Unreduced' = InsideUnreduced(lower, upper, tick, global', outside[lower], outside[upper])
    BY <1>2 DEF Unreduced
  <2>2. CASE Earns
    <3>1. Unreduced' = global' - c /\ Unreduced + d = (global + g) - c
      BY <1>3, <1>3a, <2>1, <2>2 DEF Unreduced, InsideUnreduced, Earns
    <3>2. global + g \in Int
      BY <1>3, <1>3a
    <3>3. Congruent(global', global + g)
      BY <1>1, <3>2, CongruentWord
    <3>4. Congruent(global' - c, (global + g) - c)
      BY <1>3, <1>4, <3>2, <3>3, CongruentSelf, CongruentSum
    <3> QED
      BY <3>1, <3>4
  <2>3. CASE ~Earns
    <3>1. Unreduced' = Unreduced /\ Unreduced \in Int /\ Unreduced + d = Unreduced
      BY <1>3, <2>1, <2>3 DEF Unreduced, InsideUnreduced, Earns
    <3> QED
      BY <3>1, CongruentSelf
  <2> QED
    BY <2>2, <2>3
<1> HIDE DEF d
<1> QED
  BY <1>2, <1>4, <1>5, AccountKept

\* A flipped bound, for the class of the growth on the other side of it.
LEMMA FlipFacts ==
    ASSUME TypeOK, NEW t \in Ticks, Flip(t), NEW b \in Bounds
    PROVE  IF b = t THEN Congruent(outside'[b], global - outside[b])
                    ELSE outside'[b] = outside[b]
<1>0. outside[b] \in Growth /\ global \in Growth
  BY DEF TypeOK
<1>1. global \in Int /\ outside[b] \in Int
  BY <1>0, Grid
<1>1a. global - outside[b] \in Int
  BY <1>1
<1>2. outside'[b] = IF b = t THEN (global - outside[b]) % Word ELSE outside[b]
  BY DEF Flip
<1> QED
  BY <1>1, <1>1a, <1>2, CongruentWord

\* Crossing a bound moves the tick and flips the bound: the inside stays.
LEMMA CrossingKeepsFees ==
    ASSUME TypeOK, TypeOK', FeesInv, PriceRises \/ PriceFalls
    PROVE  FeesInv'
<1>1. /\ lower' = lower /\ upper' = upper /\ global' = global
      /\ last' = last /\ accrued' = accrued
  BY DEF PriceRises, PriceFalls, position
<1>2. /\ lower \in Int /\ upper \in Int /\ tick \in Int /\ lower < upper
      /\ lower \in Bounds /\ upper \in Bounds
      /\ global \in Int /\ outside[lower] \in Int /\ outside[upper] \in Int
      /\ accrued \in Int
  BY Grid DEF TypeOK
<1>3. /\ outside'[lower] \in Int /\ outside'[upper] \in Int
  BY <1>1, Grid DEF TypeOK
<1> DEFINE ol == outside[lower]  ou == outside[upper]
           nl == outside'[lower] nu == outside'[upper]
<1>4. Unreduced = InsideUnreduced(lower, upper, tick, global, ol, ou)
      /\ Unreduced' = InsideUnreduced(lower, upper, tick', global, nl, nu)
  BY <1>1 DEF Unreduced
<1>5. PICK t \in Ticks :
        /\ Flip(t)
        /\ (tick' = t /\ tick = t - 1) \/ (tick' = t - 1 /\ tick = t)
  BY <1>2, Grid DEF PriceRises, PriceFalls, TypeOK
<1>6. t \in Int
  BY Grid
<1>7. /\ IF lower = t THEN Congruent(nl, global - ol) ELSE nl = ol
      /\ IF upper = t THEN Congruent(nu, global - ou) ELSE nu = ou
  BY <1>2, <1>5, FlipFacts
<1> HIDE DEF ol, ou, nl, nu
<1>8. ol \in Int /\ ou \in Int /\ nl \in Int /\ nu \in Int
      /\ global - ol \in Int /\ global - ou \in Int
  BY <1>2, <1>3 DEF ol, ou, nl, nu
<1>9. Congruent(nl, nl) /\ Congruent(nu, nu) /\ Congruent(ol, ol) /\ Congruent(ou, ou)
      /\ Congruent(global, global)
  BY <1>2, <1>8, CongruentSelf
<1>10. Congruent(Unreduced', Unreduced)
  <2>1. CASE lower # t /\ upper # t
    <3>1. nl = ol /\ nu = ou
      BY <1>7, <2>1
    <3>2. Unreduced' = Unreduced /\ Unreduced \in Int
      BY <1>2, <1>4, <1>5, <1>6, <1>8, <2>1, <3>1 DEF InsideUnreduced
    <3> QED
      BY <3>2, CongruentSelf
  <2>2. CASE lower = t
    <3>1. nu = ou /\ Congruent(nl, global - ol)
      BY <1>2, <1>7, <2>2
    <3>2. CASE tick' = t
      <4>1. Unreduced' = global - nl - ou /\ Unreduced = ol - ou
        BY <1>2, <1>4, <1>5, <1>6, <1>8, <2>2, <3>1, <3>2 DEF InsideUnreduced
      <4>2. Congruent(global - nl, global - (global - ol))
        BY <1>2, <1>8, <1>9, <3>1, CongruentSum
      <4>3. global - (global - ol) = ol /\ global - nl \in Int
        BY <1>2, <1>8
      <4>4. Congruent((global - nl) - ou, ol - ou)
        BY <1>8, <1>9, <4>2, <4>3, CongruentSum
      <4> QED
        BY <4>1, <4>4
    <3>3. CASE tick' # t
      <4>1. Unreduced' = nl - ou /\ Unreduced = (global - ol) - ou
        BY <1>2, <1>4, <1>5, <1>6, <1>8, <2>2, <3>1, <3>3 DEF InsideUnreduced
      <4>2. Congruent(nl - ou, (global - ol) - ou)
        BY <1>8, <1>9, <3>1, CongruentSum
      <4> QED
        BY <4>1, <4>2
    <3> QED
      BY <3>2, <3>3
  <2>3. CASE upper = t
    <3>1. nl = ol /\ Congruent(nu, global - ou)
      BY <1>2, <1>7, <2>3
    <3>2. CASE tick' = t
      <4>1. Unreduced' = nu - ol /\ Unreduced = (global - ou) - ol
        BY <1>2, <1>4, <1>5, <1>6, <1>8, <2>3, <3>1, <3>2 DEF InsideUnreduced
      <4>2. Congruent(nu - ol, (global - ou) - ol)
        BY <1>8, <1>9, <3>1, CongruentSum
      <4> QED
        BY <4>1, <4>2
    <3>3. CASE tick' # t
      <4>1. Unreduced' = (global - nu) - ol /\ Unreduced = ou - ol
        BY <1>2, <1>4, <1>5, <1>6, <1>8, <2>3, <3>1, <3>3 DEF InsideUnreduced
      <4>2. Congruent(global - nu, global - (global - ou))
        BY <1>2, <1>8, <1>9, <3>1, CongruentSum
      <4>3. global - (global - ou) = ou /\ global - nu \in Int
        BY <1>2, <1>8
      <4>4. Congruent((global - nu) - ol, ou - ol)
        BY <1>8, <1>9, <4>2, <4>3, CongruentSum
      <4> QED
        BY <4>1, <4>4
    <3> QED
      BY <3>2, <3>3
  <2> QED
    BY <2>1, <2>2, <2>3
<1>11. Unreduced \in Int /\ Unreduced + 0 = Unreduced
  BY InsideFacts
<1>12. accrued' = accrued + 0 /\ Congruent(Unreduced', Unreduced + 0)
  BY <1>1, <1>2, <1>10, <1>11
<1> QED
  BY <1>1, <1>12, AccountKept

\* Square roots of prices at ticks, as the amounts need them.
LEMMA SqrtFacts ==
    ASSUME NEW t \in Ticks, NEW l \in Bounds, NEW u \in Bounds, l < u
    PROVE  /\ SqrtPrice[t] \in Nat \ {0} /\ SqrtPrice[l] \in Nat \ {0}
           /\ SqrtPrice[u] \in Nat \ {0} /\ SqrtPrice[l] < SqrtPrice[u]
  BY Grid

\* Opening: typed, nothing earned yet, the liquidity of the deposit.
LEMMA OpensInv ==
    ASSUME TypeOK, Opens
    PROVE  PositionInv'
<1>1. /\ UNCHANGED <<tick, global, outside>>
      /\ lower' \in Bounds /\ upper' \in Bounds /\ lower' < upper'
      /\ last' = Inside' /\ accrued' = 0
  BY DEF Opens
<1>2. PICK x \in Deposits, y \in Deposits :
        /\ deposit' = [tick |-> tick, amount0 |-> x, amount1 |-> y]
        /\ liquidity' = LiquidityForAmounts(SqrtPrice[tick], SqrtPrice[lower'],
                                            SqrtPrice[upper'], x, y)
  BY DEF Opens
<1>3. x \in Nat /\ y \in Nat /\ tick \in Ticks /\ 0 \in 0 .. MaxGrowth
  BY PositionMathAssumption DEF TypeOK
<1>4. liquidity' \in Nat
  BY <1>1, <1>2, <1>3, SqrtFacts, LiquidityFits
<1>5. deposit' \in [tick : Ticks, amount0 : Nat, amount1 : Nat]
  BY <1>2, <1>3
<1>6. LiquidityInv'
  BY <1>1, <1>2 DEF LiquidityInv
<1>7. /\ lower' \in Int /\ upper' \in Int /\ tick' \in Int
      /\ global' \in Int /\ outside'[lower'] \in Int /\ outside'[upper'] \in Int
  BY <1>1, Grid DEF TypeOK
<1>8. Inside' \in 0 .. Q128 - 1 /\ Inside' \in Int
  BY <1>1, <1>7, InsideReduced, Grid DEF Inside
<1>9. TypeOK'
  BY <1>1, <1>3, <1>4, <1>5, <1>8 DEF TypeOK
<1>10. FeesInv'
  BY <1>1, <1>8, CongruentSelf DEF FeesInv
<1> QED
  BY <1>6, <1>9, <1>10 DEF PositionInv

\* The first state: liquidity 0 for no deposit, nothing earned.
LEMMA InitPositionInv == Init => PositionInv
<1> SUFFICES ASSUME Init PROVE PositionInv
  OBVIOUS
<1>1. /\ tick \in Ticks /\ global \in Growth /\ outside \in [Bounds -> Growth]
      /\ lower \in Bounds /\ upper \in Bounds /\ lower < upper
      /\ liquidity = 0 /\ last = Inside /\ accrued = 0
      /\ deposit = [tick |-> tick, amount0 |-> 0, amount1 |-> 0]
  BY DEF Init
<1>2. 0 \in 0 .. MaxGrowth /\ 0 \in Nat
  BY PositionMathAssumption
<1>3. /\ lower \in Int /\ upper \in Int /\ tick \in Int
      /\ global \in Int /\ outside[lower] \in Int /\ outside[upper] \in Int
  BY <1>1, Grid
<1>4. Inside \in 0 .. Q128 - 1 /\ Inside \in Int
  BY <1>1, <1>3, InsideReduced, Grid DEF Inside
<1>5. TypeOK
  BY <1>1, <1>2, <1>4 DEF TypeOK
<1>6. FeesInv
  BY <1>1, <1>4, CongruentSelf DEF FeesInv
<1>7. LiquidityInv
  <2> DEFINE p == SqrtPrice[tick]  l == SqrtPrice[lower]  u == SqrtPrice[upper]
             none == LiquidityForAmounts(p, l, u, 0, 0)
  <2>1. p \in Nat \ {0} /\ l \in Nat \ {0} /\ u \in Nat \ {0} /\ l < u
    BY <1>1, SqrtFacts
  <2> HIDE DEF p, l, u
  <2>2. none \in Nat
    BY <1>2, <2>1, LiquidityFits
  <2>3. ~(1 <= none)
    <3>1. SUFFICES ASSUME 1 <= none PROVE FALSE
      OBVIOUS
    <3>2. /\ AtMost(Amount0(p, l, u, 1), Fraction(0, 1))
          /\ AtMost(Amount1(p, l, u, 1), Fraction(0, 1))
      BY <1>2, <2>1, <3>1, LiquidityFits
    <3> DEFINE q == Clamped(p, l, u)
    <3>3. q \in Nat \ {0} /\ l <= q /\ q <= u
      BY <2>1 DEF Clamped
    <3>4. Q96 \in Nat \ {0}
      BY PositionMathAssumption
    <3> HIDE DEF q
    <3>5. ((1 * (u - q)) * Q96) * 1 <= 0 * (q * u)
      BY <3>2 DEF AtMost, Amount0, Fraction, q
    <3>6. (1 * (q - l)) * 1 <= 0 * Q96
      BY <3>2 DEF AtMost, Amount1, Fraction, q
    <3>7. u - q = 0
      <4>1. (u - q) * Q96 <= 0
        BY <2>1, <3>3, <3>4, <3>5
      <4> QED
        BY <2>1, <3>3, <3>4, <4>1
    <3>8. q - l = 0
      BY <2>1, <3>3, <3>4, <3>6
    <3> QED
      BY <2>1, <3>3, <3>7, <3>8
  <2>4. none = 0
    BY <2>2, <2>3
  <2> QED
    BY <1>1, <2>4 DEF LiquidityInv, p, l, u
<1> QED
  BY <1>5, <1>6, <1>7 DEF PositionInv

\* Every step of the pool and of the position keeps the account.
LEMMA NextPositionInv == PositionInv /\ [Next]_vars => PositionInv'
<1> SUFFICES ASSUME PositionInv, [Next]_vars PROVE PositionInv'
  OBVIOUS
<1>1. TypeOK /\ FeesInv /\ LiquidityInv
  BY DEF PositionInv
<1>2. CASE Opens
  BY <1>1, <1>2, OpensInv
<1>3. CASE FeesGrow
  <2>1. PICK g \in 1 .. MaxGrowth :
          /\ Earns => accrued + g <= MaxGrowth
          /\ global' = (global + g) % Word
          /\ accrued' = IF Earns THEN accrued + g ELSE accrued
    BY <1>3 DEF FeesGrow
  <2>2. UNCHANGED <<tick, outside, last, position>>
    BY <1>3 DEF FeesGrow
  <2>3. accrued' \in 0 .. MaxGrowth
    BY <1>1, <2>1, PositionMathAssumption DEF TypeOK
  <2>4. global \in Int /\ g \in Int
    BY <1>1, <2>1, Grid DEF TypeOK
  <2>5. global + g \in Int
    BY <2>4
  <2>6. global' \in Growth
    BY <2>1, <2>5, CongruentWord
  <2>7. TypeOK'
    BY <1>1, <2>2, <2>3, <2>6 DEF TypeOK, position
  <2>8. FeesInv'
    BY <1>1, <1>3, <2>7, GrowthKeepsFees
  <2>9. LiquidityInv'
    BY <1>1, <2>2 DEF LiquidityInv, position
  <2> QED
    BY <2>7, <2>8, <2>9 DEF PositionInv
<1>4. CASE PriceRises \/ PriceFalls
  <2>1. UNCHANGED <<global, last, accrued, position>> /\ tick' \in Ticks
    <3>1. tick' \in Ticks
      BY <1>4 DEF PriceRises, PriceFalls
    <3> QED
      BY <1>4, <3>1 DEF PriceRises, PriceFalls
  <2>2. outside' \in [Bounds -> Growth]
    <3>1. PICK t : Flip(t)
      BY <1>4 DEF PriceRises, PriceFalls
    <3>2. ASSUME NEW b \in Bounds PROVE (global - outside[b]) % Word \in Growth /\ outside[b] \in Growth
      <4>1. outside[b] \in Growth /\ global \in Growth
        BY <1>1 DEF TypeOK
      <4>2. outside[b] \in Int /\ global \in Int
        BY <4>1, Grid
      <4>3. global - outside[b] \in Int
        BY <4>2
      <4> QED
        BY <4>1, <4>3, CongruentWord
    <3>3. outside' = [b \in Bounds |->
                         IF b = t THEN (global - outside[b]) % Word ELSE outside[b]]
      BY <3>1 DEF Flip
    <3> QED
      BY <3>2, <3>3
  <2>3. TypeOK'
    BY <1>1, <2>1, <2>2 DEF TypeOK, position
  <2>4. FeesInv'
    BY <1>1, <1>4, <2>3, CrossingKeepsFees
  <2>5. LiquidityInv'
    BY <1>1, <2>1 DEF LiquidityInv, position
  <2> QED
    BY <2>3, <2>4, <2>5 DEF PositionInv
<1>5. CASE Collects
  <2>1. last' = Inside /\ accrued' = 0 /\ UNCHANGED <<tick, global, outside, position>>
    BY <1>5 DEF Collects
  <2>2. Inside' = Inside
    BY <2>1 DEF Inside, position
  <2>3. Inside \in 0 .. Q128 - 1 /\ Inside \in Int
    BY <1>1, InsideFacts
  <2>4. 0 \in 0 .. MaxGrowth
    BY PositionMathAssumption
  <2>5. TypeOK'
    BY <1>1, <2>1, <2>3, <2>4 DEF TypeOK, position
  <2>6. FeesInv'
    BY <2>1, <2>2, <2>3, CongruentSelf DEF FeesInv
  <2>7. LiquidityInv'
    BY <1>1, <2>1 DEF LiquidityInv, position
  <2> QED
    BY <2>5, <2>6, <2>7 DEF PositionInv
<1>6. CASE UNCHANGED vars
  BY <1>1, <1>6 DEF vars, PositionInv, TypeOK, FeesInv, LiquidityInv, Inside
<1> QED
  BY <1>2, <1>3, <1>4, <1>5, <1>6 DEF Next

\* Types, the account of the fees and the liquidity of the deposit are inductive.
THEOREM PositionInvariance == Spec => []PositionInv
  BY InitPositionInv, NextPositionInv, PTL DEF Spec

\* Every variable keeps its type.
THEOREM PositionTyping == Spec => []TypeOK
<1>1. PositionInv => TypeOK
  BY DEF PositionInv
<1> QED
  BY <1>1, PositionInvariance, PTL

\* fees_owed answers what the pool paid while the position was in range, modulo
\* Q128, for every range, every path of the price and every history of the pool.
THEOREM FeesMatchEarnings == Spec => []FeesOwedAsEarned
<1>1. PositionInv => FeesOwedAsEarned
  <2> SUFFICES ASSUME PositionInv PROVE FeesOwedAsEarned
    OBVIOUS
  <2>1. TypeOK /\ Congruent(Inside, last + accrued)
    BY DEF PositionInv, FeesInv
  <2>2. last \in Int /\ accrued \in Int /\ Inside \in Int
    BY <2>1, InsideFacts, Grid DEF TypeOK
  <2>3. Congruent(Inside - last, (last + accrued) - last)
    BY <2>1, <2>2, CongruentSelf, CongruentSum
  <2>4. (last + accrued) - last = accrued /\ Inside - last \in Int
    BY <2>2
  <2>5. (Inside - last) % Q128 = accrued % Q128
    BY <2>2, <2>3, <2>4, OneRemainder
  <2> QED
    BY <2>5 DEF FeesOwedAsEarned, FeesOwed
<1> QED
  BY <1>1, PositionInvariance, PTL

\* liquidity_for_amounts answers the largest liquidity the deposit is enough
\* for, for every range, every price and every deposit.
THEOREM LiquidityFitsDeposit == Spec => []LiquidityIsLargest
<1>1. PositionInv => LiquidityIsLargest
  <2> SUFFICES ASSUME PositionInv PROVE LiquidityIsLargest
    OBVIOUS
  <2> DEFINE p == SqrtPrice[deposit.tick]
             l == SqrtPrice[lower]
             u == SqrtPrice[upper]
  <2>1. deposit.tick \in Ticks /\ deposit.amount0 \in Nat /\ deposit.amount1 \in Nat
        /\ lower \in Bounds /\ upper \in Bounds /\ lower < upper /\ liquidity \in Nat
    BY DEF PositionInv, TypeOK
  <2>2. p \in Nat \ {0} /\ l \in Nat \ {0} /\ u \in Nat \ {0} /\ l < u
    BY <2>1, SqrtFacts
  <2>3. liquidity = LiquidityForAmounts(p, l, u, deposit.amount0, deposit.amount1)
    BY DEF PositionInv, LiquidityInv
  <2>4. \A k \in Nat : NoMoreThanDeposited(k) <=> k <= liquidity
    <3> HIDE DEF p, l, u
    <3>1. \A k \in Nat :
             (/\ AtMost(Amount0(p, l, u, k), Fraction(deposit.amount0, 1))
              /\ AtMost(Amount1(p, l, u, k), Fraction(deposit.amount1, 1)))
                 <=> k <= liquidity
      BY <2>1, <2>2, <2>3, LiquidityFits
    <3> QED
      BY <3>1 DEF NoMoreThanDeposited, p, l, u
  <2>5. liquidity + 1 \in Nat /\ ~(liquidity + 1 <= liquidity) /\ liquidity <= liquidity
    BY <2>1
  <2> QED
    BY <2>1, <2>4, <2>5 DEF LiquidityIsLargest
<1> QED
  BY <1>1, PositionInvariance, PTL

\* Along every rise of the price the position gives up token0 for token1.
THEOREM RisesSellToken0 == Spec => SellsIntoRises
<1>1. ASSUME PositionInv, [Next]_vars, PriceRises
      PROVE  AtMost(HeldToken0', HeldToken0) /\ AtMost(HeldToken1, HeldToken1')
  <2>1. tick \in Ticks /\ lower \in Bounds /\ upper \in Bounds /\ lower < upper
        /\ liquidity \in Nat
    BY <1>1 DEF PositionInv, TypeOK
  <2>2. tick' = tick + 1 /\ tick' \in Ticks /\ lower' = lower /\ upper' = upper
        /\ liquidity' = liquidity
    BY <1>1 DEF PriceRises, position
  <2>3. SqrtPrice[tick] < SqrtPrice[tick']
    BY <2>1, <2>2, Grid
  <2>4. /\ SqrtPrice[tick] \in Nat \ {0} /\ SqrtPrice[tick'] \in Nat \ {0}
        /\ SqrtPrice[lower] \in Nat \ {0} /\ SqrtPrice[upper] \in Nat \ {0}
        /\ SqrtPrice[lower] < SqrtPrice[upper]
    BY <2>1, <2>2, SqrtFacts
  <2>5. SqrtPrice[tick] <= SqrtPrice[tick']
    BY <2>3, <2>4
  <2> QED
    BY <2>1, <2>2, <2>4, <2>5, AmountsMonotone DEF HeldToken0, HeldToken1
<1>2. PositionInv /\ [Next]_vars
        => [PriceRises => AtMost(HeldToken0', HeldToken0) /\ AtMost(HeldToken1, HeldToken1')]_vars
  BY <1>1
<1> QED
  BY <1>2, PositionInvariance, PTL DEF Spec, SellsIntoRises
=============================================================================
