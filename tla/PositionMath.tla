----------------------------- MODULE PositionMath -----------------------------
(***************************************************************************)
(* The arithmetic of a position: liquidity_for_amounts and                 *)
(* amounts_for_liquidity of core/il_math.py, fee_growth_inside and         *)
(* fees_owed of core/fee_math.py, followed along the life of a position in *)
(* a pool.                                                                 *)
(*                                                                         *)
(* The pool is external.  It counts the fees per unit of liquidity modulo  *)
(* Word (2^256) and keeps for each bound the growth on the other side of   *)
(* it, flipped whenever the price crosses; the code reads these modulo     *)
(* Q128.  A price is known as its tick.  Decimals are exact.               *)
(***************************************************************************)
EXTENDS Integers, ILMath

CONSTANTS
    MaxTick,     \* ticks are 0 .. MaxTick
    Bounds,      \* those on the pool's spacing
    SqrtPrice,   \* sqrt_price_from_tick
    Q96,         \* the unit of a square root of a price
    Q128,        \* the unit of fee growth
    Word,        \* the pool's accumulators wrap here
    Deposits,    \* amounts a position is opened with
    MaxGrowth    \* bound: fees per unit of liquidity between two collects

Ticks == 0 .. MaxTick
Growth == 0 .. Word - 1

ASSUME PositionMathAssumption ==
    /\ MaxTick \in Nat
    /\ Bounds \subseteq Ticks
    /\ SqrtPrice \in [Ticks -> Nat \ {0}]
    /\ \A s, t \in Ticks : s < t => SqrtPrice[s] < SqrtPrice[t]
    /\ Q96 \in Nat \ {0}
    /\ Q128 \in Nat \ {0}
    /\ \E k \in 1 .. Word : Word = k * Q128
    /\ Word \in Nat \ {0}
    /\ Deposits \subseteq Nat
    /\ MaxGrowth \in Nat

VARIABLES
    tick,           \* the pool's tick
    global,         \* feeGrowthGlobal
    outside,        \* feeGrowthOutside of each bound
    lower, upper,   \* the position's range
    liquidity,      \* and its liquidity
    last,           \* fee_growth_inside_last, of the last collect
    accrued,        \* ghost: growth while in range since then, unreduced
    deposit         \* ghost: the tick and the amounts it was opened with

vars == <<tick, global, outside, lower, upper, liquidity, last, accrued, deposit>>
position == <<lower, upper, liquidity, deposit>>

-----------------------------------------------------------------------------
(* Amounts.  Floor division is int() of a quotient that is never negative. *)

LForAmount0(a, b, amount0) ==
    Fraction(amount0 * (a * b), Q96 * (b - a))

LForAmount1(a, b, amount1) ==
    Fraction(amount1 * Q96, b - a)

Floor(f) == f.num \div f.den

\* Mutant of LiquidityForAmounts: in range only token0 is looked at.
LiquidityForToken0(p, l, u, amount0, amount1) ==
    IF p < u THEN Floor(LForAmount0(IF p <= l THEN l ELSE p, u, amount0))
    ELSE Floor(LForAmount1(l, u, amount1))

\* The lower of the two quotients has the lower floor.
LiquidityForAmounts(p, l, u, amount0, amount1) ==
    IF p <= l THEN Floor(LForAmount0(l, u, amount0))
    ELSE IF p < u
    THEN LET l0 == Floor(LForAmount0(p, u, amount0))
             l1 == Floor(LForAmount1(l, p, amount1))
         IN  IF l0 <= l1 THEN l0 ELSE l1
    ELSE Floor(LForAmount1(l, u, amount1))

Clamped(p, l, u) == IF p < l THEN l ELSE IF p > u THEN u ELSE p

\* amounts_for_liquidity.
Amount0(p, l, u, liq) ==
    LET q == Clamped(p, l, u) IN Fraction((liq * (u - q)) * Q96, q * u)

\* Mutant of Amount1: measured from the upper bound.
Amount1FromUpper(p, l, u, liq) ==
    Fraction(liq * (u - Clamped(p, l, u)), Q96)

Amount1(p, l, u, liq) == Fraction(liq * (Clamped(p, l, u) - l), Q96)

-----------------------------------------------------------------------------
(* Fees.                                                                   *)

\* Mutant of FeeGrowthInside: a difference that wrapped stays negative.
FeeGrowthInsideSigned(l, u, t, g, outLower, outUpper) ==
    LET below == IF t >= l THEN outLower ELSE g - outLower
        above == IF t < u THEN outUpper ELSE g - outUpper
    IN  g - below - above

\* Mutant of FeeGrowthInside: the upper bound counts as inside.
FeeGrowthInsideClosed(l, u, t, g, outLower, outUpper) ==
    LET below == IF t >= l THEN outLower ELSE (g - outLower) % Q128
        above == IF t <= u THEN outUpper ELSE (g - outUpper) % Q128
    IN  (g - below - above) % Q128

FeeGrowthInside(l, u, t, g, outLower, outUpper) ==
    LET below == IF t >= l THEN outLower ELSE (g - outLower) % Q128
        above == IF t < u THEN outUpper ELSE (g - outUpper) % Q128
    IN  (g - below - above) % Q128

\* In units of 1 / Q128.
FeesOwed(liq, before, now) == liq * ((now - before) % Q128)

Inside ==
    FeeGrowthInside(lower, upper, tick, global, outside[lower], outside[upper])

-----------------------------------------------------------------------------
(* The pool and the position in it.                                        *)

\* The position is opened at the pool's tick with the liquidity for its amounts.
Opens ==
    /\ UNCHANGED <<tick, global, outside>>
    /\ lower' \in Bounds /\ upper' \in Bounds
    /\ lower' < upper'
    /\ \E amount0, amount1 \in Deposits :
        /\ deposit' = [tick |-> tick, amount0 |-> amount0, amount1 |-> amount1]
        /\ liquidity' = LiquidityForAmounts(SqrtPrice[tick], SqrtPrice[lower'],
                                            SqrtPrice[upper'], amount0, amount1)
    /\ last' = Inside'
    /\ accrued' = 0

\* A pool with any history; the first position is still to be opened.
Init ==
    /\ tick \in Ticks
    /\ global \in Growth
    /\ outside \in [Bounds -> Growth]
    /\ lower \in Bounds /\ upper \in Bounds
    /\ lower < upper
    /\ liquidity = 0
    /\ deposit = [tick |-> tick, amount0 |-> 0, amount1 |-> 0]
    /\ last = Inside
    /\ accrued = 0

\* The pool shares fees among the positions that contain the tick, upper excluded.
Earns == lower <= tick /\ tick < upper

\* Swaps at the current tick pay g per unit of liquidity.
FeesGrow ==
    /\ \E g \in 1 .. MaxGrowth :
        /\ Earns => accrued + g <= MaxGrowth
        /\ global' = (global + g) % Word
        /\ accrued' = IF Earns THEN accrued + g ELSE accrued
    /\ UNCHANGED <<tick, outside, last, position>>

\* The pool crosses tick t: what was inside of a bound there is now outside.
Flip(t) ==
    outside' = [b \in Bounds |->
                   IF b = t THEN (global - outside[b]) % Word ELSE outside[b]]

PriceRises ==
    /\ tick + 1 \in Ticks
    /\ tick' = tick + 1
    /\ Flip(tick + 1)
    /\ UNCHANGED <<global, last, accrued, position>>

PriceFalls ==
    /\ tick - 1 \in Ticks
    /\ tick' = tick - 1
    /\ Flip(tick)
    /\ UNCHANGED <<global, last, accrued, position>>

\* Fees are paid out and counted from here.
Collects ==
    /\ last' = Inside
    /\ accrued' = 0
    /\ UNCHANGED <<tick, global, outside, position>>

Next == Opens \/ FeesGrow \/ PriceRises \/ PriceFalls \/ Collects

Spec == Init /\ [][Next]_vars

-----------------------------------------------------------------------------
(* Properties.                                                             *)

TypeOK ==
    /\ tick \in Ticks
    /\ global \in Growth
    /\ outside \in [Bounds -> Growth]
    /\ lower \in Bounds /\ upper \in Bounds /\ lower < upper
    /\ liquidity \in Nat
    /\ last \in 0 .. Q128 - 1
    /\ accrued \in 0 .. MaxGrowth
    /\ deposit \in [tick : Ticks, amount0 : Nat, amount1 : Nat]

\* "Mirrors the on-chain accumulator math" (fee_math.py 22): whatever swaps,
\* crossings and wraps lie between two collects, the fees owed are the
\* position's liquidity times what was paid while the tick was in its range,
\* less whole multiples of Q128, which the reduction of fee_math.py 25-26 drops.
FeesOwedAsEarned ==
    FeesOwed(liquidity, last, Inside) = liquidity * (accrued % Q128)

\* "Mirrors UniV3 LiquidityAmounts.sol" (il_math.py 38): the tokens of a
\* position's liquidity at the price it was opened at never exceed those it was
\* given, and one more unit of liquidity would (il_math.py 28-71).
NoMoreThanDeposited(liq) ==
    LET p == SqrtPrice[deposit.tick]
        l == SqrtPrice[lower]
        u == SqrtPrice[upper]
    IN  /\ AtMost(Amount0(p, l, u, liq), Fraction(deposit.amount0, 1))
        /\ AtMost(Amount1(p, l, u, liq), Fraction(deposit.amount1, 1))

LiquidityIsLargest ==
    /\ NoMoreThanDeposited(liquidity)
    /\ ~NoMoreThanDeposited(liquidity + 1)

HeldToken0 ==
    Amount0(SqrtPrice[tick], SqrtPrice[lower], SqrtPrice[upper], liquidity)
HeldToken1 ==
    Amount1(SqrtPrice[tick], SqrtPrice[lower], SqrtPrice[upper], liquidity)

\* A position sells token0 as the price rises and never buys it back on the
\* way, also beyond its bounds, where the price is clamped (il_math.py 66-69).
SellsIntoRises ==
    [][PriceRises => AtMost(HeldToken0', HeldToken0) /\ AtMost(HeldToken1, HeldToken1')]_vars
=============================================================================
