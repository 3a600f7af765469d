-------------------------------- MODULE ILMath --------------------------------
(***************************************************************************)
(* core/il_math.py, the part that sizes hedges: compute_il and             *)
(* delta_from_il as exact fractions.  Every price enters as its square     *)
(* root: p now, p0 for entry_price_usd, e for sqrt_entry, l and u for the  *)
(* range.  All are positive; decimal precision is left out.                *)
(***************************************************************************)
EXTENDS Integers

Fraction(n, d) == [num |-> n, den |-> d]

AtMost(a, b) == a.num * b.den <= b.num * a.den

\* The full-range position of compute_il's docstring: 2 sqrt(r) / (1 + r).
FullRange(p, p0) == Fraction(2 * p * p0, p * p + p0 * p0)

\* The branches of compute_il.  The lower one is tested first.
Below(p, p0, e, l) == p * e <= l * p0
Above(p, p0, e, u) == p * e >= u * p0

\* Mutant of LpOverHodl: below the range the lower bound stands for the upper.
LpAtLower(p, p0, e, l, u) ==
    IF Below(p, p0, e, l)
    THEN Fraction(2 * ((p * e) * (p * e)), (l * l) * (p * p + p0 * p0))
    ELSE IF Above(p, p0, e, u)
    THEN Fraction((2 * u) * (p0 * p0), l * (p * p + p0 * p0))
    ELSE FullRange(p, p0)

\* lp_val / hodl, of which compute_il returns the excess over 1.
LpOverHodl(p, p0, e, l, u) ==
    IF Below(p, p0, e, l)
    THEN Fraction(2 * ((p * e) * (p * e)), (l * u) * (p * p + p0 * p0))
    ELSE IF Above(p, p0, e, u)
    THEN Fraction((2 * u) * (p0 * p0), l * (p * p + p0 * p0))
    ELSE FullRange(p, p0)

\* What evaluate and should_remove_hedge distinguish of an IL: its size against
\* the threshold, in basis points, and whether it is above -0.2%.
Verdict(value, thresholdBps) ==
    LET excess == 10000 * (value.num - value.den)
    IN  IF excess >= thresholdBps * value.den THEN "gain"
        ELSE IF excess <= -(thresholdBps * value.den) THEN "loss"
        ELSE IF excess > -(20 * value.den) THEN "neutral" ELSE "mild"

\* delta_from_il for a position of 2 * p0 * p0 * exposure tokens.
DeltaFromIL(p, p0, exposure) == exposure * (p * (p0 - p))

Clamp(d, max) == IF d > max THEN max ELSE IF d < -max THEN -max ELSE d
=============================================================================
