------------------------- MODULE HedgedPositionProofs -------------------------
(* The IL formulas and the hedge they drive, for all prices and ranges.       *)
EXTENDS HedgedPosition, PerpHedgeProofs

\* Products keep the order of their factors.
LEMMA ProductOrder ==
    ASSUME NEW a \in Nat, NEW b \in Nat, NEW c \in Nat, a <= b
    PROVE  a * c <= b * c /\ c * a <= c * b /\ a * c \in Nat /\ b * c \in Nat
OBVIOUS

\* And strictly, for a positive factor.
LEMMA ProductCancel ==
    ASSUME NEW a \in Nat, NEW b \in Nat, NEW c \in Nat \ {0}, a * c <= b * c
    PROVE  a <= b
OBVIOUS

\* The mean inequality behind IL(r) <= 0.
LEMMA MeanInequality ==
    ASSUME NEW a \in Nat, NEW b \in Nat
    PROVE  (2 * a) * b <= a * a + b * b
<1>1. (a - b) * (a - b) >= 0
  OBVIOUS
<1>2. (a - b) * (a - b) = a * a + b * b - (2 * a) * b
  OBVIOUS
<1> QED
  BY <1>1, <1>2

\* A position below its range loses more than a full-range one.
LEMMA BelowIsWorse ==
    ASSUME NEW p \in Nat \ {0}, NEW p0 \in Nat \ {0}, NEW e \in Nat \ {0},
           NEW l \in Nat \ {0}, NEW u \in Nat \ {0},
           e < u, Below(p, p0, e, l)
    PROVE  (p * e) * (p * e) <= (p * p0) * (l * u)
<1> DEFINE x == p * e
<1> DEFINE y == l * p0
<1>1. x \in Nat /\ y \in Nat /\ x <= y
  BY DEF Below
<1>2. x * x <= x * y
  <2> HIDE DEF x, y
  <2> QED
    BY <1>1, ProductOrder
<1>3. p * e <= p * u
  BY ProductOrder
<1>4. p * u \in Nat
  OBVIOUS
<1>5. x * y <= (p * u) * y
  <2> DEFINE z == p * u
  <2>1. z \in Nat /\ x <= z
    BY <1>3, <1>4
  <2> HIDE DEF x, y, z
  <2>2. x * y <= z * y
    BY <2>1, <1>1, ProductOrder
  <2> QED
    BY <2>2 DEF z
<1>6. (p * u) * (l * p0) = (p * p0) * (l * u)
  OBVIOUS
<1>7. x * x \in Nat /\ x * y \in Nat /\ (p * u) * y \in Nat
  OBVIOUS
<1> QED
  BY <1>2, <1>5, <1>6, <1>7

\* Unless the price is above the range, a position is worth no more than a
\* full-range one, and so no more than holding.
LEMMA NeverBetter ==
    ASSUME NEW p \in Nat \ {0}, NEW p0 \in Nat \ {0}, NEW e \in Nat \ {0},
           NEW l \in Nat \ {0}, NEW u \in Nat \ {0},
           e < u, ~Above(p, p0, e, u)
    PROVE  /\ AtMost(LpOverHodl(p, p0, e, l, u), FullRange(p, p0))
           /\ LpOverHodl(p, p0, e, l, u).num <= LpOverHodl(p, p0, e, l, u).den
           /\ LpOverHodl(p, p0, e, l, u).num \in Nat
           /\ LpOverHodl(p, p0, e, l, u).den \in Nat \ {0}
<1> DEFINE s == p * p + p0 * p0
<1> DEFINE full == (2 * p) * p0
<1>1. s \in Nat \ {0} /\ full \in Nat /\ full <= s /\ FullRange(p, p0) = Fraction(full, s)
  <2>1. p * p \in Nat /\ p0 * p0 \in Nat /\ p * p > 0 /\ full \in Nat
    OBVIOUS
  <2>2. full <= s
    BY MeanInequality
  <2>3. 2 * p * p0 = full
    OBVIOUS
  <2> QED
    BY <2>1, <2>2, <2>3 DEF FullRange
<1>2. CASE Below(p, p0, e, l)
  <2> DEFINE xx == (p * e) * (p * e)
  <2> DEFINE w == l * u
  <2> DEFINE pp == p * p0
  <2>1. xx <= pp * w
    BY <1>2, BelowIsWorse
  <2>2. LpOverHodl(p, p0, e, l, u) = Fraction(2 * xx, w * s)
    BY <1>2 DEF LpOverHodl
  <2>3. xx \in Nat /\ w \in Nat \ {0} /\ pp \in Nat /\ full = 2 * pp
    <3>1. p * e \in Nat /\ l * u \in Nat /\ l * u > 0
      OBVIOUS
    <3>2. xx \in Nat
      BY <3>1
    <3> QED
      BY <3>1, <3>2
  <2> HIDE DEF xx, w, pp, s, full
  <2>4. 2 * xx <= full * w /\ full * w \in Nat
    <3>1. full * w = 2 * (pp * w) /\ pp * w \in Nat
      BY <2>3
    <3> QED
      BY <2>1, <2>3, <3>1
  <2>5. (2 * xx) * s <= (full * w) * s
    BY <1>1, <2>3, <2>4, ProductOrder
  <2>6. (full * w) * s = full * (w * s)
    BY <1>1, <2>3
  <2>7. full * w <= s * w
    BY <1>1, <2>3, ProductOrder
  <2>8. s * w = w * s /\ w * s \in Nat \ {0}
    BY <1>1, <2>3
  <2>9. 2 * xx <= w * s
    BY <2>3, <2>4, <2>7, <2>8
  <2> QED
    BY <1>1, <2>2, <2>3, <2>5, <2>6, <2>8, <2>9 DEF AtMost, Fraction
<1>3. CASE ~Below(p, p0, e, l)
  <2>1. LpOverHodl(p, p0, e, l, u) = Fraction(full, s)
    BY <1>1, <1>3 DEF LpOverHodl
  <2> HIDE DEF s, full
  <2> QED
    BY <1>1, <2>1 DEF AtMost, Fraction
<1> QED
  BY <1>2, <1>3

\* The sum of squares is not larger than twice the product only at the entry
\* price; so a gain is found only above the range, where the price is above the
\* entry price.
LEMMA GainIsAbove ==
    ASSUME NEW p \in Nat \ {0}, NEW p0 \in Nat \ {0}, NEW e \in Nat \ {0},
           NEW l \in Nat \ {0}, NEW u \in Nat \ {0}, NEW bps \in Nat,
           e < u, bps > 0,
           Verdict(LpOverHodl(p, p0, e, l, u), bps) = "gain"
    PROVE  p > p0
<1> DEFINE v == LpOverHodl(p, p0, e, l, u)
<1>1. CASE Above(p, p0, e, u)
  <2>1. SUFFICES ASSUME p <= p0 PROVE FALSE
    OBVIOUS
  <2>2. u * p0 <= p * e /\ u * p0 \in Nat /\ p * e \in Nat
    BY <1>1 DEF Above
  <2>3. p * e <= p0 * e
    BY <2>1, ProductOrder
  <2>4. e * p0 < u * p0
    OBVIOUS
  <2>5. e * p0 = p0 * e
    OBVIOUS
  <2> QED
    BY <2>2, <2>3, <2>4, <2>5
<1>2. CASE ~Above(p, p0, e, u)
  <2>1. v.num <= v.den /\ v.num \in Nat /\ v.den \in Nat \ {0}
    BY <1>2, NeverBetter
  <2> HIDE DEF v
  <2>2. bps * v.den > 0
    BY <2>1
  <2>3. 10000 * (v.num - v.den) <= 0
    BY <2>1
  <2>4. ~(10000 * (v.num - v.den) >= bps * v.den)
    BY <2>1, <2>2, <2>3
  <2>5. Verdict(v, bps) # "gain"
    BY <2>4 DEF Verdict
  <2> QED
    BY <2>5 DEF v
<1> QED
  BY <1>1, <1>2

\* Above the entry price the target is negative, and it is never beyond the cap.
LEMMA TargetSign ==
    ASSUME PositionAssumption, NEW p \in Prices
    PROVE  LET t == Clamp(DeltaFromIL(p, EntryPrice, Exposure), MaxDelta)
           IN  t \in -MaxDelta .. MaxDelta /\ (p > EntryPrice => t < 0)
<1> DEFINE d == EntryPrice - p
<1> DEFINE raw == DeltaFromIL(p, EntryPrice, Exposure)
<1>1. p \in Nat \ {0} /\ EntryPrice \in Nat /\ Exposure \in Nat \ {0}
      /\ MaxDelta \in Nat \ {0}
  BY HedgeAssumption DEF PositionAssumption, HedgeAssumption
<1>2. raw \in Int /\ (d < 0 => raw < 0)
  <2>1. p * d \in Int /\ (d < 0 => p * d < 0)
    BY <1>1
  <2>2. raw = Exposure * (p * d)
    BY DEF DeltaFromIL
  <2> DEFINE m == p * d
  <2> HIDE DEF m
  <2>3. Exposure * m \in Int /\ (m < 0 => Exposure * m < 0)
    BY <1>1, <2>1 DEF m
  <2> QED
    BY <2>1, <2>2, <2>3 DEF m
<1>3. d \in Int /\ (p > EntryPrice => d < 0)
  BY <1>1
<1> HIDE DEF raw, d
<1>4. Clamp(raw, MaxDelta) \in -MaxDelta .. MaxDelta
      /\ (raw < 0 => Clamp(raw, MaxDelta) < 0)
  BY <1>1, <1>2 DEF Clamp
<1> QED
  BY <1>2, <1>3, <1>4 DEF raw

-----------------------------------------------------------------------------
(* The specification.                                                      *)

\* The position is in a range around the price it was last moved to.
PositionInv ==
    /\ {price, entry, lower, upper} \subseteq Prices
    /\ lower < entry /\ entry < upper

\* The position's values are prices.
LEMMA PositionTypes ==
    ASSUME PositionInv
    PROVE  /\ price \in Nat \ {0} /\ EntryPrice \in Nat \ {0} /\ entry \in Nat \ {0}
           /\ lower \in Nat \ {0} /\ upper \in Nat \ {0}
BY PositionAssumption DEF PositionInv, PositionAssumption

\* Only a rebalance moves the range, to one around the pool's price.
THEOREM PositionInvariance == HedgedSpec => []PositionInv
<1> USE PositionAssumption DEF PositionAssumption, PositionInv
<1>1. PositionInit => PositionInv
  BY DEF PositionInit
<1>2. PositionInv /\ [HedgedNext]_hedgedVars => PositionInv'
  BY DEF HedgedNext, MarketTick, Rebalances, Hedges, hedgedVars, positionVars
<1> QED
  BY <1>1, <1>2, PTL DEF HedgedSpec

\* The price, the IL and the target of a tick are those of one position: what
\* PerpHedge chooses freely.
LEMMA TickRefines ==
    ASSUME PositionInv, PositionInv', MarketTick
    PROVE  Tick
<1>1. il' \in ILs
  BY DEF MarketTick, Verdict, ILs
<1>2. target' = Clamp(DeltaFromIL(price', EntryPrice, Exposure), MaxDelta)
      /\ price' \in Prices
  BY DEF MarketTick
<1>3. target' \in -MaxDelta .. MaxDelta /\ (price' > EntryPrice => target' < 0)
  BY <1>2, TargetSign, PositionAssumption
<1>4. target' \in Deltas
  BY <1>3, PositionAssumption DEF PositionAssumption
<1>5. il' = "gain" => target' < 0
  <2> SUFFICES ASSUME il' = "gain" PROVE price' > EntryPrice
    BY <1>3
  <2>1. /\ price' \in Nat \ {0} /\ EntryPrice \in Nat \ {0} /\ entry' \in Nat \ {0}
        /\ lower' \in Nat \ {0} /\ upper' \in Nat \ {0} /\ entry' < upper'
        /\ ThresholdBps \in Nat /\ ThresholdBps > 0
    <3>1. {price', entry', lower', upper'} \subseteq Prices /\ entry' < upper'
      BY DEF PositionInv
    <3>2. \A q \in Prices : q \in Nat \ {0}
      BY PositionAssumption DEF PositionAssumption
    <3>3. EntryPrice \in Prices /\ ThresholdBps \in Nat /\ ThresholdBps >= 20
      BY PositionAssumption DEF PositionAssumption
    <3> QED
      BY <3>1, <3>2, <3>3
  <2>2. Verdict(LpOverHodl(price', EntryPrice, entry', lower', upper'), ThresholdBps)
          = "gain"
    BY DEF MarketTick, PoolValue
  <2> QED
    BY <2>1, <2>2, GainIsAbove
<1> QED
  BY <1>1, <1>4, <1>5 DEF MarketTick, Tick

\* The hedge of a position that is rebalanced behaves as PerpHedge says: the
\* formulas of il_math.py meet the assumption it makes about the market.
THEOREM PositionImplementsHedge == HedgedSpec => ImplementsPerpHedge
<1>1. PositionInit => Init
  BY DEF PositionInit
<1>2. PositionInv /\ PositionInv' /\ [HedgedNext]_hedgedVars => [Next]_vars
  <2> SUFFICES ASSUME PositionInv, PositionInv', HedgedNext PROVE [Next]_vars
    BY DEF hedgedVars
  <2>1. CASE MarketTick
    BY <2>1, TickRefines DEF Next
  <2>2. CASE Rebalances
    BY <2>2 DEF Rebalances
  <2>3. CASE Hedges
    <3>1. price * price \in Spots
      BY PositionAssumption DEF PositionAssumption, PositionInv
    <3> QED
      BY <2>3, <3>1 DEF Hedges, Next
  <2> QED
    BY <2>1, <2>2, <2>3 DEF HedgedNext
<1> QED
  BY <1>1, <1>2, PositionInvariance, PTL DEF HedgedSpec, Spec, ImplementsPerpHedge

\* The variables of the hedge and of the position keep their types.
THEOREM HedgedTyping == HedgedSpec => []HedgedTypeOK
<1>1. TypeOK /\ PositionInv => HedgedTypeOK
  BY DEF HedgedTypeOK, PositionInv
<1> QED
  BY <1>1, PositionImplementsHedge, PositionInvariance, Typing, PTL
     DEF ImplementsPerpHedge

\* For all prices of the oracle, the pool and the venue, all ranges, caps and
\* faults, and over any number of ticks and rebalances: every order costs at
\* most its slack, and every one gone astray three caps more.
THEOREM HedgedVenue == HedgedSpec => []VenueAsRecorded
BY PositionImplementsHedge, VenueIsAsRecorded, PTL DEF ImplementsPerpHedge

\* compute_il never values a concentrated position above a full-range one below
\* or inside its range, whatever the position was rebalanced to.
THEOREM ConcentrationNeverPays == HedgedSpec => []ConcentratedIsWorse
<1>1. PositionInv => ConcentratedIsWorse
  <2> SUFFICES ASSUME PositionInv, ~Above(price, EntryPrice, entry, upper)
               PROVE  AtMost(PoolValue, FullRange(price, EntryPrice))
    BY DEF ConcentratedIsWorse
  <2> QED
    BY PositionTypes, NeverBetter DEF PositionInv, PoolValue
<1> QED
  BY <1>1, PositionInvariance, PTL
=============================================================================
