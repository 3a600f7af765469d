-------------------------- MODULE RangeStrategyProofs --------------------------
(* Ranges and triggers for all ticks, widths, spacings and buffers.            *)
EXTENDS RangeStrategy, TLAPS

\* Floor division by a positive number, below and above.
LEMMA FloorBounds ==
    ASSUME NEW t \in Int, NEW s \in Nat \ {0}
    PROVE  /\ SnapDown(t, s) \in Int
           /\ SnapDown(t, s) <= t /\ t < SnapDown(t, s) + s
           /\ SnapDown(t, s) % s = 0
<1> DEFINE q == t \div s
<1>1. q \in Int /\ t = s * q + (t % s) /\ t % s \in 0 .. s - 1
  BY SMT
<1>2. SnapDown(t, s) = q * s /\ q * s = s * q
  BY <1>1 DEF SnapDown
<1>3. SnapDown(t, s) <= t /\ t < SnapDown(t, s) + s /\ SnapDown(t, s) \in Int
  BY <1>1, <1>2
<1>4. (q * s) % s = 0
  BY <1>1, SMT
<1> QED
  BY <1>2, <1>3, <1>4

\* A multiple leaves no remainder.
LEMMA MultipleMod ==
    ASSUME NEW k \in Int, NEW s \in Nat \ {0}
    PROVE  ((-k) * s) % s = 0
<1>1. -k \in Int
  OBVIOUS
<1>2. ASSUME NEW j \in Int PROVE (j * s) % s = 0
  BY SMT
<1> QED
  BY <1>1, <1>2

\* The same for rounding up.
LEMMA CeilingBounds ==
    ASSUME NEW t \in Int, NEW s \in Nat \ {0}
    PROVE  /\ SnapUp(t, s) \in Int
           /\ SnapUp(t, s) - s < t /\ t <= SnapUp(t, s)
           /\ SnapUp(t, s) % s = 0
<1> DEFINE q == (-t) \div s
<1>1. SnapUp(t, s) = -SnapDown(-t, s)
  BY DEF SnapUp, SnapDown
<1>2. /\ SnapDown(-t, s) \in Int
      /\ SnapDown(-t, s) <= -t /\ -t < SnapDown(-t, s) + s
  BY FloorBounds
<1>3. q \in Int
  BY SMT
<1>4. SnapUp(t, s) = (-q) * s
  BY <1>1, <1>3 DEF SnapDown
<1>5. SnapUp(t, s) % s = 0
  BY <1>3, <1>4, MultipleMod
<1> QED
  BY <1>1, <1>2, <1>5

\* A range computed for a tick is snapped outwards to its spacing.
LEMMA SnappedOutward ==
    ASSUME NEW t \in Int, NEW h \in Nat, NEW s \in Nat \ {0}
    PROVE  LET l == SnapDown(t - h, s)
               u == SnapUp(t + h, s)
           IN  /\ l \in Int /\ u \in Int
               /\ l % s = 0 /\ u % s = 0
               /\ l <= t - h /\ t - h < l + s
               /\ u - s < t + h /\ t + h <= u
<1>1. t - h \in Int /\ t + h \in Int
  OBVIOUS
<1> QED
  BY <1>1, FloorBounds, CeilingBounds

RangeInv == TypeOK /\ SnapsOutward

\* The range start() opens with.
LEMMA InitRangeInv == Init => RangeInv
<1> SUFFICES ASSUME Init PROVE RangeInv
  OBVIOUS
<1>1. tick \in Int /\ half \in Nat /\ spacing = OpenSpacing /\ OpenSpacing \in Nat \ {0}
  BY RangeAssumption DEF Init
<1>2. lower = SnapDown(tick - half, spacing) /\ upper = SnapUp(tick + half, spacing)
      /\ centre = tick /\ entry = tick /\ apr \in Aprs /\ aged = FALSE
  BY DEF Init
<1> QED
  BY <1>1, <1>2, SnappedOutward DEF RangeInv, TypeOK, SnapsOutward

\* The market leaves the range alone; a rebalance computes it anew.
LEMMA NextRangeInv == RangeInv /\ [Next]_vars => RangeInv'
<1> SUFFICES ASSUME RangeInv, [Next]_vars PROVE RangeInv'
  OBVIOUS
<1>1. CASE MarketMoves
  BY <1>1, RangeAssumption DEF MarketMoves, RangeInv, TypeOK, SnapsOutward
<1>2. CASE Rebalances
  <2>1. PoolSpacing \in Nat \ {0} /\ HalfWidth \in Nat /\ tick \in Int
    BY RangeAssumption DEF RangeInv, TypeOK
  <2>2. /\ lower' = SnapDown(tick - HalfWidth, PoolSpacing)
        /\ upper' = SnapUp(tick + HalfWidth, PoolSpacing)
        /\ centre' = tick /\ half' = HalfWidth /\ spacing' = PoolSpacing
        /\ UNCHANGED <<tick, entry, apr, aged>>
    BY <1>2 DEF Rebalances, Sets
  <2> QED
    BY <2>1, <2>2, SnappedOutward DEF RangeInv, TypeOK, SnapsOutward
<1>3. CASE UNCHANGED vars
  BY <1>3 DEF vars, RangeInv, TypeOK, SnapsOutward
<1> QED
  BY <1>1, <1>2, <1>3 DEF Next

\* A snapped range is left only by a move that uses up the half width less the
\* buffer.
LEMMA LeavingFromInv == RangeInv => LeavingNeedsMove
<1> SUFFICES ASSUME RangeInv, RebalanceRequired
             PROVE  tick - centre > half - Buffer \/ centre - tick > half - Buffer
  BY DEF LeavingNeedsMove
<1>1. /\ tick \in Int /\ lower \in Int /\ upper \in Int /\ centre \in Int /\ half \in Nat
      /\ Buffer \in Nat /\ lower <= centre - half /\ centre + half <= upper
  BY RangeAssumption DEF RangeInv, TypeOK, SnapsOutward
<1>2. \/ tick < lower + Buffer \/ tick > upper - Buffer
  BY <1>1 DEF RebalanceRequired, Contains
<1> QED
  BY <1>1, <1>2

\* Outside the whole range is outside the buffered one, so that the range is
\* reported before the fees are looked at.
LEMMA FeesFromInv == RangeInv => FeesJudgedInRange
<1> SUFFICES ASSUME RangeInv, Reason = "FEE_DRAG"
             PROVE  Contains(lower, upper, tick) /\ apr = "low"
  BY DEF FeesJudgedInRange
<1>1. ~RebalanceRequired /\ FeeDragTriggered
  BY DEF Reason
<1>2. tick \in Int /\ lower \in Int /\ upper \in Int /\ Buffer \in Nat
  BY RangeAssumption DEF RangeInv, TypeOK
<1>3. Contains(lower, upper, tick)
  BY <1>1, <1>2 DEF RebalanceRequired, Contains
<1> QED
  BY <1>1, <1>3 DEF FeeDragTriggered

\* Types and outward snapping are inductive.
THEOREM Invariance == Spec => []RangeInv
  BY InitRangeInv, NextRangeInv, PTL DEF Spec

\* Every variable keeps its type.
THEOREM Typing == Spec => []TypeOK
<1>1. RangeInv => TypeOK
  BY DEF RangeInv
<1> QED
  BY <1>1, Invariance, PTL

\* The position's range is always the narrowest one on its spacing that holds
\* the ticks asked for.
THEOREM RangesSnapOutward == Spec => []SnapsOutward
<1>1. RangeInv => SnapsOutward
  BY DEF RangeInv
<1> QED
  BY <1>1, Invariance, PTL

\* A rebalance for leaving the range needs a move from the tick the range was
\* computed for, for every width, spacing and buffer.
THEOREM LeavingTakesAMove == Spec => []LeavingNeedsMove
  BY Invariance, LeavingFromInv, PTL

\* Fees are a reason to rebalance only inside the range, at the whole APR, for
\* every range and buffer.
THEOREM FeesOnlyInRange == Spec => []FeesJudgedInRange
  BY Invariance, FeesFromInv, PTL
=============================================================================
