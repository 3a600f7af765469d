----------------------------- MODULE RangeStrategy -----------------------------
(***************************************************************************)
(* strategies/range_strategy.py and the triggers of                        *)
(* rebalancing/rebalance_engine.py, as LPEngine.start and                  *)
(* LPEngine._process_rebalance use them: the range of ticks the position   *)
(* is opened with, when a new one is called for, and which.                *)
(*                                                                         *)
(* Prices are ticks: price_from_tick is monotone, so that a move of the    *)
(* price by max_il_pct is a number of ticks up or down.  The width found   *)
(* from the volatility, the fee APR and the estimated gain are inputs: the *)
(* two estimates that make the gain may even be of one and the same range, *)
(* since the entry of the cache may expire between them.                   *)
(***************************************************************************)
EXTENDS Integers

CONSTANTS
    Ticks,         \* the market's ticks
    Halves,        \* half widths fee_optimized_range may find
    OpenSpacing,   \* the default tick_spacing of fee_optimized_range, 60
    PoolSpacing,   \* _tick_spacing_for_fee
    HalfWidth,     \* default_range_width_ticks // 2
    Buffer,        \* rebalance_buffer_ticks
    IlDown, IlUp   \* moves down and up that change the price by max_il_pct

ASSUME RangeAssumption ==
    /\ Ticks \subseteq Int
    /\ Halves \subseteq Nat
    /\ OpenSpacing \in Nat \ {0}
    /\ PoolSpacing \in Nat \ {0}
    /\ HalfWidth \in Nat
    /\ Buffer \in Nat
    /\ IlDown \in Nat
    /\ IlUp \in Nat

VARIABLES
    tick,            \* the tick of the latest snapshot
    lower, upper,    \* _position.tick_range
    entry,           \* the tick of entry_price_usd, which no rebalance updates
    apr,             \* the pool's fee APR against min_fee_apr
    aged,            \* the snapshot's block is later than block_entered
    centre,          \* ghost: the tick for which the range was computed
    half,            \* ghost: the half width it was computed with
    spacing          \* ghost: the spacing it was snapped to

vars == <<tick, lower, upper, entry, apr, aged, centre, half, spacing>>

\* At least the minimum; at least when in range; never.
Aprs == {"high", "medium", "low"}

-----------------------------------------------------------------------------
(* Ranges.                                                                 *)

\* Mutant of SnapUp: floor division for the upper bound as well.
SnapUpFloors(t, s) == (t \div s) * s

SnapDown(t, s) == (t \div s) * s
SnapUp(t, s) == -(((-t) \div s) * s)

Contains(l, u, t) == l <= t /\ t <= u

\* Mutant of RebalanceRequired: the buffer is applied twice to one bound.
RebalanceRequiredLopsided ==
    ~Contains(lower + 2 * Buffer, upper, tick)

\* The buffer moves both bounds inwards, unless nothing would be left.
RebalanceRequired ==
    IF lower + Buffer >= upper - Buffer
    THEN ~Contains(lower, upper, tick)
    ELSE ~Contains(lower + Buffer, upper - Buffer, tick)

\* Mutant of Sets: no spacing is kept.
SetsUnsnapped(t, h, s) ==
    /\ lower' = t - h
    /\ upper' = t + h
    /\ centre' = t
    /\ half' = h
    /\ spacing' = 1

\* The range is computed around the current tick t with half width h.
Sets(t, h, s) ==
    /\ lower' = SnapDown(t - h, s)
    /\ upper' = SnapUp(t + h, s)
    /\ centre' = t
    /\ half' = h
    /\ spacing' = s

-----------------------------------------------------------------------------
(* Triggers, in their order.                                               *)

IlTriggered == tick - entry > IlUp \/ entry - tick > IlDown

\* The APR counts half out of range, unless the position was opened in the very
\* block of the snapshot.
FeeDragTriggered ==
    \/ apr = "low"
    \/ apr = "medium" /\ aged /\ ~Contains(lower, upper, tick)

\* Mutant of Reason: the cheaper test of the fees is made before the range's.
ReasonFeesFirst ==
    IF FeeDragTriggered THEN "FEE_DRAG"
    ELSE IF RebalanceRequired THEN "OUT_OF_RANGE"
    ELSE IF IlTriggered THEN "IL_THRESHOLD"
    ELSE "NONE"

Reason ==
    IF RebalanceRequired THEN "OUT_OF_RANGE"
    ELSE IF IlTriggered THEN "IL_THRESHOLD"
    ELSE IF FeeDragTriggered THEN "FEE_DRAG"
    ELSE "NONE"

-----------------------------------------------------------------------------
(* The position.                                                           *)

\* start(): the range found for the first snapshot.
Init ==
    /\ tick \in Ticks
    /\ half \in Halves
    /\ spacing = OpenSpacing
    /\ lower = SnapDown(tick - half, spacing)
    /\ upper = SnapUp(tick + half, spacing)
    /\ entry = tick
    /\ centre = tick
    /\ apr \in Aprs
    /\ aged = FALSE

\* The next snapshot, which may be of the same block or, from another node, of an
\* earlier one.
MarketMoves ==
    /\ tick' \in Ticks
    /\ apr' \in Aprs
    /\ aged' \in BOOLEAN
    /\ UNCHANGED <<lower, upper, entry, centre, half, spacing>>

\* evaluate finds a reason and a range with a gain, and the rebalance succeeds.
Rebalances ==
    /\ Reason # "NONE"
    /\ Sets(tick, HalfWidth, PoolSpacing)
    /\ UNCHANGED <<tick, entry, apr, aged>>

Next == MarketMoves \/ Rebalances

Spec == Init /\ [][Next]_vars

-----------------------------------------------------------------------------
(* Properties.                                                             *)

TypeOK ==
    /\ tick \in Int
    /\ lower \in Int
    /\ upper \in Int
    /\ entry \in Int
    /\ apr \in Aprs
    /\ aged \in BOOLEAN
    /\ centre \in Int
    /\ half \in Nat
    /\ spacing \in {OpenSpacing, PoolSpacing}

\* The bounds are multiples of the spacing and the range is the narrowest such
\* that holds the ticks asked for: rounding is outwards on both sides, for
\* negative ticks too (range_strategy.py 133-136).
SnapsOutward ==
    /\ lower % spacing = 0 /\ upper % spacing = 0
    /\ lower <= centre - half /\ centre - half < lower + spacing
    /\ upper - spacing < centre + half /\ centre + half <= upper

\* "Buffer avoids flapping near the edges" (range_strategy.py 79): a range
\* counts as left only when the market has moved from the tick it was computed
\* for by more than what the buffer leaves of its half width; right after a
\* rebalance with a half width of at least the buffer it never does.
LeavingNeedsMove ==
    RebalanceRequired =>
        \/ tick - centre > half - Buffer
        \/ centre - tick > half - Buffer

\* The order of the triggers decides what the fees are compared with
\* (rebalance_engine.py 106-112, 171-176): a position out of its range is
\* always reported as such, because the buffer only narrows the range, so fees
\* are a reason only inside the range and only when the whole APR is too low;
\* the halved APR of a position out of its range never decides anything.
FeesJudgedInRange ==
    Reason = "FEE_DRAG" => Contains(lower, upper, tick) /\ apr = "low"
=============================================================================
