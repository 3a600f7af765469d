---------------------------- MODULE HedgedPosition ----------------------------
(***************************************************************************)
(* The hedge manager of PerpHedge with the IL and the target delta         *)
(* computed from the position (ILHedgeManager._compute_il and              *)
(* _target_hedge_delta) while the engine rebalances it.  A rebalance moves *)
(* the range and entry_sqrt_price; entry_price_usd and the token amounts   *)
(* stay those of the first position.                                       *)
(*                                                                         *)
(* The oracle's price and the pool's are separate sources, so a rebalance  *)
(* takes any pool price, and a tick any oracle price.                      *)
(***************************************************************************)
EXTENDS PerpHedge, ILMath

CONSTANTS
    Prices,         \* square roots of prices
    EntryPrice,     \* square root of entry_price_usd
    Exposure,       \* token amounts, in units of 2 * EntryPrice * EntryPrice
    ThresholdBps    \* il_hedge_threshold_bps

ASSUME PositionAssumption ==
    /\ Prices \subseteq Nat \ {0}
    /\ EntryPrice \in Prices
    /\ Exposure \in Nat \ {0}
    /\ MaxDelta > 0
    /\ ThresholdBps \in Nat /\ ThresholdBps >= 20
    /\ Deltas = -MaxDelta .. MaxDelta
    /\ \A p \in Prices : p * p \in Spots

VARIABLES
    price,    \* current_price_usd of the last tick
    entry,    \* entry_sqrt_price
    lower,    \* sqrt_lower
    upper     \* sqrt_upper

positionVars == <<price, entry, lower, upper>>
hedgedVars == <<vars, positionVars>>

\* A position is opened around the price of the pool.
PositionInit ==
    /\ Init
    /\ price = EntryPrice
    /\ entry = EntryPrice
    /\ lower \in {p \in Prices : p < EntryPrice}
    /\ upper \in {p \in Prices : p > EntryPrice}

PoolValue == LpOverHodl(price, EntryPrice, entry, lower, upper)

MarketTick ==
    /\ pc = "idle"
    /\ pc' = "evaluate"
    /\ price' \in Prices
    /\ UNCHANGED <<entry, lower, upper>>
    /\ il' = Verdict(PoolValue', ThresholdBps)
    /\ target' = Clamp(DeltaFromIL(price', EntryPrice, Exposure), MaxDelta)
    /\ UNCHANGED <<attempt, book>>

\* Mutant of Rebalances: the range moves, the entry does not.
RebalancesRangeOnly ==
    /\ pc = "idle"
    /\ \E q \in Prices :
        /\ lower' \in {p \in Prices : p < q}
        /\ upper' \in {p \in Prices : p > q}
    /\ UNCHANGED <<price, entry, vars>>

\* The engine moves the position to a range around the pool's price.
Rebalances ==
    /\ pc = "idle"
    /\ entry' \in Prices
    /\ lower' \in {p \in Prices : p < entry'}
    /\ upper' \in {p \in Prices : p > entry'}
    /\ UNCHANGED <<price, vars>>

Hedges == Handles(price * price) /\ UNCHANGED positionVars

HedgedNext == MarketTick \/ Rebalances \/ Hedges

HedgedSpec == PositionInit /\ [][HedgedNext]_hedgedVars

-----------------------------------------------------------------------------
(* Properties.                                                             *)

HedgedTypeOK ==
    /\ TypeOK
    /\ {price, entry, lower, upper} \subseteq Prices

\* The hedge of PerpHedge, whose market is free but for one thing: an IL that
\* counts as a gain comes with a negative target.  The formulas keep that for
\* every price and range, with the entry price of the first position in them
\* after any number of rebalances (il_math.py 74-132, il_hedge.py 114-137).
ImplementsPerpHedge == Spec

\* "For concentrated ranges it's worse at the edges" (il_math.py 83): whatever
\* the position has been rebalanced to, a concentrated position is never valued
\* above a full-range one, unless the price is above the range, where
\* compute_il jumps to a gain (il_math.py 98-105).
ConcentratedIsWorse ==
    ~Above(price, EntryPrice, entry, upper) =>
        AtMost(PoolValue, FullRange(price, EntryPrice))
=============================================================================
