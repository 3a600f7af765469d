------------------------------- MODULE PerpHedge -------------------------------
(***************************************************************************)
(* hedging/il_hedge.py and hedging/perp_executor.py, driven the way        *)
(* LPEngine._process_hedge and LPEngine.stop drive them: the hedge the     *)
(* manager believes in, and the position the Hyperliquid adapter's orders  *)
(* build up at the venue.                                                  *)
(*                                                                         *)
(* Deltas are integers of one unit of size, the venue's position counts    *)
(* lots.  An adjustment is worth its change at the spot price of the tick, *)
(* and is sized by the venue's mid price, which is another market's.  The  *)
(* market is abstracted to the IL and the target delta it leads to.  The   *)
(* venue is external: it may fill an immediate-or-cancel order in part,    *)
(* and its answer may be lost after any fill.                              *)
(***************************************************************************)
EXTENDS Integers

CONSTANTS
    MaxDelta,      \* token amounts times max_hedge_ratio
    Deltas,        \* targets of _target_hedge_delta, capped by MaxDelta
    Spots,         \* current_price_usd
    Mids,          \* mid prices of the venue
    Basis,         \* the mid is off the spot price by at most 1/Basis of itself
    Lot,           \* 0.0001, to which round(sz, 4) rounds the size of an order
    Least,         \* 0.001, the least change traded, and the least delta that
                   \* evaluate divides an error by
    MinNotional,   \* 100, the least worth of a hedge opened
    SmallSize,     \* 0.05, below which a hedge may be removed
    MaxAttempts,   \* stop_after_attempt(3)
    MaxOrders,     \* bound of the orders filled between two closes
    MaxFaults,     \* bound of the faults of the venue
    NoHedge        \* _hedge is None

ASSUME HedgeAssumption ==
    /\ MaxDelta \in Nat
    /\ Deltas \subseteq -MaxDelta .. MaxDelta
    /\ Spots \subseteq Nat \ {0}
    /\ Mids \subseteq Nat \ {0}
    /\ Basis \in Nat \ {0}
    /\ Lot \in Nat \ {0}
    /\ Least \in Nat /\ Lot <= 2 * Least
    /\ MinNotional \in Nat
    /\ SmallSize \in Nat
    /\ MaxAttempts \in Nat \ {0}
    /\ MaxOrders \in Nat
    /\ MaxFaults \in Nat
    /\ NoHedge \notin Int

VARIABLES
    pc,        \* where the engine's task is
    attempt,   \* the attempt of the order under way
    il,        \* the IL of the tick
    target,    \* the target delta of the tick
    hedge,     \* _hedge.delta, NoHedge for None
    venue,     \* the position at the venue in lots, negative when short
    faults,    \* faults so far
    orders,    \* ghost: the orders filled as their caller believes, and
    astray,    \* ghost: those not, since the position was last closed
    opened     \* ghost: the delta the hedge was opened with

book == <<hedge, venue, faults, orders, astray, opened>>

vars == <<pc, attempt, il, target, book>>

Places ==
    { "idle",       \* outside _process_hedge
      "evaluate",   \* at evaluate()
      "open",       \* awaiting open_short
      "adjust",     \* awaiting adjust_position
      "remove",     \* awaiting close_position in _process_hedge
      "stop",       \* awaiting close_position in stop()
      "ended" }     \* stop() has returned or raised

\* The IL against the threshold of evaluate and the -0.2% of
\* should_remove_hedge: below both; a loss below the threshold only; a loss to
\* hedge; a gain to hedge, which compute_il finds above the range.
ILs == {"neutral", "mild", "loss", "gain"}

Size(d) == IF d < 0 THEN -d ELSE d

Init ==
    /\ pc = "idle" /\ attempt = 1
    /\ il = "neutral" /\ target = 0
    /\ hedge = NoHedge
    /\ venue = 0
    /\ faults = 0 /\ orders = 0 /\ astray = 0 /\ opened = 0

-----------------------------------------------------------------------------
(* Decisions.                                                              *)

\* The price above the entry calls for a negative delta (delta_from_il).
Tick ==
    /\ pc = "idle"
    /\ pc' = "evaluate"
    /\ il' \in ILs
    /\ target' \in Deltas
    /\ il' = "gain" => target' < 0
    /\ UNCHANGED <<attempt, book>>

\* The error is more than a tenth of the target.
Drifted(from, to) ==
    Size(to - from) * 10 > IF Size(to) < Least THEN Least ELSE Size(to)

Worth == il \in {"loss", "gain"}

Goes(from, to) ==
    /\ pc = from
    /\ pc' = to
    /\ attempt' = 1
    /\ UNCHANGED <<il, target>>

\* None from evaluate ends _process_hedge, and an open below the minimal
\* notional ends the tick with an exception.
Leaves(spot) ==
    /\ \/ ~Worth
       \/ hedge = NoHedge /\ Size(target) * spot < MinNotional
       \/ hedge # NoHedge /\ ~Drifted(hedge, target)
    /\ Goes("evaluate", "idle")
    /\ UNCHANGED book

Opens(spot) ==
    /\ Worth
    /\ hedge = NoHedge
    /\ Size(target) * spot >= MinNotional
    /\ orders < MaxOrders
    /\ Goes("evaluate", "open")
    /\ UNCHANGED book

Adjusts ==
    /\ Worth
    /\ hedge # NoHedge
    /\ Drifted(hedge, target)
    /\ orders < MaxOrders
    /\ Goes("evaluate", "adjust")
    /\ UNCHANGED book

\* should_remove_hedge is asked only after an action, of the new delta.
AfterOrder(delta) == IF il = "gain" /\ Size(delta) < SmallSize THEN "remove" ELSE "idle"

-----------------------------------------------------------------------------
(* Orders, by the lots they add to the position.                           *)

\* The lots nearest to the size n/d; at a tie the binary fraction decides.
Rounded(n, d) ==
    {k \in {n \div (Lot * d), n \div (Lot * d) + 1} : 2 * Size(n - Lot * k * d) <= Lot * d}

\* Less than the least change is not traded: adjust_position returns a noop.
Converted(n, d) == IF Size(n) < Least * d THEN {0} ELSE Rounded(n, d)

Near(mid, spot) == Basis * Size(mid - spot) <= mid

\* open_short sells the size; adjust_position sells the change of the delta,
\* worth it at the spot price, whatever the position it reads; close_position
\* trades away the position.
Quantities(spot) ==
    CASE pc = "open"   -> Rounded(-Size(target), 1)
      [] pc = "adjust" -> UNION {Converted((hedge - target) * spot, mid) :
                                    mid \in {m \in Mids : Near(m, spot)}}
      [] OTHER         -> {-venue}

Fault ==
    /\ faults < MaxFaults
    /\ faults' = faults + 1

\* What an order of q lots may fill short of q.
Part(q) == IF q < 0 THEN q + 1 .. 0 ELSE 0 .. q - 1

\* The order of q lots is filled; one that closes the position settles the
\* orders before it.
Filled(q) ==
    /\ venue' = venue + q
    /\ IF pc \in {"open", "adjust"}
       THEN orders' = orders + 1 /\ UNCHANGED astray
       ELSE orders' = 0 /\ astray' = 0
    /\ UNCHANGED faults

\* It fills f lots, not as its caller believes.
GoesAstray(f) ==
    /\ Fault
    /\ venue' = venue + f
    /\ astray' = astray + 1
    /\ UNCHANGED orders

Answered(spot) ==
    \E q \in Quantities(spot) : Filled(q) \/ \E f \in Part(q) : GoesAstray(f)

OpenReturns(spot) ==
    /\ Answered(spot)
    /\ Goes("open", AfterOrder(target))
    /\ hedge' = target
    /\ opened' = target

\* Mutant of AdjustReturns: the new delta is not recorded.
AdjustUnrecorded(spot) ==
    /\ Answered(spot)
    /\ Goes("adjust", AfterOrder(target))
    /\ UNCHANGED <<hedge, opened>>

AdjustReturns(spot) ==
    /\ Answered(spot)
    /\ Goes("adjust", AfterOrder(target))
    /\ hedge' = target
    /\ UNCHANGED opened

CloseReturns(spot) ==
    /\ Answered(spot)
    /\ Goes("remove", "idle") \/ Goes("stop", "ended")
    /\ hedge' = NoHedge
    /\ UNCHANGED opened

\* A call of the adapter raises, before its order or after any fill of it.
Fails(spot) ==
    /\ \/ Fault /\ UNCHANGED <<venue, orders, astray>>
       \/ \E q \in Quantities(spot) : \E f \in Part(q) \cup {q} : GoesAstray(f)
    /\ UNCHANGED <<hedge, opened>>

\* Mutant of OrderRaises: one attempt too many.
OrderRaisesOnceMore(spot) ==
    /\ pc \in {"open", "adjust"}
    /\ Fails(spot)
    /\ IF attempt <= MaxAttempts
       THEN attempt' = attempt + 1 /\ UNCHANGED <<pc, il, target>>
       ELSE Goes(pc, "idle")

\* Opening and adjusting are attempted again; the last exception ends the tick.
OrderRaises(spot) ==
    /\ pc \in {"open", "adjust"}
    /\ Fails(spot)
    /\ IF attempt < MaxAttempts
       THEN attempt' = attempt + 1 /\ UNCHANGED <<pc, il, target>>
       ELSE Goes(pc, "idle")

\* Closing is not; the exception ends the tick or stop().
CloseRaises(spot) ==
    /\ Fails(spot)
    /\ Goes("remove", "idle") \/ Goes("stop", "ended")

\* The engine stops with a hedge open.
Stop ==
    /\ hedge # NoHedge
    /\ Goes("idle", "stop")
    /\ UNCHANGED book

\* What follows the evaluation of the market, at the spot price of its tick.
Handles(spot) ==
    \/ Leaves(spot) \/ Opens(spot) \/ Adjusts
    \/ OpenReturns(spot) \/ AdjustReturns(spot) \/ CloseReturns(spot)
    \/ OrderRaises(spot) \/ CloseRaises(spot)
    \/ Stop

Next == Tick \/ \E spot \in Spots : Handles(spot)

Spec == Init /\ [][Next]_vars

-----------------------------------------------------------------------------
(* Properties.                                                             *)

TypeOK ==
    /\ pc \in Places
    /\ attempt \in 1 .. MaxAttempts
    /\ il \in ILs
    /\ target \in Int
    /\ hedge \in Int \cup {NoHedge}
    /\ venue \in Int
    /\ faults \in Nat
    /\ orders \in Nat
    /\ astray \in Nat
    /\ opened \in Int

\* What the orders of the recorded hedge would add up to, filled to the letter.
Recorded == IF hedge = NoHedge THEN 0 ELSE opened - Size(opened) - hedge

\* How far, times Basis, an order may leave the position from what it is
\* recorded to add, and what one that goes astray may add to that.
OrderSlack == 2 * MaxDelta + Basis * Least

AstraySlack == OrderSlack + 3 * MaxDelta * Basis

\* "hedging too much just introduces more risk" (il_hedge.py 135): the cap of
\* max_hedge_ratio holds for the target of a tick, but orders add up, and none
\* compares the position with the delta recorded.  Every order filled leaves
\* the venue at most OrderSlack further from the short first opened, moved
\* against every change of the delta since: an adjustment is worth its change
\* at another market's price, is not traded at all below 0.001, and is rounded,
\* while the delta is recorded in full.  Every order not filled as believed
\* costs at most three caps more: the worst is a close that is hardly filled
\* and forgets a hedge that had been turned round.  Only a close that is filled
\* settles the account (perp_executor.py 57-94, 114-164; il_hedge.py 93-106).
VenueAsRecorded ==
    Basis * Size(Lot * venue - Recorded) <= OrderSlack * orders + AstraySlack * astray

\* "Hedge delta should be negative (short) when price goes up" (test_il_math.py
\* 60), "negative = short" (perp_executor.py 131): a hedge with a negative delta
\* is a short at the venue.
NegativeDeltaIsShort ==
    astray = 0 /\ pc = "idle" /\ hedge # NoHedge => (hedge < 0 => venue < 0)

\* "unwind if IL reversed and we're close to neutral" (il_hedge.py 90): a tick
\* that finds the IL neutral and the hedge small removes it.
NeutralHedgeIsRemoved ==
    [][pc = "evaluate" /\ il = "neutral" /\ hedge # NoHedge /\ Size(hedge) < SmallSize
         => pc' = "remove"]_vars
=============================================================================
