---------------------------- MODULE CircuitBreaker ----------------------------
(***************************************************************************)
(* utils/circuit_breaker.py, driven the way LPEngine.run_loop and          *)
(* LPEngine._tick drive it: one asyncio task that, once per tick, calls    *)
(* check(), asks allow_rebalance() and reports record_rebalance(), while   *)
(* signal handlers may set the stop flag at any await.                     *)
(*                                                                         *)
(* The clock is time.time(), assumed not to go backwards.  Only the        *)
(* awaits of the tick separate its steps; code between two awaits is one   *)
(* action.                                                                 *)
(***************************************************************************)
EXTENDS Integers, Sequences

CONSTANTS
    MaxRebalancesPerHour,   \* max_rebalances_per_hour
    Hour,                   \* the sliding window of record_rebalance
    StaleAfter,             \* the age at which the oracle counts as stale
    MaxDrawdownPct,         \* max_pnl_drawdown_pct, in percent
    Values,                 \* position values a tick may observe
    HasRedis,               \* whether a redis client was configured
    MaxNow                  \* bound of the clock, for model checking

ASSUME BreakerAssumption ==
    /\ MaxRebalancesPerHour \in Nat
    /\ Hour \in Nat
    /\ StaleAfter \in Nat
    /\ MaxDrawdownPct \in Nat
    /\ Values \subseteq Nat
    /\ HasRedis \in BOOLEAN
    /\ MaxNow \in Nat

VARIABLES
    now,              \* time.time()
    rebalanceTimes,   \* the deque _rebalance_times
    peak,             \* _peak_value_usd, NoValue for None
    stopRequested,    \* _stop_requested
    tripped,          \* _tripped
    phase,            \* where the engine's task is between two awaits
    value,            \* pos_usd of the current tick
    history           \* ghost: the time of every rebalance ever recorded

breakerVars == <<rebalanceTimes, peak, stopRequested, tripped>>
vars == <<now, rebalanceTimes, peak, stopRequested, tripped, phase, value, history>>

NoValue == -1

Phases ==
    { "loop",       \* at the top of run_loop's while
      "tick",       \* in _tick, before breaker.check
      "redis",      \* in check, awaiting the redis key
      "trading",    \* check returned untripped; hedging, about to rebalance
      "approved",   \* allow_rebalance returned True
      "halted",     \* run_loop left because the breaker had tripped
      "stopped" }   \* run_loop left through the graceful stop

Init ==
    /\ now = 0
    /\ rebalanceTimes = <<>>
    /\ peak = NoValue
    /\ stopRequested = FALSE
    /\ tripped = FALSE
    /\ phase = "loop"
    /\ value = NoValue
    /\ history = <<>>

-----------------------------------------------------------------------------
(* The limits.                                                             *)

RateExceeded == Len(rebalanceTimes) > 2 * MaxRebalancesPerHour

NewPeak(v) == IF peak = NoValue \/ v > peak THEN v ELSE peak

DrawdownExceeded(top, v) == top > 0 /\ (top - v) * 100 > MaxDrawdownPct * top

OracleStale(lastUpdate) == now - lastUpdate > StaleAfter

\* Mutants of AllowRebalance: the comparison off by one; the threshold of the
\* hard trip.
AllowOneMore == Len(rebalanceTimes) <= MaxRebalancesPerHour
AllowUpToHardTrip == Len(rebalanceTimes) <= 2 * MaxRebalancesPerHour

AllowRebalance == Len(rebalanceTimes) < MaxRebalancesPerHour

-----------------------------------------------------------------------------
(* The loop and the tick.                                                  *)

Moves(from, to) == phase = from /\ phase' = to

\* Mutant of LoopTop: the stop flag is not looked at.
LoopTopDeaf ==
    /\ phase = "loop"
    /\ phase' = IF tripped THEN "halted" ELSE "tick"
    /\ UNCHANGED <<now, breakerVars, value, history>>

\* The tests at the top of the loop: tripped first, then the stop flag.
LoopTop ==
    /\ phase = "loop"
    /\ phase' = IF tripped THEN "halted"
                ELSE IF stopRequested THEN "stopped" ELSE "tick"
    /\ UNCHANGED <<now, breakerVars, value, history>>

\* check() is skipped altogether once a stop is requested.
CheckSkipped == tripped \/ stopRequested

CheckReturnsAtOnce ==
    /\ CheckSkipped
    /\ Moves("tick", IF tripped THEN "loop" ELSE "trading")
    /\ value' \in Values
    /\ UNCHANGED <<now, breakerVars, history>>

\* check() up to its only await: the peak is raised before it is compared.
CheckAt(lastUpdate) ==
    /\ ~CheckSkipped
    /\ \E v \in Values :
        /\ value' = v
        /\ peak' = NewPeak(v)
        /\ tripped' = (RateExceeded \/ DrawdownExceeded(NewPeak(v), v)
                                    \/ OracleStale(lastUpdate))
        /\ Moves("tick", IF tripped' THEN "loop"
                         ELSE IF HasRedis THEN "redis" ELSE "trading")
    /\ UNCHANGED <<now, rebalanceTimes, stopRequested, history>>

\* The breaker alone takes a price of any age; MarketData says which ages the
\* caches allow.
Check == \E lastUpdate \in 0 .. now : CheckAt(lastUpdate)

\* Mutant of RedisAnswers: the tick goes on after the trip.
RedisIgnored ==
    /\ phase = "redis"
    /\ tripped' \in {tripped, TRUE}
    /\ phase' = "trading"
    /\ UNCHANGED <<now, rebalanceTimes, peak, stopRequested, value, history>>

\* The answer of redis.get: the key is set, or absent, or the call failed
\* (which is logged and ignored).
RedisAnswers ==
    /\ phase = "redis"
    /\ tripped' \in {tripped, TRUE}
    /\ phase' = IF tripped' THEN "loop" ELSE "trading"
    /\ UNCHANGED <<now, rebalanceTimes, peak, stopRequested, value, history>>

AskAllowRebalance ==
    /\ Moves("trading", IF AllowRebalance THEN "approved" ELSE "loop")
    /\ UNCHANGED <<now, breakerVars, value, history>>

\* Mutant of RecordRebalance: the start of the window is recorded for the time.
RecordCutoff ==
    /\ Moves("approved", "loop")
    /\ rebalanceTimes' = Append(rebalanceTimes, now - Hour)
    /\ history' = Append(history, now)
    /\ UNCHANGED <<now, peak, stopRequested, tripped, value>>

\* record_rebalance: append, then pop from the left while older than the window.
RecordRebalance ==
    LET appended == Append(rebalanceTimes, now)
        cutoff == now - Hour
    IN  /\ Moves("approved", "loop")
        /\ \E k \in 1 .. Len(appended) :
            /\ \A j \in 1 .. k - 1 : appended[j] < cutoff
            /\ appended[k] >= cutoff
            /\ rebalanceTimes' = SubSeq(appended, k, Len(appended))
        /\ history' = Append(history, now)
        /\ UNCHANGED <<now, peak, stopRequested, tripped, value>>

\* A fetch, an order or a transaction of the tick raised, or the rebalance
\* engine did not approve: the tick ends and the loop goes on.
TickEnds ==
    /\ phase \in {"tick", "trading", "approved"}
    /\ phase' = "loop"
    /\ UNCHANGED <<now, breakerVars, value, history>>

-----------------------------------------------------------------------------
(* Signals and the clock.                                                  *)

RequestStop ==
    /\ phase \notin {"halted", "stopped"}
    /\ stopRequested' = TRUE
    /\ UNCHANGED <<now, rebalanceTimes, peak, tripped, phase, value, history>>

ClockTicks ==
    /\ now < MaxNow
    /\ now' = now + 1
    /\ UNCHANGED <<breakerVars, phase, value, history>>

Engine ==
    \/ LoopTop
    \/ CheckReturnsAtOnce
    \/ Check
    \/ RedisAnswers
    \/ AskAllowRebalance
    \/ RecordRebalance
    \/ TickEnds

Next == Engine \/ RequestStop \/ ClockTicks

Spec == Init /\ [][Next]_vars

-----------------------------------------------------------------------------
(* Properties.                                                             *)

TypeOK ==
    /\ now \in Nat
    /\ rebalanceTimes \in Seq(Nat)
    /\ peak \in Nat \cup {NoValue}
    /\ stopRequested \in BOOLEAN
    /\ tripped \in BOOLEAN
    /\ phase \in Phases
    /\ value \in Nat \cup {NoValue}
    /\ history \in Seq(Nat)

\* Any MaxRebalancesPerHour + 1 consecutive rebalances of a process span more
\* than an hour, although the deque is pruned only when a rebalance is recorded
\* and the permission is given several awaits before it (circuit_breaker.py
\* 65-71 and 94-103, engine.py 222-253).
RateLimit ==
    \A i \in 1 .. Len(history) :
        i + MaxRebalancesPerHour <= Len(history)
            => history[i + MaxRebalancesPerHour] - history[i] > Hour

\* The hard trip on the rebalance rate (circuit_breaker.py 107-112) never fires:
\* allow_rebalance keeps the deque at half its threshold.
HardRateTripUnreachable == ~RateExceeded

\* Nothing is traded once the breaker has tripped (engine.py 177-178), and
\* unless a stop was requested every trade is made at a value that passed the
\* drawdown limit against the highest value seen.
TradesWithinLimits ==
    phase \in {"trading", "approved"} =>
        /\ ~tripped
        /\ stopRequested \/ ~DrawdownExceeded(peak, value)

\* "keep a sliding 1-hour window" (line 68), "%d in last hour" (line 99): a
\* rebalance is refused only when the limit was used up within the last hour.
BlockedOnlyWhenFull ==
    phase = "trading" /\ ~AllowRebalance =>
        \E i \in 1 .. Len(history) :
            /\ i + MaxRebalancesPerHour - 1 = Len(history)
            /\ history[i] >= now - Hour
=============================================================================
