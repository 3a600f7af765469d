------------------------------ MODULE MarketData ------------------------------
(***************************************************************************)
(* The data a tick works on: PoolDataClient.fetch_snapshot, the price      *)
(* cache of PriceOracle (Pyth, then Chainlink) and the fee APR cache of    *)
(* PoolAnalytics (subgraph, then DefiLlama, then a constant), composed     *)
(* with the circuit breaker that looks at the age of the price.            *)
(*                                                                         *)
(* What CircuitBreaker calls the start of the tick and its trading phase   *)
(* are split here at every await.  A lookup that the cache answers awaits  *)
(* nothing and is part of the action before it.                            *)
(***************************************************************************)
EXTENDS CircuitBreaker

CONSTANTS
    CacheTtl,    \* the age below which PriceOracle returns a cached price
    AprTtl,      \* _CACHE_TTL_S of PoolAnalytics
    MaxAwait,    \* longest time one client call takes (client timeouts)
    PythIds      \* the symbols of _PYTH_IDS the engine asks for

Symbols == {"token0", "ETH"}
Entries == Symbols \cup {"feeApr"}

\* Two calls, those for the price of ETH, may pass between the price of token0
\* and the breaker's look at its age.
ASSUME MarketAssumption ==
    /\ CacheTtl \in Nat
    /\ AprTtl \in Nat
    /\ MaxAwait \in Nat
    /\ CacheTtl + 2 * MaxAwait <= StaleAfter
    /\ PythIds \subseteq Symbols

VARIABLES
    quoted,     \* when each cache entry was stored, Never if it was not
    awaiting,   \* the client call the tick is in, Nothing between calls
    fetching,   \* the symbol whose price is fetched, Nothing if none
    waited      \* how long the current call has taken

marketVars == <<quoted, awaiting, fetching, waited>>
allVars == <<vars, marketVars>>

Never == -1
Nothing == "nothing"

Calls == {"multicall", "block", "pyth", "chainlink", "redis", "tvl", "feeTier", "llama"}

MarketInit ==
    /\ Init
    /\ quoted = [e \in Entries |-> Never]
    /\ awaiting = Nothing
    /\ fetching = Nothing
    /\ waited = 0

Awaits(call) == awaiting' = call /\ waited' = 0

\* Mutant of Fresh: an entry never expires.
FreshForever(entry) == quoted[entry] # Never

Fresh(entry) ==
    /\ quoted[entry] # Never
    /\ now - quoted[entry] < IF entry = "feeApr" THEN AprTtl ELSE CacheTtl

-----------------------------------------------------------------------------
(* Lookups, from one await to the next.                                    *)

\* get_fee_apr of a tick that may trade.
AprCall == IF Fresh("feeApr") THEN Nothing ELSE "tvl"

\* Mutant of Checks: the tick trades without asking the breaker.
ChecksNothing ==
    /\ Moves("tick", "trading")
    /\ value' \in Values
    /\ Awaits(AprCall)
    /\ fetching' = Nothing
    /\ UNCHANGED <<now, breakerVars, history>>

\* Both prices are known: breaker.check up to its await, or without one up to
\* the next call of the tick.
Checks ==
    /\ CheckReturnsAtOnce \/ CheckAt(quoted'["token0"])
    /\ Awaits(CASE phase' = "redis" -> "redis"
                [] phase' = "trading" -> AprCall
                [] OTHER -> Nothing)
    /\ fetching' = Nothing

\* get_price_usd on a miss.  Without a Pyth id _fetch_pyth raises before it
\* awaits anything.
Fetches(symbol) ==
    /\ ~Fresh(symbol)
    /\ Awaits(IF symbol \in PythIds THEN "pyth" ELSE "chainlink")
    /\ fetching' = symbol
    /\ UNCHANGED vars

\* The price of token0 is known, that of ETH is next.
LooksUpEth ==
    \/ Fetches("ETH")
    \/ Fresh("ETH") /\ Checks

-----------------------------------------------------------------------------
(* The calls of a tick and their answers.                                  *)

StartsTick ==
    /\ LoopTop
    /\ Awaits(IF phase' = "tick" THEN "multicall" ELSE Nothing)
    /\ UNCHANGED <<quoted, fetching>>

MulticallAnswers ==
    /\ awaiting = "multicall"
    /\ Awaits("block")
    /\ UNCHANGED <<vars, quoted, fetching>>

SnapshotArrives ==
    /\ awaiting = "block"
    /\ UNCHANGED quoted
    /\ \/ Fetches("token0")
       \/ Fresh("token0") /\ LooksUpEth

PriceArrives ==
    /\ awaiting \in {"pyth", "chainlink"}
    /\ quoted' = [quoted EXCEPT ![fetching] = now]
    /\ \/ fetching = "token0" /\ LooksUpEth
       \/ fetching = "ETH" /\ Checks

\* Any failure of Pyth is caught.
PythFails ==
    /\ awaiting = "pyth"
    /\ Awaits("chainlink")
    /\ UNCHANGED <<vars, quoted, fetching>>

\* A failure of the pool client or of Chainlink ends the tick; nothing is
\* cached and the breaker is not asked.
FetchFails ==
    /\ awaiting \in {"multicall", "block", "chainlink"}
    /\ TickEnds
    /\ Awaits(Nothing)
    /\ fetching' = Nothing
    /\ UNCHANGED quoted

RedisReturns ==
    /\ RedisAnswers
    /\ Awaits(IF phase' = "trading" THEN AprCall ELSE Nothing)
    /\ UNCHANGED <<quoted, fetching>>

\* The first subgraph query: a failure or a TVL of zero sends get_fee_apr to
\* DefiLlama.
TvlArrives ==
    /\ awaiting = "tvl"
    /\ Awaits("feeTier")
    /\ UNCHANGED <<vars, quoted, fetching>>

\* Mutant of SubgraphFails: the subgraph is asked again.
SubgraphRetries ==
    /\ awaiting \in {"tvl", "feeTier"}
    /\ Awaits("tvl")
    /\ UNCHANGED <<vars, quoted, fetching>>

SubgraphFails ==
    /\ awaiting \in {"tvl", "feeTier"}
    /\ Awaits("llama")
    /\ UNCHANGED <<vars, quoted, fetching>>

\* The APR of the subgraph, or that of DefiLlama, or the constant when
\* DefiLlama fails too: each is cached.
AprArrives ==
    /\ awaiting \in {"feeTier", "llama"}
    /\ quoted' = [quoted EXCEPT !["feeApr"] = now]
    /\ Awaits(Nothing)
    /\ UNCHANGED <<vars, fetching>>

\* The rest of the tick, as in CircuitBreaker.
Trades ==
    /\ awaiting = Nothing
    /\ AskAllowRebalance \/ RecordRebalance \/ TickEnds
    /\ UNCHANGED marketVars

StopSignal == RequestStop /\ UNCHANGED marketVars

TimePasses ==
    /\ ClockTicks
    /\ IF awaiting = Nothing
       THEN UNCHANGED waited
       ELSE waited < MaxAwait /\ waited' = waited + 1
    /\ UNCHANGED <<quoted, awaiting, fetching>>

MarketEngine ==
    \/ StartsTick
    \/ MulticallAnswers
    \/ SnapshotArrives
    \/ PriceArrives
    \/ PythFails
    \/ FetchFails
    \/ RedisReturns
    \/ TvlArrives
    \/ SubgraphFails
    \/ AprArrives
    \/ Trades

MarketNext == MarketEngine \/ StopSignal \/ TimePasses

MarketSpec == MarketInit /\ [][MarketNext]_allVars

\* The lookups of the tick are over; an order may be under way, or an LP call,
\* which polls for blocks without a timeout (lp_executor.py 176-181).
Trading == phase \in {"trading", "approved"} /\ awaiting = Nothing

\* The event loop keeps running the engine's task, and each lookup is answered,
\* fails or times out; whether a trade ends is left open.
MarketFairSpec == MarketSpec /\ WF_allVars(~Trading /\ MarketEngine)

-----------------------------------------------------------------------------
(* Properties.                                                             *)

MarketTypeOK ==
    /\ TypeOK
    /\ quoted \in [Entries -> Nat \cup {Never}]
    /\ awaiting \in Calls \cup {Nothing}
    /\ fetching \in Symbols \cup {Nothing}
    /\ waited \in 0 .. MaxAwait

\* The breaker of CircuitBreaker, with the tick's data fetched call by call:
\* every answer, failure and cache hit is one of its steps or leaves it alone
\* (engine.py 162-183).
ImplementsBreaker == Spec

\* The calls after the price of token0 was known, the current one included.
CallsSincePrice ==
    [pyth |-> 1, chainlink |-> 2, redis |-> 3, tvl |-> 4, feeTier |-> 5, llama |-> 6]

\* A tick that has its price works on one that is no older than the cache allows
\* plus the calls made since, although every later call, two of them with a
\* fallback of their own, lets it age (price_oracle.py 38-51, pool_analytics.py
\* 33-51, engine.py 167-181).
PricesAreRecent ==
    awaiting \in DOMAIN CallsSincePrice /\ fetching # "token0" =>
        now - quoted["token0"] <= CacheTtl + CallsSincePrice[awaiting] * MaxAwait

\* check() itself trips for a drawdown and for nothing else.  The staleness trip
\* (circuit_breaker.py 123-128) cannot fire: in an outage get_price_usd raises
\* and check() is not reached, and otherwise the price is recent.
OnlyDrawdownTrips ==
    [][phase = "tick" /\ tripped # tripped' => DrawdownExceeded(peak', value')]_allVars

\* What the loop still does once it is to end: the calls left of the tick, those
\* for the price of token0 with the two for ETH still to come, the rest of the
\* tick, and the test at the top.
CallsLeft ==
    [multicall |-> 13, block |-> 12, pyth |-> 9, chainlink |-> 8,
     redis |-> 7, tvl |-> 6, feeTier |-> 5, llama |-> 4]

PhaseLeft == [trading |-> 3, approved |-> 2, loop |-> 1, halted |-> 0, stopped |-> 0]

StepsLeft ==
    IF awaiting = Nothing
    THEN PhaseLeft[phase]
    ELSE CallsLeft[awaiting] + IF fetching = "token0" THEN 2 ELSE 0

\* Once a stop is requested or the breaker has tripped, every step of the loop
\* leaves it fewer, whichever caches answer and whichever calls fail or fall
\* back, and no signal gives it more: it ends within 13 steps of its own.  This is
\* what StopEndsLoop rests on (engine.py 143-181, price_oracle.py 38-51,
\* pool_analytics.py 33-51).
LoopRunsDown ==
    [][stopRequested \/ tripped =>
        /\ StepsLeft' <= StepsLeft
        /\ MarketEngine => StepsLeft' \in 0 .. StepsLeft - 1]_allVars

\* A requested stop or a trip ends the loop, at whatever await it finds it,
\* unless a trade of the last tick never ends: no lookup, cache or fallback, and
\* no further signal, holds it (engine.py 143-181).
StopEndsLoop ==
    stopRequested \/ tripped ~> phase \in {"halted", "stopped"} \/ []Trading
=============================================================================
