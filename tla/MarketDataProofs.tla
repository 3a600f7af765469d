--------------------------- MODULE MarketDataProofs ---------------------------
(* The composition of the breaker with the data of a tick, for every value  *)
(* of the constants.                                                        *)
EXTENDS MarketData, CircuitBreakerProofs

\* Which call the tick is in, as far as the prices and the breaker care.
CallsInOrder ==
    /\ awaiting \in {"pyth", "chainlink"} => fetching \in Symbols
    /\ phase = "redis" => awaiting = "redis"

\* PricesAreRecent with the current call counted by how long it has taken.
AgeBound ==
    awaiting \in DOMAIN CallsSincePrice /\ fetching # "token0" =>
        /\ quoted["token0"] # Never
        /\ now - quoted["token0"]
             <= CacheTtl + (CallsSincePrice[awaiting] - 1) * MaxAwait + waited

QuotedInPast == \A e \in Entries : quoted[e] <= now

MarketInv == MarketTypeOK /\ CallsInOrder /\ QuotedInPast /\ AgeBound

\* The calls of a tick, counted from the price of token0.
LEMMA CallCounts ==
    /\ DOMAIN CallsSincePrice = {"pyth", "chainlink", "redis", "tvl", "feeTier", "llama"}
    /\ CallsSincePrice["pyth"] = 1 /\ CallsSincePrice["chainlink"] = 2
    /\ CallsSincePrice["redis"] = 3 /\ CallsSincePrice["tvl"] = 4
    /\ CallsSincePrice["feeTier"] = 5 /\ CallsSincePrice["llama"] = 6
BY DEF CallsSincePrice

\* A price the cache returns has been stored, and less than CacheTtl ago.
LEMMA FreshIsRecent ==
    ASSUME MarketInv, NEW s \in Symbols, Fresh(s)
    PROVE  quoted[s] \in 0 .. now /\ now - quoted[s] <= CacheTtl
<1>1. quoted[s] \in Nat \cup {Never} /\ quoted[s] <= now /\ now \in Nat
  BY DEF MarketInv, MarketTypeOK, TypeOK, QuotedInPast, Entries
<1>2. s # "feeApr"
  BY DEF Symbols
<1> QED
  BY <1>1, <1>2, MarketAssumption DEF Fresh, Never

\* When the last lookup of a tick ends it has either started a fetch or asked
\* the breaker about a price that is recent.
LEMMA LookupEnds ==
    ASSUME MarketInv, SnapshotArrives \/ PriceArrives
    PROVE  \/ UNCHANGED vars /\ fetching' = "token0"
           \/ /\ UNCHANGED vars /\ fetching' = "ETH" /\ awaiting' \in {"pyth", "chainlink"}
              /\ waited' = 0
              /\ quoted'["token0"] \in 0 .. now
              /\ now - quoted'["token0"] <= CacheTtl
           \/ /\ Checks
              /\ quoted'["token0"] \in 0 .. now
              /\ now - quoted'["token0"] <= CacheTtl + 2 * MaxAwait
<1> USE MarketAssumption
<1>0. /\ quoted \in [Entries -> Nat \cup {Never}] /\ now \in Nat
      /\ "token0" \in Symbols /\ "ETH" \in Symbols /\ "token0" \in Entries
      /\ waited \in 0 .. MaxAwait
  BY DEF MarketInv, MarketTypeOK, TypeOK, Symbols, Entries
<1>1. CASE SnapshotArrives
  <2>1. quoted' = quoted
    BY <1>1 DEF SnapshotArrives
  <2>2. CASE Fetches("token0")
    BY <2>2 DEF Fetches
  <2>3. CASE Fresh("token0") /\ LooksUpEth
    <3>1. quoted["token0"] \in 0 .. now /\ now - quoted["token0"] <= CacheTtl
      BY <2>3, <1>0, FreshIsRecent
    <3>2. CASE Fetches("ETH")
      BY <3>1, <3>2, <2>1 DEF Fetches, Awaits
    <3>3. CASE Checks
      BY <3>1, <3>3, <2>1, <1>0
    <3> QED
      BY <2>3, <3>2, <3>3 DEF LooksUpEth
  <2> QED
    BY <1>1, <2>2, <2>3 DEF SnapshotArrives
<1>2. CASE PriceArrives
  <2>1. CASE fetching = "token0" /\ LooksUpEth
    <3>1. quoted'["token0"] = now
      BY <1>0, <1>2, <2>1 DEF PriceArrives
    <3>2. CASE Fetches("ETH")
      BY <3>1, <3>2, <1>0 DEF Fetches, Awaits
    <3>3. CASE Checks
      BY <3>1, <3>3, <1>0
    <3> QED
      BY <2>1, <3>2, <3>3 DEF LooksUpEth
  <2>2. CASE fetching = "ETH" /\ Checks
    <3>1. quoted'["token0"] = quoted["token0"]
      BY <1>0, <1>2, <2>2 DEF PriceArrives
    <3>2. awaiting \in {"pyth", "chainlink"}
      BY <1>2 DEF PriceArrives
    <3>3. /\ quoted["token0"] # Never /\ quoted["token0"] <= now
          /\ now - quoted["token0"]
               <= CacheTtl + (CallsSincePrice[awaiting] - 1) * MaxAwait + waited
      BY <1>0, <2>2, <3>2, CallCounts DEF MarketInv, AgeBound, QuotedInPast
    <3>4. now - quoted["token0"] <= CacheTtl + 2 * MaxAwait
      BY <1>0, <3>2, <3>3, CallCounts
    <3> QED
      BY <1>0, <2>2, <3>1, <3>3, <3>4 DEF Never
  <2> QED
    BY <1>2, <2>1, <2>2 DEF PriceArrives
<1> QED
  BY <1>1, <1>2

\* Every step of the composition is a step of the breaker's specification, or
\* leaves the breaker's variables alone.
LEMMA StepRefines ==
    ASSUME MarketInv, MarketNext
    PROVE  [Next]_vars
<1>1. CASE StartsTick
  BY <1>1 DEF StartsTick, Next, Engine
<1>2. CASE SnapshotArrives \/ PriceArrives
  <2>1. CASE UNCHANGED vars
    BY <2>1
  <2>2. CASE Checks /\ quoted'["token0"] \in 0 .. now
    <3>1. CheckReturnsAtOnce \/ Check
      BY <2>2 DEF Checks, Check
    <3> QED
      BY <3>1 DEF Next, Engine
  <2> QED
    BY <1>2, <2>1, <2>2, LookupEnds
<1>3. CASE FetchFails
  BY <1>3 DEF FetchFails, Next, Engine
<1>4. CASE RedisReturns
  BY <1>4 DEF RedisReturns, Next, Engine
<1>5. CASE MulticallAnswers \/ PythFails \/ TvlArrives \/ SubgraphFails \/ AprArrives
  BY <1>5 DEF MulticallAnswers, PythFails, TvlArrives, SubgraphFails, AprArrives
<1>6. CASE Trades
  BY <1>6 DEF Trades, Next, Engine
<1>7. CASE StopSignal \/ TimePasses
  BY <1>7 DEF StopSignal, TimePasses, Next
<1> QED
  BY <1>1, <1>2, <1>3, <1>4, <1>5, <1>6, <1>7 DEF MarketNext, MarketEngine

\* What the breaker's half of a check leaves for the other half.
LEMMA CheckMoves ==
    ASSUME Checks
    PROVE  /\ awaiting' \in {"redis", "tvl", Nothing} /\ waited' = 0
           /\ fetching' = Nothing /\ now' = now
           /\ phase' = "redis" => awaiting' = "redis"
           /\ phase = "tick" /\ phase' \in {"loop", "redis", "trading"}
<1>1. CASE CheckReturnsAtOnce
  BY <1>1 DEF Checks, CheckReturnsAtOnce, Moves, Awaits, AprCall, Nothing
<1>2. CASE CheckAt(quoted'["token0"])
  BY <1>2 DEF Checks, CheckAt, Moves, Awaits, AprCall, Nothing
<1> QED
  BY <1>1, <1>2 DEF Checks

\* Every variable keeps its type.
LEMMA MarketTypes ==
    ASSUME MarketInv, TypeOK', [MarketNext]_allVars
    PROVE  MarketTypeOK'
<1> USE MarketAssumption
<1> USE DEF MarketTypeOK, Calls, Awaits
<1>0. /\ MarketTypeOK /\ now \in Nat /\ 0 \in 0 .. MaxAwait
  BY DEF MarketInv, TypeOK
<1>1. CASE StartsTick
  BY <1>0, <1>1 DEF StartsTick
<1>2. CASE MulticallAnswers \/ TvlArrives \/ SubgraphFails \/ PythFails
  BY <1>0, <1>2 DEF MulticallAnswers, TvlArrives, SubgraphFails, PythFails
<1>3. CASE SnapshotArrives
  <2>1. quoted' = quoted
    BY <1>3 DEF SnapshotArrives
  <2>2. CASE Checks
    BY <1>0, <2>1, <2>2, CheckMoves
  <2>3. CASE Fetches("token0") \/ Fetches("ETH")
    BY <1>0, <2>1, <2>3 DEF Fetches, Symbols
  <2> QED
    BY <1>3, <2>2, <2>3 DEF SnapshotArrives, LooksUpEth
<1>4. CASE PriceArrives
  <2>1. quoted' \in [Entries -> Nat \cup {Never}]
    BY <1>0, <1>4 DEF PriceArrives
  <2>2. CASE Checks
    BY <1>0, <2>1, <2>2, CheckMoves
  <2>3. CASE Fetches("ETH")
    BY <1>0, <2>1, <2>3 DEF Fetches, Symbols
  <2> QED
    BY <1>4, <2>2, <2>3 DEF PriceArrives, LooksUpEth
<1>5. CASE FetchFails \/ RedisReturns
  BY <1>0, <1>5 DEF FetchFails, RedisReturns, AprCall
<1>6. CASE AprArrives
  BY <1>0, <1>6 DEF AprArrives
<1>7. CASE Trades \/ StopSignal
  BY <1>0, <1>7 DEF Trades, StopSignal, marketVars
<1>8. CASE TimePasses
  BY <1>0, <1>8 DEF TimePasses
<1>9. CASE UNCHANGED allVars
  BY <1>0, <1>9 DEF allVars, marketVars
<1> QED
  BY <1>1, <1>2, <1>3, <1>4, <1>5, <1>6, <1>7, <1>8, <1>9 DEF MarketNext, MarketEngine

\* The calls follow each other in the order of the tick.
LEMMA MarketCalls ==
    ASSUME MarketInv, [MarketNext]_allVars
    PROVE  CallsInOrder'
<1> USE DEF CallsInOrder, Awaits, Nothing
<1>0. CallsInOrder
  BY DEF MarketInv
<1>1. CASE StartsTick
  BY <1>0, <1>1 DEF StartsTick, LoopTop
<1>2. CASE MulticallAnswers \/ TvlArrives \/ SubgraphFails \/ PythFails \/ AprArrives
  BY <1>0, <1>2 DEF MulticallAnswers, TvlArrives, SubgraphFails, PythFails, AprArrives, vars
<1>3. CASE SnapshotArrives \/ PriceArrives
  <2>1. CASE Checks
    BY <2>1, CheckMoves
  <2>2. CASE Fetches("token0") \/ Fetches("ETH")
    <3>1. awaiting \in {"block", "pyth", "chainlink"}
      BY <1>3 DEF SnapshotArrives, PriceArrives
    <3> QED
      BY <1>0, <2>2, <3>1 DEF Fetches, Symbols, vars
  <2> QED
    BY <1>3, <2>1, <2>2 DEF SnapshotArrives, PriceArrives, LooksUpEth
<1>5. CASE FetchFails \/ RedisReturns
  BY <1>0, <1>5 DEF FetchFails, RedisReturns, TickEnds, RedisAnswers, AprCall
<1>7. CASE Trades \/ StopSignal
  BY <1>0, <1>7 DEF Trades, StopSignal, marketVars, AskAllowRebalance,
                    RecordRebalance, TickEnds, RequestStop, Moves
<1>8. CASE TimePasses
  BY <1>0, <1>8 DEF TimePasses, ClockTicks
<1>9. CASE UNCHANGED allVars
  BY <1>0, <1>9 DEF allVars, marketVars, vars
<1> QED
  BY <1>1, <1>2, <1>3, <1>5, <1>7, <1>8, <1>9 DEF MarketNext, MarketEngine

\* Every call made since the price of token0 was known adds at most MaxAwait to
\* its age.
LEMMA MarketAges ==
    ASSUME MarketInv, MarketTypeOK', [MarketNext]_allVars
    PROVE  AgeBound' /\ QuotedInPast'
<1> USE MarketAssumption
<1> USE DEF Awaits, Nothing
<1> DEFINE age == now - quoted["token0"]
<1>0. /\ AgeBound /\ QuotedInPast /\ CallsInOrder /\ now \in Nat /\ now' \in Nat
      /\ quoted \in [Entries -> Nat \cup {Never}] /\ waited \in 0 .. MaxAwait
      /\ quoted' \in [Entries -> Nat \cup {Never}]
      /\ "token0" \in Entries /\ "feeApr" \in Entries
      /\ quoted["token0"] \in Int /\ CacheTtl \in Int /\ MaxAwait \in Int
      /\ waited \in Int /\ now \in Int
  BY DEF MarketInv, MarketTypeOK, TypeOK, Entries, Symbols, Never
<1>1. ASSUME UNCHANGED <<now, quoted>>, awaiting' \notin DOMAIN CallsSincePrice
      PROVE  AgeBound' /\ QuotedInPast'
  BY <1>0, <1>1 DEF AgeBound, QuotedInPast, CallsSincePrice
<1>2. CASE StartsTick \/ MulticallAnswers \/ FetchFails
  <2>1. UNCHANGED <<now, quoted>> /\ awaiting' \in {Nothing, "multicall", "block"}
    BY <1>2 DEF StartsTick, LoopTop, MulticallAnswers, FetchFails, TickEnds, vars
  <2> QED
    BY <1>1, <2>1, CallCounts
<1>3. CASE SnapshotArrives \/ PriceArrives
  <2>1. QuotedInPast'
    <3>1. now' = now
      BY <1>3, CheckMoves
         DEF SnapshotArrives, PriceArrives, LooksUpEth, Fetches, vars
    <3>2. quoted' = quoted \/ quoted' = [quoted EXCEPT ![fetching] = now]
      BY <1>3 DEF SnapshotArrives, PriceArrives
    <3> QED
      BY <1>0, <3>1, <3>2 DEF QuotedInPast
  <2>2. CASE UNCHANGED vars /\ fetching' = "token0"
    BY <2>1, <2>2 DEF AgeBound
  <2>3. CASE /\ UNCHANGED vars /\ fetching' = "ETH" /\ awaiting' \in {"pyth", "chainlink"}
             /\ waited' = 0
             /\ quoted'["token0"] \in 0 .. now
             /\ now - quoted'["token0"] <= CacheTtl
    <3>1. now' = now /\ CallsSincePrice[awaiting'] \in {1, 2}
      BY <2>3, CallCounts DEF vars
    <3>2. (CallsSincePrice[awaiting'] - 1) * MaxAwait >= 0
      BY <3>1, <1>0
    <3>3. (CallsSincePrice[awaiting'] - 1) * MaxAwait \in Int
      BY <3>1, <1>0
    <3> HIDE DEF CallsSincePrice
    <3> QED
      BY <2>1, <2>3, <3>1, <3>2, <3>3, <1>0 DEF AgeBound, Never
  <2>4. CASE /\ Checks
             /\ quoted'["token0"] \in 0 .. now
             /\ now - quoted'["token0"] <= CacheTtl + 2 * MaxAwait
    <3>1. now' = now /\ waited' = 0 /\ awaiting' \in {"redis", "tvl", Nothing}
      BY <2>4, CheckMoves
    <3>2. awaiting' \in DOMAIN CallsSincePrice => CallsSincePrice[awaiting'] \in {3, 4}
      BY <3>1, CallCounts
    <3>3. awaiting' \in DOMAIN CallsSincePrice =>
            (CallsSincePrice[awaiting'] - 1) * MaxAwait \in {2 * MaxAwait, 3 * MaxAwait}
      BY <3>2, <1>0
    <3> QED
      BY <2>1, <2>4, <3>1, <3>3, <1>0 DEF AgeBound, Never
  <2> QED
    BY <1>3, <2>2, <2>3, <2>4, LookupEnds DEF MarketInv
<1>4. ASSUME awaiting \in DOMAIN CallsSincePrice,
             awaiting' \in DOMAIN CallsSincePrice,
             CallsSincePrice[awaiting'] > CallsSincePrice[awaiting],
             UNCHANGED <<now, quoted, fetching>>, waited' = 0
      PROVE  AgeBound' /\ QuotedInPast'
  <2>1. CallsSincePrice[awaiting] \in 1 .. 6 /\ CallsSincePrice[awaiting'] \in 1 .. 6
    BY <1>4, CallCounts
  <2>2. /\ (CallsSincePrice[awaiting] - 1) * MaxAwait + MaxAwait
             <= (CallsSincePrice[awaiting'] - 1) * MaxAwait
        /\ (CallsSincePrice[awaiting] - 1) * MaxAwait \in Int
        /\ (CallsSincePrice[awaiting'] - 1) * MaxAwait \in Int
    BY <1>0, <1>4, <2>1
  <2> QED
    BY <1>0, <1>4, <2>2 DEF AgeBound, QuotedInPast
<1>5. CASE PythFails \/ TvlArrives \/ SubgraphFails
  <2>1. UNCHANGED <<now, quoted, fetching>> /\ waited' = 0
    BY <1>5 DEF PythFails, TvlArrives, SubgraphFails, vars
  <2>2. /\ awaiting \in DOMAIN CallsSincePrice /\ awaiting' \in DOMAIN CallsSincePrice
        /\ CallsSincePrice[awaiting'] > CallsSincePrice[awaiting]
    BY <1>5, CallCounts DEF PythFails, TvlArrives, SubgraphFails
  <2> QED
    BY <1>4, <2>1, <2>2
<1>6. CASE RedisReturns
  <2>1. UNCHANGED <<now, quoted, fetching>> /\ waited' = 0 /\ awaiting = "redis"
    BY <1>0, <1>6 DEF RedisReturns, RedisAnswers, CallsInOrder
  <2>2. awaiting' \in {"tvl", Nothing}
    BY <1>6 DEF RedisReturns, AprCall
  <2>3. CASE awaiting' = "tvl"
    BY <1>4, <2>1, <2>3, CallCounts
  <2>4. CASE awaiting' = Nothing
    BY <1>1, <2>1, <2>4, CallCounts
  <2> QED
    BY <2>2, <2>3, <2>4
<1>7. CASE AprArrives
  <2>1. quoted' = [quoted EXCEPT !["feeApr"] = now] /\ now' = now /\ awaiting' = Nothing
    BY <1>7 DEF AprArrives, vars
  <2>2. QuotedInPast'
    BY <1>0, <2>1 DEF QuotedInPast
  <2> QED
    BY <2>1, <2>2, CallCounts DEF AgeBound
<1>8. CASE Trades \/ StopSignal \/ UNCHANGED allVars
  <2>1. UNCHANGED <<now, quoted, fetching, waited, awaiting>>
    BY <1>8 DEF Trades, StopSignal, allVars, marketVars, vars, AskAllowRebalance,
                RecordRebalance, TickEnds, RequestStop
  <2> QED
    BY <1>0, <2>1 DEF AgeBound, QuotedInPast
<1>9. CASE TimePasses
  <2>1. UNCHANGED <<quoted, fetching, awaiting>> /\ now' = now + 1
    BY <1>9 DEF TimePasses, ClockTicks
  <2>2. QuotedInPast'
    <3>1. \A e \in Entries : quoted[e] \in Int
      BY <1>0 DEF Never
    <3> QED
      BY <1>0, <2>1, <3>1 DEF QuotedInPast
  <2>3. CASE awaiting = Nothing
    BY <2>1, <2>2, <2>3, CallCounts DEF AgeBound
  <2>4. CASE awaiting \in DOMAIN CallsSincePrice /\ waited' = waited + 1
    <3>1. CallsSincePrice[awaiting] \in 1 .. 6
      BY <2>4, CallCounts
    <3>2. (CallsSincePrice[awaiting] - 1) * MaxAwait \in Int
      BY <3>1, <1>0
    <3> QED
      BY <1>0, <2>1, <2>2, <2>4, <3>2 DEF AgeBound
  <2> QED
    BY <1>9, <2>1, <2>2, <2>3, <2>4 DEF TimePasses, AgeBound
<1> QED
  BY <1>2, <1>3, <1>5, <1>6, <1>7, <1>8, <1>9 DEF MarketNext, MarketEngine

\* Nothing is cached and nothing is awaited at first.
LEMMA MarketInitial ==
    ASSUME MarketInit
    PROVE  MarketInv
<1> USE MarketAssumption, BreakerAssumption
<1>1. TypeOK /\ now = 0 /\ phase = "loop"
  BY EmptySeq DEF MarketInit, Init, TypeOK, Phases, NoValue
<1>2. /\ quoted \in [Entries -> Nat \cup {Never}]
      /\ awaiting = Nothing /\ fetching = Nothing /\ waited = 0
      /\ \A e \in Entries : quoted[e] = -1
  BY DEF MarketInit, Never
<1> QED
  BY <1>1, <1>2, CallCounts
     DEF MarketInv, MarketTypeOK, CallsInOrder, QuotedInPast, AgeBound, Nothing, Calls

\* The stepwise invariant: types, the order of the calls and the age of the
\* price by call.
THEOREM MarketInvariance == MarketSpec => []MarketInv
<1>1. MarketInit => MarketInv
  BY MarketInitial
<1>2. MarketInv /\ [MarketNext]_allVars => MarketInv'
  <2> SUFFICES ASSUME MarketInv, [MarketNext]_allVars PROVE MarketInv'
    OBVIOUS
  <2>1. [Next]_vars
    BY StepRefines DEF allVars
  <2>2. TypeOK'
    BY <2>1, TypesStep DEF MarketInv, MarketTypeOK
  <2>3. MarketTypeOK'
    BY <2>2, MarketTypes
  <2> QED
    BY <2>3, MarketCalls, MarketAges DEF MarketInv
<1> QED
  BY <1>1, <1>2, PTL DEF MarketSpec

\* The variables of the breaker, of its caches and of the calls keep their
\* types, and no call takes longer than MaxAwait.
THEOREM MarketTyping == MarketSpec => []MarketTypeOK
<1>1. MarketInv => MarketTypeOK
  BY DEF MarketInv
<1> QED
  BY <1>1, MarketInvariance, PTL

\* The composition implements the breaker's specification: fetching the data of
\* a tick call by call, from caches that may be stale, adds no behaviour to it.
THEOREM MarketImplementsBreaker == MarketSpec => ImplementsBreaker
<1>1. MarketInit => Init
  BY DEF MarketInit
<1>2. MarketInv /\ [MarketNext]_allVars => [Next]_vars
  BY StepRefines DEF allVars
<1> QED
  BY <1>1, <1>2, MarketInvariance, PTL DEF MarketSpec, Spec, ImplementsBreaker

\* What was proved of the breaker holds in the composition.
THEOREM MarketSafety ==
    MarketSpec => [](RateLimit /\ HardRateTripUnreachable /\ TradesWithinLimits)
BY MarketImplementsBreaker, RateLimited, HardTripUnreachable, TradesAreWithinLimits, PTL
   DEF ImplementsBreaker

\* The age of the price a tick works on, at every call made with it.
THEOREM PricesStayRecent == MarketSpec => []PricesAreRecent
<1>1. MarketInv => PricesAreRecent
  <2> SUFFICES ASSUME MarketInv, awaiting \in DOMAIN CallsSincePrice, fetching # "token0"
               PROVE  now - quoted["token0"]
                        <= CacheTtl + CallsSincePrice[awaiting] * MaxAwait
    BY DEF PricesAreRecent
  <2>1. /\ quoted["token0"] \in Int /\ now \in Int /\ waited \in 0 .. MaxAwait
    BY DEF MarketInv, MarketTypeOK, TypeOK, Never, Entries, Symbols
  <2>2. now - quoted["token0"]
          <= CacheTtl + (CallsSincePrice[awaiting] - 1) * MaxAwait + waited
    BY DEF MarketInv, AgeBound
  <2>3. CallsSincePrice[awaiting] \in 1 .. 6
    BY CallCounts
  <2> QED
    BY <2>1, <2>2, <2>3, MarketAssumption
<1> QED
  BY <1>1, MarketInvariance, PTL

\* The staleness trip and the rate trip never fire: check itself trips the
\* breaker for a drawdown only, whatever is cached and whichever calls fail.
THEOREM TripsOnlyForDrawdown == MarketSpec => OnlyDrawdownTrips
<1> DEFINE Only == phase = "tick" /\ tripped # tripped' => DrawdownExceeded(peak', value')
<1>1. MarketInv /\ HardRateTripUnreachable /\ [MarketNext]_allVars => [Only]_allVars
  <2> SUFFICES ASSUME MarketInv, HardRateTripUnreachable, MarketNext,
                      phase = "tick", tripped # tripped'
               PROVE  DrawdownExceeded(peak', value')
    OBVIOUS
  <2>1. CASE SnapshotArrives \/ PriceArrives
    <3>1. \/ UNCHANGED vars
          \/ /\ Checks
             /\ quoted'["token0"] \in 0 .. now
             /\ now - quoted'["token0"] <= CacheTtl + 2 * MaxAwait
      BY <2>1, LookupEnds
    <3>2. now \in Nat
      BY DEF MarketInv, MarketTypeOK, TypeOK
    <3>3. CASE UNCHANGED vars
      BY <3>3 DEF vars, breakerVars
    <3>4. CASE CheckReturnsAtOnce
      BY <3>4 DEF CheckReturnsAtOnce, breakerVars
    <3>5. CASE /\ CheckAt(quoted'["token0"])
               /\ quoted'["token0"] \in 0 .. now
               /\ now - quoted'["token0"] <= CacheTtl + 2 * MaxAwait
      <4>1. ~OracleStale(quoted'["token0"])
        BY <3>2, <3>5, MarketAssumption, BreakerAssumption DEF OracleStale
      <4>2. ~RateExceeded
        BY DEF HardRateTripUnreachable
      <4>3. PICK v \in Values :
              /\ value' = v /\ peak' = NewPeak(v)
              /\ tripped' = (RateExceeded \/ DrawdownExceeded(NewPeak(v), v)
                                          \/ OracleStale(quoted'["token0"]))
        BY <3>5 DEF CheckAt
      <4>4. tripped'
        BY <3>5, <4>3 DEF CheckAt, CheckSkipped, MarketInv, MarketTypeOK, TypeOK
      <4>5. DrawdownExceeded(NewPeak(v), v)
        BY <4>1, <4>2, <4>3, <4>4
      <4> QED
        BY <4>3, <4>5
    <3> QED
      BY <3>1, <3>3, <3>4, <3>5 DEF Checks
  <2>2. CASE StartsTick \/ RedisReturns
    BY <2>2 DEF StartsTick, LoopTop, RedisReturns, RedisAnswers
  <2>3. CASE MulticallAnswers \/ PythFails \/ TvlArrives \/ SubgraphFails \/ AprArrives
    BY <2>3 DEF MulticallAnswers, PythFails, TvlArrives, SubgraphFails, AprArrives, vars
  <2>4. CASE FetchFails \/ Trades \/ StopSignal \/ TimePasses
    BY <2>4 DEF FetchFails, Trades, StopSignal, TimePasses, TickEnds, AskAllowRebalance,
                RecordRebalance, RequestStop, ClockTicks, breakerVars
  <2> QED
    BY <2>1, <2>2, <2>3, <2>4 DEF MarketNext, MarketEngine
<1> QED
  BY <1>1, MarketInvariance, MarketSafety, PTL DEF MarketSpec, OnlyDrawdownTrips

-----------------------------------------------------------------------------
(* What is left of a tick once the loop is to end.                          *)

\* Where the tick is, by the call it is in.
CallsOfPhase ==
    /\ awaiting \in {"multicall", "block", "pyth", "chainlink"} => phase = "tick"
    /\ awaiting = "redis" => phase = "redis"
    /\ awaiting \in {"tvl", "feeTier", "llama"} => phase = "trading"
    /\ awaiting = Nothing => phase \notin {"tick", "redis"}
    /\ fetching = "token0" => awaiting \in {"pyth", "chainlink"}

\* A lookup ends in the call for a price, or in the phase and the call that
\* come after the check.
LEMMA LookupPlaces ==
    ASSUME MarketInv, CallsOfPhase, SnapshotArrives \/ PriceArrives
    PROVE  \/ /\ UNCHANGED phase /\ phase = "tick" /\ fetching' \in Symbols
              /\ awaiting' \in {"pyth", "chainlink"}
              /\ awaiting = "block" \/ (fetching = "token0" /\ fetching' = "ETH")
           \/ /\ fetching' = Nothing
              /\ \/ awaiting' = "redis" /\ phase' = "redis"
                 \/ awaiting' = "tvl" /\ phase' = "trading"
                 \/ awaiting' = Nothing /\ phase' \in {"trading", "loop"}
<1>1. awaiting \in {"block", "pyth", "chainlink"} /\ phase = "tick"
  BY DEF SnapshotArrives, PriceArrives, CallsOfPhase
<1>2. CASE Fetches("token0") /\ SnapshotArrives
  BY <1>1, <1>2 DEF Fetches, SnapshotArrives, Awaits, Symbols, vars
<1>3. CASE Fetches("ETH")
  <2>1. UNCHANGED phase /\ fetching' = "ETH" /\ awaiting' \in {"pyth", "chainlink"}
    BY <1>3 DEF Fetches, Awaits, vars
  <2>2. awaiting = "block" \/ fetching = "token0" \/ Checks
    BY DEF SnapshotArrives, PriceArrives
  <2>3. ~Checks
    BY <2>1 DEF Checks, Nothing
  <2> QED
    BY <1>1, <2>1, <2>2, <2>3 DEF Symbols
<1>4. CASE Checks
  <2>1. fetching' = Nothing /\ phase' \in {"loop", "redis", "trading"}
    BY <1>4, CheckMoves DEF Checks
  <2>2. /\ phase' = "redis" => awaiting' = "redis"
        /\ phase' = "trading" => awaiting' \in {Nothing, "tvl"}
        /\ phase' = "loop" => awaiting' = Nothing
    BY <1>4 DEF Checks, Awaits, AprCall
  <2> QED
    BY <2>1, <2>2
<1> QED
  BY <1>2, <1>3, <1>4 DEF SnapshotArrives, PriceArrives, LooksUpEth

\* Every step keeps the call and the phase together.
LEMMA PlacesStep == MarketInv /\ CallsOfPhase /\ [MarketNext]_allVars => CallsOfPhase'
<1> SUFFICES ASSUME MarketInv, CallsOfPhase, [MarketNext]_allVars PROVE CallsOfPhase'
  OBVIOUS
<1> USE DEF Nothing
<1>0. phase \in Phases /\ awaiting \in Calls \cup {Nothing}
  BY DEF MarketInv, MarketTypeOK, TypeOK
<1>1. CASE StartsTick
  BY <1>0, <1>1 DEF StartsTick, LoopTop, Awaits, CallsOfPhase, Calls
<1>2. CASE SnapshotArrives \/ PriceArrives
  BY <1>2, LookupPlaces DEF CallsOfPhase
<1>3. CASE MulticallAnswers \/ PythFails \/ TvlArrives \/ SubgraphFails \/ AprArrives
  BY <1>3 DEF MulticallAnswers, PythFails, TvlArrives, SubgraphFails, AprArrives, Awaits, vars,
     CallsOfPhase
<1>4. CASE FetchFails \/ RedisReturns
  BY <1>4 DEF FetchFails, RedisReturns, TickEnds, RedisAnswers, Awaits, AprCall, CallsOfPhase
<1>5. CASE Trades
  BY <1>5 DEF Trades, AskAllowRebalance, RecordRebalance, TickEnds, Moves, marketVars,
     CallsOfPhase
<1>6. CASE StopSignal \/ TimePasses \/ UNCHANGED allVars
  BY <1>6 DEF StopSignal, TimePasses, RequestStop, ClockTicks, allVars, vars, marketVars,
     CallsOfPhase
<1> QED
  BY <1>1, <1>2, <1>3, <1>4, <1>5, <1>6 DEF MarketNext, MarketEngine

\* The steps left, place by place.
LeftFacts ==
    /\ awaiting = "multicall" => StepsLeft = 13
    /\ awaiting = "block" => StepsLeft = 12
    /\ awaiting = "pyth" => StepsLeft = IF fetching = "token0" THEN 11 ELSE 9
    /\ awaiting = "chainlink" => StepsLeft = IF fetching = "token0" THEN 10 ELSE 8
    /\ awaiting = "redis" => StepsLeft = 7
    /\ awaiting = "tvl" => StepsLeft = 6
    /\ awaiting = "feeTier" => StepsLeft = 5
    /\ awaiting = "llama" => StepsLeft = 4
    /\ awaiting = Nothing =>
         /\ phase = "trading" => StepsLeft = 3
         /\ phase = "approved" => StepsLeft = 2
         /\ phase = "loop" => StepsLeft = 1
         /\ phase \in {"halted", "stopped"} => StepsLeft = 0
    /\ StepsLeft \in 0 .. 13

\* They follow from the types and the places.
LEMMA LeftIsCounted == MarketInv /\ CallsOfPhase => LeftFacts
<1> SUFFICES ASSUME MarketInv, CallsOfPhase PROVE LeftFacts
  OBVIOUS
<1>1. phase \in Phases /\ awaiting \in Calls \cup {Nothing}
  BY DEF MarketInv, MarketTypeOK, TypeOK
<1>2. CASE awaiting = Nothing
  <2>1. phase \in {"loop", "trading", "approved", "halted", "stopped"}
    BY <1>1, <1>2 DEF CallsOfPhase, Phases
  <2>2. /\ phase = "trading" => StepsLeft = 3
        /\ phase = "approved" => StepsLeft = 2
        /\ phase = "loop" => StepsLeft = 1
        /\ phase \in {"halted", "stopped"} => StepsLeft = 0
    BY <1>2 DEF StepsLeft, PhaseLeft
  <2> QED
    BY <1>2, <2>1, <2>2 DEF LeftFacts, Nothing
<1>3. CASE awaiting # Nothing
  <2>1. StepsLeft = CallsLeft[awaiting] + IF fetching = "token0" THEN 2 ELSE 0
    BY <1>3 DEF StepsLeft
  <2>2. fetching = "token0" => awaiting \in {"pyth", "chainlink"}
    BY DEF CallsOfPhase
  <2>3. awaiting \in Calls
    BY <1>1, <1>3
  <2> QED
    BY <1>3, <2>1, <2>2, <2>3 DEF LeftFacts, CallsLeft, Calls, Nothing
<1> QED
  BY <1>2, <1>3

\* For any caches, timeouts and limits the loop ends within 13 of its own steps
\* once a stop is requested or the breaker has tripped.
THEOREM LoopEndsSoon == MarketSpec => LoopRunsDown
<1> DEFINE Down == stopRequested \/ tripped =>
                     /\ StepsLeft' <= StepsLeft
                     /\ MarketEngine => StepsLeft' \in 0 .. StepsLeft - 1
<1>1. MarketInit => CallsOfPhase
  BY DEF MarketInit, Init, CallsOfPhase, Nothing
<1>2. MarketSpec => [](MarketInv /\ CallsOfPhase)
  BY <1>1, PlacesStep, MarketInvariance, PTL DEF MarketSpec
<1>3. MarketSpec => []LeftFacts
  BY <1>2, LeftIsCounted, PTL
<1>4. /\ MarketInv /\ CallsOfPhase /\ LeftFacts
      /\ (CallsOfPhase /\ LeftFacts)'
      /\ [MarketNext]_allVars
      => [Down]_allVars
  <2> SUFFICES ASSUME MarketInv, CallsOfPhase, LeftFacts, CallsOfPhase', LeftFacts',
                      MarketNext, stopRequested \/ tripped
               PROVE  /\ StepsLeft' <= StepsLeft
                      /\ MarketEngine => StepsLeft' \in 0 .. StepsLeft - 1
    OBVIOUS
  <2>1. StepsLeft \in 0 .. 13 /\ StepsLeft' \in 0 .. 13
    BY DEF LeftFacts
  <2>2. CASE StartsTick
    <3>1. phase = "loop" /\ phase' \in {"halted", "stopped"} /\ awaiting' = Nothing
      BY <2>2 DEF StartsTick, LoopTop, Awaits
    <3>2. awaiting = Nothing
      BY <3>1 DEF CallsOfPhase, MarketInv, MarketTypeOK, Calls
    <3> QED
      BY <2>1, <3>1, <3>2 DEF LeftFacts
  <2>3. CASE SnapshotArrives \/ PriceArrives
    <3>1. /\ awaiting \in {"block", "pyth", "chainlink"}
          /\ awaiting \in {"pyth", "chainlink"} => fetching \in {"token0", "ETH"}
      BY <2>3 DEF SnapshotArrives, PriceArrives, MarketInv, CallsInOrder, Symbols
    <3>2. StepsLeft >= 8 /\ (fetching = "token0" => StepsLeft >= 10)
      BY <2>1, <3>1 DEF LeftFacts, CallsOfPhase
    <3>3. CASE /\ awaiting' \in {"pyth", "chainlink"}
               /\ awaiting = "block" \/ (fetching = "token0" /\ fetching' = "ETH")
      BY <2>1, <3>2, <3>3 DEF LeftFacts
    <3>4. CASE \/ awaiting' \in {"redis", "tvl"}
               \/ awaiting' = Nothing /\ phase' \in {"trading", "loop"}
      BY <2>1, <3>2, <3>4 DEF LeftFacts
    <3> QED
      BY <2>3, <3>3, <3>4, LookupPlaces
  <2>4. CASE MulticallAnswers \/ PythFails \/ TvlArrives \/ SubgraphFails
    BY <2>1, <2>4
       DEF MulticallAnswers, PythFails, TvlArrives, SubgraphFails, Awaits, LeftFacts
  <2>5. CASE FetchFails \/ AprArrives
    <3>1. awaiting' = Nothing /\ phase' \in {"loop", "trading"}
      BY <2>5 DEF FetchFails, TickEnds, AprArrives, Awaits, vars, CallsOfPhase
    <3>2. StepsLeft >= 4
      BY <2>1, <2>5 DEF FetchFails, AprArrives, LeftFacts
    <3> QED
      BY <2>1, <3>1, <3>2 DEF LeftFacts
  <2>6. CASE RedisReturns
    <3>1. /\ awaiting = "redis"
          /\ awaiting' = "tvl" \/ (awaiting' = Nothing /\ phase' \in {"loop", "trading"})
      BY <2>6 DEF RedisReturns, RedisAnswers, Awaits, AprCall, MarketInv, CallsInOrder
    <3> QED
      BY <2>1, <3>1 DEF LeftFacts
  <2>7. CASE Trades
    <3>1. awaiting = Nothing /\ awaiting' = Nothing
      BY <2>7 DEF Trades, marketVars
    <3>2. \/ phase = "trading" /\ phase' \in {"approved", "loop"}
          \/ phase = "approved" /\ phase' = "loop"
      BY <2>7, <3>1
         DEF Trades, AskAllowRebalance, RecordRebalance, TickEnds, Moves, CallsOfPhase
    <3> QED
      BY <2>1, <3>1, <3>2 DEF LeftFacts
  <2>8. CASE StopSignal \/ TimePasses
    <3>1. UNCHANGED <<phase, awaiting, fetching>>
      BY <2>8 DEF StopSignal, TimePasses, RequestStop, ClockTicks, marketVars
    <3>2. StepsLeft' = StepsLeft
      BY <3>1 DEF StepsLeft
    <3>3. ~MarketEngine \/ StepsLeft' \in 0 .. StepsLeft - 1
      BY <2>2, <2>3, <2>4, <2>5, <2>6, <2>7 DEF MarketEngine
    <3> QED
      BY <2>1, <3>2, <3>3
  <2> QED
    BY <2>1, <2>2, <2>3, <2>4, <2>5, <2>6, <2>7, <2>8 DEF MarketNext, MarketEngine
<1> QED
  BY <1>2, <1>3, <1>4, PTL DEF MarketSpec, LoopRunsDown
=============================================================================
