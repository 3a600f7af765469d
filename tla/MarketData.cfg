SPECIFICATION MarketFairSpec
CONSTANTS
    MaxRebalancesPerHour = 2
    Hour = 2
    StaleAfter = 3
    MaxDrawdownPct = 10
    Values <- MCValues
    HasRedis = TRUE
    MaxNow = 6
    CacheTtl = 1
    AprTtl = 2
    MaxAwait = 1
    PythIds <- MCPythIds
INVARIANTS
    MarketTypeOK
    RateLimit
    HardRateTripUnreachable
    TradesWithinLimits
    PricesAreRecent
PROPERTIES
    ImplementsBreaker
    OnlyDrawdownTrips
    LoopRunsDown
    StopEndsLoop
CHECK_DEADLOCK FALSE
