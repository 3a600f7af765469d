SPECIFICATION Spec
CONSTANTS
    MaxRebalancesPerHour = 2
    Hour = 2
    StaleAfter = 1
    MaxDrawdownPct = 10
    Values <- MCValues
    HasRedis = TRUE
    MaxNow = 6
INVARIANT
    BlockedOnlyWhenFull
CHECK_DEADLOCK FALSE
