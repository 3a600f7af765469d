SPECIFICATION Spec
CONSTANTS
    MaxDelta = 10
    Deltas <- MCDeltas
    Spots <- MCPrices
    Mids <- MCPrices
    Basis = 1
    Lot = 1
    Least = 1
    MinNotional = 4
    SmallSize = 5
    MaxAttempts = 3
    MaxOrders = 3
    MaxFaults = 2
    NoHedge = NoHedge
INVARIANT
    NegativeDeltaIsShort
CHECK_DEADLOCK FALSE
