SPECIFICATION HedgedSpec
CONSTANTS
    MaxDelta = 6
    Deltas <- MCDeltas
    Spots <- MCSpots
    Mids <- MCMids
    Basis = 4
    Lot = 2
    Least = 2
    MinNotional = 17
    SmallSize = 6
    MaxAttempts = 3
    MaxOrders = 3
    MaxFaults = 3
    NoHedge = NoHedge
    Prices <- MCPrices
    EntryPrice = 4
    Exposure = 1
    ThresholdBps = 50
INVARIANTS
    HedgedTypeOK
    VenueAsRecorded
    ConcentratedIsWorse
PROPERTY
    ImplementsPerpHedge
CHECK_DEADLOCK FALSE
