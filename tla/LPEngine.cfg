SPECIFICATION FairSpec
CONSTANTS
    MaxAttempts = 3
    MaxTokens = 2
    Faults <- AllFaults
    MaxFaults = 3
INVARIANTS
    TypeOK
    StoreMatchesMemory
    HedgeIsRecorded
    LossesNeedFaults
    StopIsComplete
PROPERTIES
    LostOnlyInWindows
    MintOnlyAfterBurn
    StopBurnsPosition
    StopEndsProcess
    StopRunsDown
    StopCloses
CHECK_DEADLOCK FALSE
