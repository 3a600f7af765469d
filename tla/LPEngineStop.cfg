SPECIFICATION OperatedSpec
CONSTANTS
    MaxAttempts = 3
    MaxTokens = 2
    Faults <- FailOnly
    MaxFaults = 1
PROPERTY
    StopEventuallyCloses
CHECK_DEADLOCK FALSE
