SPECIFICATION Spec
CONSTANTS
    MaxAttempts = 3
    MaxTokens = 2
    Faults <- CrashOnly
    MaxFaults = 1
INVARIANT
    RestartRecovers
CHECK_DEADLOCK FALSE
