SPECIFICATION FairSpec
CONSTANTS
    Tasks = {p, q}
    MaxAttempts = 2
    Confirmations = 2
    MaxNonce = 5
    MaxDrops = 1
INVARIANTS
    TypeOK
    NoGapWhenQuiet
    EndedCallIsAccountedFor
PROPERTIES
    NoncesDistinctBetweenResets
    ImplementsContract
    EveryCallEnds
    CallsRunDown
CHECK_DEADLOCK FALSE
