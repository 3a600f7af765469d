SPECIFICATION Spec
CONSTANTS
    Ticks <- MCTicks
    Halves <- MCHalves
    OpenSpacing = 4
    PoolSpacing = 3
    HalfWidth = 5
    Buffer = 4
    IlDown = 6
    IlUp = 5
INVARIANTS
    TypeOK
    SnapsOutward
    LeavingNeedsMove
    FeesJudgedInRange
