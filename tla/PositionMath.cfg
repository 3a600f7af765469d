SPECIFICATION Spec
CONSTANTS
    MaxTick = 3
    Bounds <- MCBounds
    SqrtPrice <- MCSqrtPrice
    Q96 = 5
    Q128 = 2
    Word = 4
    Deposits <- MCDeposits
    MaxGrowth = 3
INVARIANTS
    TypeOK
    FeesOwedAsEarned
    LiquidityIsLargest
PROPERTIES
    SellsIntoRises
