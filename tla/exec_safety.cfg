SPECIFICATION MCSpec
CONSTANTS
    Ids = {"forward", "crossed"}
    Symbols <- Pairs
    Opportunities <- ForwardAndCrossed
    Ttl = 2
    GcPeriod = 2
    MaxConsecutiveFailures = 2
    Cooldown = 2
    MaxTrades = 2
    TradeWindow = 3
    MaxNotional = 4
    OrderTimeout = 1
    Journaled = FALSE
    IoFaults = FALSE
    MaxTime = 4
    MaxCrashes = 0
INVARIANTS
    TypeOK
    NotionalBound
    TradeCapSlack
    MovedIsOpenLegs
    CallSettles
    NothingTimesOut
PROPERTIES
    ReacceptAfterTtl
    NotionalNeverShrinks
    ImplementsTriangleTrade
