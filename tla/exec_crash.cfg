SPECIFICATION MCFairSpec
CONSTANTS
    Ids = {"forward"}
    Symbols <- Pairs
    Opportunities <- OneTriangle
    Ttl = 1
    GcPeriod = 1
    MaxConsecutiveFailures = 5
    Cooldown = 1
    MaxTrades = 10
    TradeWindow = 2
    MaxNotional = 20
    OrderTimeout = 1
    Journaled = TRUE
    IoFaults = FALSE
    MaxTime = 1
    MaxCrashes = 2
INVARIANTS
    UnansweredHasIntent
    LostOrderRevealed
PROPERTIES
    EveryCallEnds
    ImplementsTriangleTrade
