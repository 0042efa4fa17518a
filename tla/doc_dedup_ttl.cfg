SPECIFICATION MCFairSpec
CONSTANTS
    Ids = {"forward"}
    Symbols <- Pairs
    Opportunities <- OneTriangle
    Ttl = 1
    GcPeriod = 2
    MaxConsecutiveFailures = 5
    Cooldown = 1
    MaxTrades = 9
    TradeWindow = 9
    MaxNotional = 20
    OrderTimeout = 9
    Journaled = FALSE
    IoFaults = FALSE
    MaxTime = 3
    MaxCrashes = 0
PROPERTY ExpiredIdEvicted
