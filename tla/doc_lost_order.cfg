SPECIFICATION MCSpec
CONSTANTS
    Ids = {"forward"}
    Symbols <- Pairs
    Opportunities <- OneTriangle
    Ttl = 5
    GcPeriod = 5
    MaxConsecutiveFailures = 5
    Cooldown = 3
    MaxTrades = 9
    TradeWindow = 9
    MaxNotional = 20
    OrderTimeout = 9
    Journaled = TRUE
    IoFaults = FALSE
    MaxTime = 1
    MaxCrashes = 1
INVARIANT LostOrdersRevealed
