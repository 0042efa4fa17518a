SPECIFICATION BreakerSpec
CONSTANTS
    Ids = {"forward", "backward"}
    Symbols <- Pairs
    Opportunities <- BothDirections
    Ttl = 5
    GcPeriod = 5
    MaxConsecutiveFailures = 2
    Cooldown = 3
    MaxTrades = 9
    TradeWindow = 9
    MaxNotional = 20
    OrderTimeout = 9
    Journaled = FALSE
    IoFaults = FALSE
    MaxTime = 1
    MaxCrashes = 0
INVARIANT BreakerTripsOnFailedCalls
