SPECIFICATION MCSpec
CONSTANTS
    Symbols = {s1, s2}
    MaxConsecutiveFailures = 2
    Cooldown = 2
    MaxTrades = 1
    TradeWindow = 2
    MaxNotional = 3
    Sizes = {1}
    MaxTime = 4
    MaxCalls = 5
INVARIANTS
    RiskTypeOK
    FailureRunBlocks
    WindowCountsAllTrades
PROPERTY BreakerClosesByClock
CHECK_DEADLOCK FALSE
