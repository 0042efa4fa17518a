SPECIFICATION MCSpec
CONSTANTS
    None = None
    Currencies <- MCCurrencies
    Symbols <- MCSymbols
    Base <- MCBase
    Quote <- MCQuote
    Prices = {1, 2}
    Log <- MCLog
    Moves <- MCMoves
    MinProfit = 1
    Fee = 1
    MaxLegs = 3
    MaxDataAge = 0
    MaxSlippageBps = 2
INVARIANTS
    LoopTypeOK
    ProfitNotOverstated
    DetectionComplete
    OpenRouteNeedsCrossedPair
    PriceCheckNeverRefuses
    TwoSidedTradePays
PROPERTIES
    EveryPollEnds
