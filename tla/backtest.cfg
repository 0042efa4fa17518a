SPECIFICATION Spec
CONSTANTS
    None = None
    Currencies <- MCCurrencies
    Symbols <- MCSymbols
    Base <- MCBase
    Quote <- MCQuote
    Prices <- MCPrices
    Log <- MCLog
    Ticks <- MCTicks
    Configs <- MCConfigs
    Divisor = 2
    Depth = 20
    MaxTicks = 4
    BpsScale = 13
    MinProfit = 0
    Fee = 1
    MaxLegs = 3
    MaxDataAge = 0
INVARIANTS
    BacktestTypeOK
PROPERTIES
    FillsAreWalks
    TradeIsACycle
    TradeKeepsPromise
CHECK_DEADLOCK FALSE
