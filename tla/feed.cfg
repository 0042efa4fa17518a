SPECIFICATION MCFairSpec
CONSTANTS
    None = None
    Symbols <- MCSymbols
    Currencies <- MCCurrencies
    Base <- MCBase
    Quote <- MCQuote
    Levels = {0, 1}
    Prices = {1, 2}
    Log <- MCLog
    Batches <- MCBatches
    MessageTimeout = 1
    ReconnectBase = 1
    ReconnectMax = 3
    MaxDoublings = 7
    MaxAttempt = 2
    MaxPollErrors = 2
    ErrorCap = 2
INVARIANTS
    FeedTypeOK
    ConnectedIsClean
    StreamsUnlessRefused
    EdgeIsTopOfBook
    EdgeIsTradable
    EdgesListedOnce
    DeadLinkReported
PROPERTIES
    BackoffRespected
    DeadLinkReplaced
