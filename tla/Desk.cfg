SPECIFICATION DeskSpec
CHECK_DEADLOCK FALSE
CONSTANTS
    Update = "update"
    Learners = {"update", "flask"}
    Interval = 2
    MinSamples = 1
    BufferSize = 1
    MaxOutcomes = 2
    MaxNow = 4
    Symbols = {"btc"}
    Prices = {1, 2, 3}
    FastWindow = 2
    SlowWindow = 3
    Period = 2
    Window = 5
    MaxPrices = 7
    Known = 2
    Patience = 2
    Size = 2
    MaxCtaOrders = 3
    EngineThreads = {"update"}
    Sizes = {2, 3, 4}
    Lot = 3
    MaxOrders = 6
    Held = {"btc"}
    PnLs <- MCPnLs
    MaxCrashes = 1
    MaxDay = 1
    MaxTrades = 2
    Names = {"sideways", "bull", "bear"}
    First = 2
    Short = 1
    Lookback = 3
    RetrainEvery = 2
    Cap = 4
    MaxBars = 6
    MaxLag = 1
    Traded = {"btc", "eth"}
    Quotes = {96, 98, 100, 103}
    OrderValue = 50
    StopLoss = 3
    TakeProfit = 3
    CvarLimit = 5
    Confidences = {350, 450, 600, 1000}
    Uncertainties = {0, 300, 400}
    Decay <- MCDecay
    Mode = "paper"
    Faults = {}
    DashboardThreads = {}
INVARIANTS
    DeskTypeOK
    SignalsSound
    RetrainingContained
    LearnerFollows
    SmallInSpike
    HeldWithinSize
    SideMatchesSign
    LedgersAgree
PROPERTIES
    RefinesBook
    LearningGoesOn
