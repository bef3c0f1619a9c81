SPECIFICATION Spec
CONSTANTS
    Symbols = {s1, s2}
    InitialCapital = 20
    PnLs <- MCPnLs
    Histories <- HaltHistories
    DailyOf <- MCDailyOf
    MaxDailyLoss = 15
    MaxDrawdown = 20
    TradeCooldown = 1
    BreachCooldown = 2
    LossLimit = 2
    MinTrades = 1
    MinCapital = 2
    MaxTrades = 5
PROPERTIES
    HaltsInDrawdown
CHECK_DEADLOCK FALSE
