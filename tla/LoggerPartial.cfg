SPECIFICATION Spec
CONSTANTS
    Symbols = {s1, s2}
    Threads = {update}
    PnLs = {2}
    MaxCrashes = 1
    MaxDay = 1
    MaxTrades = 2
INVARIANTS
    EveryCloseLogged
CHECK_DEADLOCK FALSE
