SPECIFICATION ControlSpec
CHECK_DEADLOCK FALSE
CONSTANTS
    Circuits = {"order", "strategy"}
    Recorded = {"order"}
    FailureThreshold <- MCThreshold
    TimeoutDuration <- MCTimeout
    SuccessThreshold = 2
    Components = {"bridge"}
    Healable = {"bridge"}
    Critical = {"bridge"}
    MaxRestarts = 1
    Loops = {"l1", "l2"}
    Operator = "operator"
    Callers = {"a", "b"}
    Keys = {"k"}
    Watcher = "watcher"
    User = "user"
    MaxWrites = 3
    Layers = {"layer1"}
    MaxErrors = 3
    MaxWarnings = 2
    Cooldown = 2
    RetrainAfter = 1
    MinTrades = 1
    RateAfter = 1
    MaxCapital = 2
    Keep = 2
    Reached = {"achieved", "missed"}
    Stops = {"main", "risk"}
    Callbacks = {"log", "close"}
    Threshold = 2
    Controllers = {"engine", "healing"}
    Feeds = {"f1", "f2", "f3"}
    MockFeeds = {"m1", "m2"}
    Recorders = {1, 2}
    Units = 36
    EnoughTasks = 2
    EnoughRuns = 1
    TasksPerPoint = 2
    RunsPerPoint = 1
    Top = 2
    MaxBottlenecks = 4
    Named = {0, 4}
    MaxRecords = 3
    MaxRounds = 1
    MaxHours = 1
    Actions = {"restart", "reset"}
    MaxHistory = 2
    MinSamples = 3
    MinUses = 2
    EffectivePercent = 60
    MaxReports = 3
INVARIANTS
    
    FailedProbeReopens
    BudgetNearlyKept
    PeakIsHighest
    ToldOnce
PROPERTIES
    ClosesAfterProbes
    OutageEnds
    
