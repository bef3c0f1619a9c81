SPECIFICATION TowerSpec
CHECK_DEADLOCK FALSE
CONSTANTS
    Throttle = 2
    ResourceThrottle = 2
    Percents = {"86%"}
    ReportEvery = 2
    MaxLines = 2
    MaxRotations = 1
    MaxErrors = 1
    MaxNow = 3
    Service = "service"
    Child = "child"
    MaxUpdates = 2
    MaxCrashes = 1
    Publishers = {1, 2}
    MaxLength = 2
    CriticalLength = 1
    Slack = 1
    MaxDrop = 2
    Batch = 2
    MaxPublished = 4
    MaxOutages = 1
    ProgressSteps = {0, 100}
    MaxLoops = 2
    MaxKills = 1
INVARIANTS
    UpdatesKept
    KeepsNewest
    
    

    
