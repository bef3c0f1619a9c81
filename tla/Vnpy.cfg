SPECIFICATION VnpySpec
CHECK_DEADLOCK FALSE
CONSTANTS
    Feed = "feed"
    Api = "api"
    MaxOrders = 2
    MaxStarts = 2
    Callers = {"api"}
    Lots = {1, 2}
    MaxPosition = 2
    LossLimit = 2
    MaxRetries = 1
    MaxSent = 2
    MaxFailures = 3
    MaxFaults = 4
    Processes = {"api", "dog"}
    Positions = {"BTCUSDT"}
    MaxSets = 2
    MaxStamp = 2
    Orders = {"o1"}
    Volume = 3
    MaxRecoveries = 2
    Clients = {"c"}
    MaxRequests = 2
    Window = 3
    MaxTime = 7
    Sockets = {"s"}
    Agents = {1, 2}
    Assets = {"btc", "eth"}
    EpisodeSteps = 2
    SaveEvery = 2
    MaxTraining = 2
    MaxAgents = 3
INVARIANTS
    
    
    ReadYourWrites
    FinalIsTrue
    WindowKept

    
