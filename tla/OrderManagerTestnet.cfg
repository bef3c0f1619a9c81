SPECIFICATION FairSpec
CONSTANTS
    EngineThreads = {"loop"}
    DashboardThreads = {"flask"}
    Mode = "testnet"
    Sizes = {4}
    Lot = 3
    MaxOrders = 2
    Faults = {"timeout", "lost_reply", "refused", "partial", "restart"}
INVARIANTS
    TypeOK
    
    
PROPERTIES
    CallsReturn
CHECK_DEADLOCK FALSE
