SPECIFICATION Spec
CONSTANTS
    EngineThreads = {"loop"}
    DashboardThreads = {"flask"}
    Mode = "paper"
    Sizes = {3}
    Lot = 3
    MaxOrders = 3
    Faults = {}
PROPERTIES
    ReductionNeverGrows
CHECK_DEADLOCK FALSE
