SPECIFICATION Spec
CONSTANTS
    Update = "update"
    Threads = {"update", "flask"}
    Interval = 2
    MinSamples = 1
    BufferSize = 1
    MaxOutcomes = 2
    MaxNow = 4
INVARIANT
    AgreeingModelsAllowed
CHECK_DEADLOCK FALSE
