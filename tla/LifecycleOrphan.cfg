SPECIFICATION Spec
CONSTANTS
    Controllers = {"dashboard"}
    MaxStarts = 2
    JoinTimesOut = TRUE
INVARIANTS
    OneUpdateLoop
CHECK_DEADLOCK FALSE
