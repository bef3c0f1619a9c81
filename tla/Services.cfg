SPECIFICATION ServicesSpec
CHECK_DEADLOCK FALSE
CONSTANTS
    Controllers = {"dashboard", "telegram"}
    MaxStarts = 2
    JoinTimesOut = TRUE
    Callers = {"a", "b"}
    main = "main"
    NoOne = "nobody"
    MaxEngines = 3
    MaxSignals = 2
    Types = {"signal"}
    Callbacks = {"c1", "c2"}
    Publishers = {"p1", "p2"}
    Capacity = 1
    MaxEvents = 2

    
    
PROPERTIES
    CallsEnd
