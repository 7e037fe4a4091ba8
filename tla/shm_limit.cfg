SPECIFICATION Spec
CONSTANTS
    Clients = {"c1"}
    AdjustMax = 2
    MaxLine = 2
    MaxSent = 4
INVARIANT
    WaitsForReader
CHECK_DEADLOCK FALSE
