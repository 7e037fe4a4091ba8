SPECIFICATION Spec
CONSTANTS
    Clients = {"c1", "c2"}
    AdjustMax = 2
    MaxLine = 2
    MaxSent = 4
INVARIANTS
    TypeOK
    UnreadIsIntact
PROPERTIES
    ShownOnceInOrder
    ServerGoesOn
    QuitEnds
CHECK_DEADLOCK FALSE
