SPECIFICATION Spec
CONSTANTS
    Pids = {"p1", "p2", "p3", "p4"}
    Group = Group
    None = None
INVARIANTS
    TypeOK
    OnlyInTurn
    NobodyForgotten
PROPERTY
    RoundsEnd
CHECK_DEADLOCK FALSE
