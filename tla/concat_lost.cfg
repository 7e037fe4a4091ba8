SPECIFICATION Spec
CONSTANTS
    N = 3
    Kinds = {"text"}
INVARIANT
    NothingLost
CHECK_DEADLOCK FALSE
