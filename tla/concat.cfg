SPECIFICATION Spec
CONSTANTS
    N = 3
    Kinds = {"text", "nul", "empty", "missing"}
INVARIANTS
    TypeOK
    TokensConserved
    NoWriteAfterReturn
    MostWritten
PROPERTY
    OneTurnSuffices
CHECK_DEADLOCK FALSE
