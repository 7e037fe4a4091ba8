SPECIFICATION Spec
CONSTANTS
    Threads = {t1, t2}
    Numbers = {"0", "2"}
    Zeros = {"0"}
    BadNumber = BadNumber
    Acts = {"+", "/", "NUL+"}
    DoubleHash <- MCDoubleHash
    ActHash <- MCActHash
    Texts = {1, 2}
    DefaultCapacity = 1
    None = None
    MaxRequests = 3
INVARIANTS
    TypeOK
    AnswersShareHash
    CounterCounts
    UpdateRepairs
    RowsBounded
PROPERTIES
    EntriesLast
SYMMETRY AlikeThreads
CHECK_DEADLOCK FALSE
