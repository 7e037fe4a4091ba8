SPECIFICATION FairSpec
CONSTANTS
    Names = {"f", "g"}
    LongNames = {}
    Chars = {"a", "b"}
    MAX_AMOUNT_OF_FILES_ = 2
    AMOUNT_OF_BLOCKS_ = 3
    BLOCK_DATA_SIZE = 2
    MaxText = 3
    NoFile = NoFile
    Pending = Pending
INVARIANTS
    TypeOK
    NoSharing
    BusyIffOwned
    RefusalsJustified
PROPERTIES
    ImplementsStore
    OperationsEnd
