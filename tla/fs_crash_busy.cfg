SPECIFICATION CrashSpec
CONSTANTS
    Names = {"f", "g"}
    LongNames = {}
    Chars = {"a"}
    MAX_AMOUNT_OF_FILES_ = 2
    AMOUNT_OF_BLOCKS_ = 3
    BLOCK_DATA_SIZE = 1
    MaxText = 2
INVARIANT
    BusyIffOwned
