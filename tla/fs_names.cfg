SPECIFICATION Spec
CONSTANTS
    Names = {"f", "a name of twenty characters"}
    LongNames = {"a name of twenty characters"}
    Chars = {"a"}
    MAX_AMOUNT_OF_FILES_ = 2
    AMOUNT_OF_BLOCKS_ = 2
    BLOCK_DATA_SIZE = 1
    MaxText = 2
INVARIANT
    UniqueNames
