SPECIFICATION FairCrashSpec
CONSTANTS
    Names = {"f", "g", "a name of twenty characters"}
    LongNames = {"a name of twenty characters"}
    Chars = {"a"}
    MAX_AMOUNT_OF_FILES_ = 2
    AMOUNT_OF_BLOCKS_ = 3
    BLOCK_DATA_SIZE = 1
    MaxText = 3
INVARIANTS
    ChainsAcyclic
    FreeBlocksBlank
    WriteThrough
    ShortNamesUnique
PROPERTIES
    OperationsEnd
