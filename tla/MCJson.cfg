SPECIFICATION Spec
CONSTANTS
    Texts <- MCTexts
    Words <- MCWords
    MaxWords = 4
    Callbacks <- MCCallbacks
    Keys <- MCKeys
    Values <- MCValues
    Patches <- MCPatches
    MaxEdits = 2
    MaxNodes = 3
INVARIANTS
    ParserAgrees
    CallbackPrunes
    DumpReadsBack
    BinaryReadsBack
    OrderAgrees
    PatchReaches
    FlattenReadsBack

CHECK_DEADLOCK FALSE
