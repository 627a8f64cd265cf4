\* All message types.  A loop index counts to 3, an entry list may have 4.
CONSTANTS
    Types <- AllTypes
    Received = {0, 30, 60, 130}
    StringSizes = {0, 3}
    Counts = {0, 1, 3}
    LongCounts = {0, 3, 4}
    IndexRange = 4
    BufferSize = 130
    StackSize = 150
    NoMemory = TRUE
SPECIFICATION ReaderFairSpec
CHECK_DEADLOCK FALSE
INVARIANTS ReaderTypeOK AcceptedIsReceived FreeIsExact UnassignedAreKnown
PROPERTIES NothingIsReadTwice OverlongDoesNotReturn ParseEnds
