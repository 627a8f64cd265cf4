\* Real-time updates only.
CONSTANTS
    Types = {"REAL_TIME_UPDATE"}
    Received = {0, 130}
    StringSizes = {0, 3}
    Counts = {0, 1, 3}
    LongCounts = {0, 3}
    IndexRange = 4
    BufferSize = 130
    StackSize = 150
    NoMemory = FALSE
SPECIFICATION ReaderSpec
CHECK_DEADLOCK FALSE
INVARIANTS RemainingTimeIsAssigned
