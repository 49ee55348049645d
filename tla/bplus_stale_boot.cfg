SPECIFICATION MCSpec
CONSTANTS
    Requests <- Requests5
    MaxOrder = 4
    MaxEntries = 4
    IntBits = 16
    INVALID_OFFSET = 57005
    BlockSizes = {128}
    ADDR_STR_WIDTH = 4
    MaxSessions = 3
INVARIANT OpenBlocksPartition
