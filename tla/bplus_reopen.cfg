SPECIFICATION MCSpec
CONSTANTS
    Requests <- Requests6
    MaxOrder = 4
    MaxEntries = 4
    IntBits = 16
    INVALID_OFFSET = 57005
    BlockSizes = {128, 256}
    ADDR_STR_WIDTH = 4
    MaxSessions = 2
INVARIANTS
    OpenBlocksPartition
    OpenGetFindsStored
PROPERTY BlockSizeImmutable
