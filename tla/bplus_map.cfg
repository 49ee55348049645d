SPECIFICATION MCSpec
CONSTANTS
    Requests <- Requests14
    MaxOrder = 4
    MaxEntries = 4
    IntBits = 8
    INVALID_OFFSET = INVALID_OFFSET
    Loads <- Loads14
    Budget = 3
INVARIANTS
    AssertionsHold
    OrderedKeys
    ParentLinks
    SiblingLinks
    Balanced
    BlocksPartition
    RangeFromStored
PROPERTIES
    MapSpec
    PutReturns
