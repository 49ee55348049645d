SPECIFICATION Spec
CONSTANTS
    Requests <- Requests8
    MaxOrder = 4
    MaxEntries = 4
    IntBits = 8
    INVALID_OFFSET = INVALID_OFFSET
INVARIANTS
    WellFormed
    GetFindsStored
