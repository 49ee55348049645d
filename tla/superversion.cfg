SPECIFICATION FairSpec
CONSTANTS
    Thread = {t1, t2}
    MaxInstalls = 3
INVARIANTS
    NoUseAfterFree
    ReadsAreFresh
    NothingLeaks
PROPERTIES
    LastUnrefCleansUp
    ReadsEnd
CHECK_DEADLOCK FALSE
