SPECIFICATION Spec
CONSTANTS
    MemTable = {1, 2, 3}
    MaxFlushes = 3
    Failures = {"sst", "manifest", "apply"}
    MaxFailures = 2
INVARIANTS
    CommittedInOrder
    EachMemtableOnce
    NoLostCommit
    CompletedFilesExist
    CrashLosesNothing
PROPERTY AllFlushed
CHECK_DEADLOCK FALSE
