SPECIFICATION Spec
CONSTANTS
    Fanout = 2
    Trigger = 2
    SizeRatio = 1
    SizeAmp <- MCSizeAmp
    MinMergeWidth = 2
    MaxMergeWidth = 2
    NumLevels <- MCNumLevels
    FlushThreads = {f1, f2}
    CompactionThreads = {c1, c2}
    MaxWriteBufferNumber = 2
    SlowdownTrigger = 4
    StopTrigger = 5
    MemtablePuts = 1
    NPuts = 5
    MaxFailures = 1
INVARIANTS
    PutsInOrder
    EligibleCompactionHasJob
    QueuesMatchJobs
    StallIsCurrent
    WaiterHasJob
PROPERTY LoadCompletes
