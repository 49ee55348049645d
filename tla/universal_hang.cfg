SPECIFICATION MCSpec
CONSTANTS
    Fanout = 16
    Trigger = 16
    SizeRatio = 1
    SizeAmp <- MCSizeAmp
    MinMergeWidth = 16
    MaxMergeWidth = 16
    NumLevels <- MCNumLevels
    FlushThreads = {f1}
    CompactionThreads = {c1}
    MaxWriteBufferNumber = 2
    SlowdownTrigger = 20
    StopTrigger = 36
    MemtablePuts = 1
    NPuts = 80
    MaxFailures = 0
INVARIANT WaiterHasJob
