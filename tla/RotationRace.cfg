CONSTANTS
    Writers = {w1, w2}
    NoWriter = NoWriter
    MaxWrites = 3
    MaxBatch = 1
    MaxFileSize = 1
    MemTableSize = 3
    Level0Files = 1
    MaxCrashes = 0
    MaxFaults = 0
    MaxCheckpoints = 0
    MaxCompactions = 0
SPECIFICATION Spec
INVARIANT AlwaysReplays
CHECK_DEADLOCK FALSE
