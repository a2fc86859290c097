CONSTANTS
    Writers = {w1, w2}
    NoWriter = NoWriter
    MaxWrites = 2
    MaxBatch = 1
    MaxFileSize = 2
    MemTableSize = 2
    Level0Files = 1
    MaxCrashes = 0
    MaxFaults = 0
    MaxCheckpoints = 1
    MaxCompactions = 0
SPECIFICATION Spec
INVARIANT TruncatesOnlyOlder
CHECK_DEADLOCK FALSE
