CONSTANTS
    Writers = {w1, w2}
    NoWriter = NoWriter
    MaxWrites = 3
    MaxBatch = 2
    MaxFileSize = 1
    MemTableSize = 1
    Level0Files = 1
    MaxCrashes = 1
    MaxFaults = 1
    MaxCheckpoints = 1
    MaxCompactions = 1
SPECIFICATION MCFairSpec
INVARIANTS
    TypeOK
    SequencesUnique
    AckedVisible
    FlushedRegistered
PROPERTIES
    ImplementsDurableLog
    WriteReturns
CHECK_DEADLOCK FALSE
