\* A ring of four chunks of three records, which fills up and is used again.
CONSTANTS
    Q = 4
    C = 3
    EarlyChunks = 0
    MaxRecords = 12
SPECIFICATION FairSpec
INVARIANTS
    ChunkExclusion
    InOrder
    SyncDrains
    WellFramed
PROPERTIES
    SyncReturns
    SpinEnds
    IsFifo
