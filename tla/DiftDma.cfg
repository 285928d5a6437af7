SPECIFICATION Spec
CONSTANTS
    Dma = {"d1", "d2"}
    Plain = {"p"}
    Sg <- MCSg
    Sector <- MCSector
    Write <- MCWrite
    SECTOR = 2
    MaxFails = 1
INVARIANT RecordedExactly TransferredWhole FlagOwned
PROPERTY Completes
