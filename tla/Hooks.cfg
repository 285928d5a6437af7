SPECIFICATION AllSpec
CONSTANTS
    Others = {"t"}
    Adders = {"emu"}
    Procs = {"p1", "p2"}
    Kernel = {"k"}
    Blocks <- MCBlocks
    Frame <- MCFrame
    Unmapped <- NoPage
    Linked = TRUE
    MaxD = 2
    MaxOps = 3
    Guests = {"t1", "t2"}
    Nums = {"open", "close"}
    Capacity = 2
    MaxNM = 2
    MaxCalls = 3
    Cr3s = {"p1", "p2"}
    UINT16_MAX = 2
    TracerOps = 5
INVARIANTS
    
    
    TableIsList
    
PROPERTIES
    Fires
    OwnProcess
    Bound
