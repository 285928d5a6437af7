SPECIFICATION FairSpec
CONSTANTS
    Commands = {"impo", "expo", "logf", "exec", "invo", "sync"}
    Sizes = {0, 1, 2, 3}
    Chunk = 2
    MaxCommands = 3
    MaxFaults = 2
    MaxTrouble = 1
    MaxOut = 2
    MaxQueue = 8
INVARIANTS
    
    InStep
    OutputComplete

    
CHECK_DEADLOCK FALSE
