SPECIFICATION Spec
CONSTANTS
    b1 = b1
    b2 = b2
    a1 = a1
    a2 = a2
    Blocks <- MCBlocks
    Insns <- MCInsns
    Addrs <- MCAddrs
    PerTb = 4
    MaxTb = 3
    Margin = 2
    MaxEvents = 5
SYMMETRY Symmetry
INVARIANTS  Drained CodeStable
