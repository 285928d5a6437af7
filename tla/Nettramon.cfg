SPECIFICATION AllSpec
CONSTANTS
    Packets <- MCPackets
    SizeMod = 1048576
    Clients = {c1, c2}
    c1 = c1
    c2 = c2
    MaxCb = 2
    MaxOps = 4
INVARIANTS
    InsidePacket
    WholePayload
    
    
PROPERTIES
    
    Serves
