SPECIFICATION FairSpec
CONSTANTS
    Capacity = 3
    MaxPacket = 2
    Chunk = 2
    MaxBytes = 5
    MaxEpoch = 2
INVARIANTS
    Accounted
    OutInv
PROPERTIES
    Drained
