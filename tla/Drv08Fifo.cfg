SPECIFICATION Spec
CONSTANTS
    LbaMod = 4096
    Room = 13
    MaxCount = 5
    MaxBurst = 2
    MaxBlocks = 2
    Medium <- FewMedia
    Address <- FewAddresses
    Count = {0, 2}
    Multiple = {3}
    Slow = TRUE
INVARIANT
    FifoFits
