SPECIFICATION FairSpec
CONSTANTS
    LbaMod = 4096
    Room = 13
    MaxCount = 5
    MaxBurst = 2
    MaxBlocks = 2
    Medium <- AllMedia
    Address <- AllAddresses
    Count = {0, 2}
    Multiple = {1, 4}
    Slow = FALSE
INVARIANT
    Inv
PROPERTIES
    TaskFileWhileBusy
    CommandEnds
