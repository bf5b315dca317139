SPECIFICATION Spec
CONSTANTS
    ClusterSize = 2
    SectorBytes = 2
    Entries = 4
    MinStep = 1
    Sizes = {6, 8}
    Room = 8
    Lba = {0, 1, 2, 3, 4, 5, 6, 7}
    Burst = {1, 3}
INVARIANT
    Inv
