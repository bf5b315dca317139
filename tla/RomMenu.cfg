SPECIFICATION RomSpec
CONSTANTS
    Height = 3
    MaxFilter = 1
    Directory <- AllDirectories
    Pattern <- AllPatterns
    Length <- Lengths
    MemSize = 9
    FileBuf = 4
    MemBuf = 2
    CardRoom = 6
    CardFails = TRUE
    SlowCore = TRUE
    Jobs <- AllJobs
INVARIANTS
    SelInv
    UploadInv
PROPERTIES
    NothingSkipped
    UploadEnds
