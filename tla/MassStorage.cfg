SPECIFICATION MscFairSpec
CONSTANTS
    Blocks = 3
    BlockPackets = 2
    CardFails = TRUE
    Commands <- AnyCommands
    ResetAny = TRUE
    ClearHalt = TRUE
    Stays = TRUE
    Persists = FALSE
CHECK_DEADLOCK FALSE
INVARIANTS
    MscInv
    DataRight
PROPERTY
    CommandEnds
