SPECIFICATION MscFairSpec
CONSTANTS
    Blocks = 3
    BlockPackets = 2
    CardFails = TRUE
    Commands <- SomeCommands
    ResetAny = FALSE
    ClearHalt = FALSE
    Stays = TRUE
    Persists = FALSE
INVARIANT
    FailureTold
