SPECIFICATION FairSpec
CONSTANTS
    Channels = 2
    Drive = {0}
    Blk = 2
    Room = 6
    ProcessLimit = 2
    Media <- SomeMedia
    Requests <- SomeRequests
INVARIANT
    Inv
PROPERTIES
    FileChannelSpec
    Answered
