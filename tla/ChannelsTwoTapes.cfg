SPECIFICATION Spec
CONSTANTS
    TapeDrive = {0, 1}
    Tapes <- SomeTapes
    TapeAsks <- SomeTapeAsks
    ByteBits = 2
    BufBytes = 2
    DummyBits = 2
    Top = 15
    Together = TRUE
    FluxDisks <- SomeFluxDisks
    BurstWords = 4
    BlkBytes = 4
    NoHead = 255
    FloppyDrive <- OneDrive
    Tracks = 2
    LastSector = 1
    Images <- SomeImages
    Streams <- SomeStreams
    HeadTracks = {0, 1, 3}
    BodyWords = 2
    Level = 3
INVARIANT
    TapeRight
