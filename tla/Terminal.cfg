SPECIFICATION FairTerminalSpec
CONSTANTS
    BufLen = 5
    Ids = 8
    MaxLine = 6
    RxBufLen = 6
    Waiting = 1
    Users = {{}, {"ps2", "button"}, {"serial", "button"}}
INVARIANTS
    Inv
    KeyInv
PROPERTIES
    PrintedIsSent
    KeysArrive
