SPECIFICATION TerminalSpec
CONSTANTS
    BufLen = 6
    Ids = 8
    MaxLine = 3
    RxBufLen = 6
    Waiting = 1
    Users = {{"ps2", "serial"}}
INVARIANT
    KeysRight
ACTION_CONSTRAINT
    NoneForgotten
