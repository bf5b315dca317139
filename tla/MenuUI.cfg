SPECIFICATION FairSpec
CONSTANTS
    OsdTimeouts = {0, 2}
    HalfTimeout = 1
INVARIANTS
    Inv
    UsbLocksMenu
    NoAccidentalYes
PROPERTY
    MenuGoesAway
