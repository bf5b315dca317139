SPECIFICATION FairSpec
CONSTANTS
    Channel = {chA, chB}
    Drive = {d0}
    FileObj = {f1, f2}
    DescObj = {p1, p2}
    NULL = NULL
    DriverType = {"drv00"}
    ReInsert = FALSE
INVARIANTS
    Inv
    UsbExclusive
PROPERTIES
    DrivesSpec
    LoadEnds
    CardComesBack
