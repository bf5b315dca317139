SPECIFICATION Spec
CONSTANTS
    Channel = {chA}
    Drive = {d0, d1, d2}
    FileObj = {f1, f2, f3}
    DescObj = {p1, p2, p3}
    NULL = NULL
    DriverType = {"drv00", "drv01", "drv08", "other"}
    ReInsert = FALSE
SYMMETRY Symmetry
INVARIANTS
    DriveInv
    NoLeak
    FpgaAgrees
