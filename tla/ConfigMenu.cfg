SPECIFICATION CfgSpec
CONSTANTS
    Node = {n1, n2, n3, n4, n5, n6, n7}
    NULL = NULL
    TOP = TOP
    Title = {"Video", "Audio"}
    IniLine = {"title", "rom", "cfg", "recfg", "target"}
    RomsLast = FALSE
SYMMETRY Symmetry
INVARIANTS
    CfgInv
    RomsBeforeReplay
