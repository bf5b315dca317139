SPECIFICATION CfgSpec
CONSTANTS
    Node = {n1, n2, n3, n4, n5}
    NULL = NULL
    TOP = TOP
    Title = {"Video", "Audio"}
    IniLine = {"title", "rom"}
    RomsLast = TRUE
SYMMETRY Symmetry
INVARIANT
    RomsBeforeReplay
