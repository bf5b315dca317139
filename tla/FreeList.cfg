SPECIFICATION ListFairSpec
CONSTANTS
    HeapUnits = 8
    User <- Users
INVARIANT
    ListInv
PROPERTIES
    HeapSpec
    AllocReturns
