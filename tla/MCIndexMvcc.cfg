SPECIFICATION IndexSpec
CONSTANTS
    s1 = s1
    s2 = s2
    Session <- Sessions
    MaxTs = 4
    TxnIdStart = 100
    NotDeleted = 1000
    Indexed = TRUE
    InitRows = 1
    MaxRows = 2
    MaxHits = 1
    MaxRebuild = 1
SYMMETRY SessionSymmetry
CHECK_DEADLOCK FALSE
INVARIANTS IndexTypeOK IndexAgreesWithHeap
