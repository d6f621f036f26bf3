SPECIFICATION TableSpec
CONSTANTS
    s1 = s1
    s2 = s2
    Session <- Sessions
    MaxTs = 5
    TxnIdStart = 100
    NotDeleted = 1000
    Indexed = FALSE
    InitRows = 1
    MaxRows = 3
    MaxHits = 2
SYMMETRY SessionSymmetry
CHECK_DEADLOCK FALSE
INVARIANTS TableTypeOK RangesStillPending
PROPERTY SnapshotsStable
