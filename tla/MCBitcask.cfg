SPECIFICATION BitcaskSpec
CONSTANTS
    k1 = k1
    k2 = k2
    Key <- Keys
    SegmentLimit = 1
    SegWord = 16
    RefWord = 8
    MaxSegment = 5
    MaxRow = 2
    MaxFrame = 3
    MaxCrash = 2
SYMMETRY KeySymmetry
CHECK_DEADLOCK FALSE
INVARIANTS BitcaskTypeOK CommittedRowsFound NothingElseFound
