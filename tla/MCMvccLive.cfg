SPECIFICATION FairSpec
CONSTANTS
    s1 = s1
    s2 = s2
    Session <- Sessions
    MaxTs = 5
    TxnIdStart = 100
    NotDeleted = 1000
    Indexed = TRUE
    InitRows = 0
    MaxRows = 1
    MaxHits = 1
CHECK_DEADLOCK FALSE
PROPERTY CommitBecomesVisible
