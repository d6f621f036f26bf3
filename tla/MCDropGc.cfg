SPECIFICATION DropSpec
CONSTANTS
    s1 = s1
    s2 = s2
    t1 = t1
    t2 = t2
    a1 = a1
    a2 = a2
    Session <- Sessions
    Oid <- Tables
    InitTables <- OldTable
    Agent <- Agents
    Owner <- TableOwner
    IndexMgr = im
    TxnIdStart = 100
    NotDeleted = 1000
    MaxTs = 5
SYMMETRY SessionSymmetry
CHECK_DEADLOCK FALSE
INVARIANTS DropTypeOK UncommittedDropKeepsTable IndexBeforeDisk TombstonesAnnounced PublishedDropLeavesNothing
