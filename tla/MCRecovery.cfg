SPECIFICATION TameSpec
CONSTANTS
    s1 = s1
    s2 = s2
    t1 = t1
    t2 = t2
    k1 = k1
    k2 = k2
    k3 = k3
    c1 = c1
    Session <- Sessions
    Tab <- Tables
    Key <- TableKeys
    Checkpointer <- Chains
    TxnIdStart = 100
    NotDeleted = 1000
    MaxTs = 7
    MaxTxn = 2
    MaxWalId = 5
    MaxStatement = 1
    MaxSeg = 1
    MaxEvent = 2
    MayBeInMemory = {t2}
SYMMETRY MCSymmetry
CHECK_DEADLOCK FALSE
INVARIANTS RecTypeOK RecoveryExact
