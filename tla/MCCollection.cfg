SPECIFICATION Spec
CONSTANTS
    TxnIdStart = 100
    NotDeleted = 1000
    Capacity = 2
    MaxRows = 3
    Writer <- ThreeWriters
CHECK_DEADLOCK FALSE
INVARIANTS LayoutOK ScanAgreesWithStamps GateAgreesWithStamps DeletesAgreeWithStamps
