SPECIFICATION Spec
CONSTANTS
    s1 = s1
    s2 = s2
    s3 = s3
    Session <- Sessions
    MaxTs = 8
SYMMETRY SessionSymmetry
INVARIANTS TypeOK ClockAboveHorizon NoDirtySnapshot WatermarkVisibleToAll
PROPERTY WatermarkMonotone
CHECK_DEADLOCK FALSE
