SPECIFICATION TameSpec
CONSTANTS
    Kind = {"wide", "narrow", "text"}
    Capacity = 2
    MaxBlock = 9
    MaxToken = 2
    MaxSegment = 2
    MaxEvent = 4
CHECK_DEADLOCK FALSE
INVARIANTS FileTypeOK LiveSegmentsReadBack DurableImageIntact FreeBlocksUnused
