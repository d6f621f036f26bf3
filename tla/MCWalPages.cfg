SPECIFICATION PagesSpec
CONSTANTS
    PageData = 6
    HeaderSize = 2
    Overhead = 3
    Sizes <- MCSizes
    JunkSizes <- MCJunk
    MaxRecords = 4
    MaxCrash = 2
CHECK_DEADLOCK FALSE
INVARIANTS PagesTypeOK ReadIdsIncrease RecordsReadBack SeekFindsPage
