SPECIFICATION FairSpec
CONSTANTS
    Size <- MCSize
    Oneway = {1}
    Expirable = {2, 3}
    Room = 6
    SectionHead = 1
    SegmentHead = 1
    Feedback = 2
    IdSpace = 5
    FirstId = 3
    CacheLimit = 2
    MaxReports = 1
INVARIANTS
    TypeOK
    HandedOverWhole
    Recoverable
PROPERTIES
    EventuallyWhole
CHECK_DEADLOCK FALSE
