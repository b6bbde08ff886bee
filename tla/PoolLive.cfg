SPECIFICATION FairSpec
CONSTANTS
    t1 = t1
    t2 = t2
    t3 = t3
    t4 = t4
    t5 = t5
    Tasks = {t1, t2, t3, t4, t5}
    InitArg = 2
    AppendCount = 1
    PerfectArg = 3
    MaxArg = 4
    MaxQueueLength = 2
INVARIANTS
    TypeOK
    GrowsOnDemand
    NoLostWakeup
    MaxRespected
    ReleasedClean
PROPERTIES
    TasksRun
    ReleaseEnds
CHECK_DEADLOCK FALSE
