SPECIFICATION Spec
CONSTANTS
    s1 = s1
    s2 = s2
    w1 = w1
    w2 = w2
    Senders = {s1}
    Workers = {w1, w2}
    Loop = Loop
    Nobody = Nobody
    PackageLen = 2
    SocketRoom = 2
    Kinds = {"ping"}
    MaxArrivals = 1
    MaxPushes = 2
    CloseAfterAnswered = FALSE
    PoolMayFill = FALSE
    MayBreak = FALSE
    Closes = {"afterSent"}
SYMMETRY Symmetry
INVARIANTS
    ClosedAfterSent
CHECK_DEADLOCK FALSE
