SPECIFICATION FairSpec
CONSTANTS
    s1 = s1
    w1 = w1
    w2 = w2
    Senders = {s1}
    Workers = {w1, w2}
    Loop = Loop
    Nobody = Nobody
    PackageLen = 1
    SocketRoom = 1
    Kinds = {"ping", "http", "bad"}
    MaxArrivals = 2
    MaxPushes = 0
    CloseAfterAnswered = TRUE
    PoolMayFill = FALSE
    MayBreak = TRUE
    Closes = {"now", "idle"}
PROPERTIES
    EventuallyRead
    EventuallyReleased
CHECK_DEADLOCK FALSE
