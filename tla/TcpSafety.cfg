SPECIFICATION Spec
CONSTANTS
    s1 = s1
    w1 = w1
    w2 = w2
    Senders = {s1}
    Workers = {w1, w2}
    Loop = Loop
    Nobody = Nobody
    PackageLen = 2
    SocketRoom = 2
    Kinds = {"ping", "key", "user", "http", "bad"}
    MaxArrivals = 1
    MaxPushes = 1
    CloseAfterAnswered = TRUE
    PoolMayFill = TRUE
    MayBreak = TRUE
    Closes = {"now", "afterSent", "idle"}
SYMMETRY Symmetry
INVARIANTS
    TypeOK
    InQueueOrder
    EncryptedAsAgreed
    NoUseAfterRelease
    ClosedOnce
CHECK_DEADLOCK FALSE
