SPECIFICATION LiveSpec
CONSTANTS
    u1 = u1
    w1 = w1
    w2 = w2
    q1 = q1
    Users = {u1}
    IOThreads = {w1, w2}
    Loop = Loop
    Timer = Timer
    Quests = {q1}
    SyncQuests = {}
    Fds = {5}
    MaxConns = 1
    AutoReconnect = FALSE
    Encrypted = TRUE
INVARIANTS
    TypeOK
PROPERTIES
    QuestsSettle
    ConnectingEnds
    ClosedConnectionsDeleted
CHECK_DEADLOCK FALSE
