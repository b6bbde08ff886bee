SPECIFICATION Spec
CONSTRAINT Defined
ACTION_CONSTRAINT LocalFirst
ACTION_CONSTRAINT Prompt
CONSTANTS
    u1 = u1
    u2 = u2
    w1 = w1
    q1 = q1
    Users = {u1, u2}
    IOThreads = {w1}
    Loop = Loop
    Timer = Timer
    Quests = {q1}
    SyncQuests = {q1}
    Fds = {5}
    MaxConns = 2
    AutoReconnect = TRUE
    Encrypted = TRUE
SYMMETRY Symmetry
INVARIANTS
    NeverDupled
    NoOrphan
    TakenOnce
    NoUseAfterDelete
    DescriptorIsOwn
PROPERTIES
    ImplementsService
