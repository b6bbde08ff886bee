SPECIFICATION MCSpec
CONSTANTS
    A = A
    B = B
    SeqSpace = 8
    BaseA = 6
    BaseB = 3
    UnitsA = 3
    UnitsB = 0
    ExpirableA = {}
    DiscardableA = {}
    RawB = TRUE
    DataEncrypted = FALSE
    UnitsPerPackage = 1
    MaxAssembled = 2
    UnconfirmedLimit = 3
    UrgentThreshold = 2
    Tolerance = 3
    EarlyTolerance = 3
    AckLimit = 2
    MaxPackages = 3
    CapA = 1
    CapB = 1
    NetCap <- MCNetCap
    Peer <- MCPeer
    BaseSeq <- MCBaseSeq
    MaxUnits <- MCMaxUnits
    Discardable <- MCDiscardable
    Expirable <- MCExpirable
    RawStart <- MCRawStart
INVARIANTS
    NoLoss
CHECK_DEADLOCK FALSE
