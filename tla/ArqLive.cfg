SPECIFICATION MCLiveSpec
CONSTANTS
    A = A
    B = B
    SeqSpace = 8
    BaseA = 6
    BaseB = 3
    UnitsA = 2
    UnitsB = 0
    ExpirableA = {2}
    DiscardableA = {}
    RawB = FALSE
    DataEncrypted = FALSE
    UnitsPerPackage = 2
    MaxAssembled = 2
    UnconfirmedLimit = 2
    UrgentThreshold = 3
    Tolerance = 3
    EarlyTolerance = 2
    AckLimit = 2
    MaxPackages = 2
    CapA = 1
    CapB = 1
    NetCap <- MCNetCap
    Peer <- MCPeer
    BaseSeq <- MCBaseSeq
    MaxUnits <- MCMaxUnits
    Discardable <- MCDiscardable
    Expirable <- MCExpirable
    RawStart <- MCRawStart
PROPERTIES
    EventuallyDelivered
    EventuallyConfirmed
CHECK_DEADLOCK FALSE
