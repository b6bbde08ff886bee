SPECIFICATION KeptSpec
CONSTANTS
    A = A
    B = B
    SeqSpace = 10
    BaseA = 9
    BaseB = 3
    UnitsA = 5
    UnitsB = 0
    ExpirableA = {}
    DiscardableA = {2}
    RawB = TRUE
    DataEncrypted = FALSE
    UnitsPerPackage = 1
    MaxAssembled = 1
    UnconfirmedLimit = 2
    UrgentThreshold = 3
    Tolerance = 2
    EarlyTolerance = 1
    AckLimit = 2
    MaxPackages = 4
    CapA = 2
    CapB = 1
    NetCap <- MCNetCap
    Peer <- MCPeer
    BaseSeq <- MCBaseSeq
    MaxUnits <- MCMaxUnits
    Discardable <- MCDiscardable
    Expirable <- MCExpirable
    RawStart <- MCRawStart
INVARIANTS
    AtMostOnce
    ConfirmedWasReceived
PROPERTIES
    UnaForward
    ImplementsDelivery
CHECK_DEADLOCK FALSE
