SPECIFICATION KeptSpec
CONSTANTS
    A = A
    B = B
    SeqSpace = 8
    BaseA = 6
    BaseB = 3
    UnitsA = 3
    UnitsB = 0
    ExpirableA = {2}
    DiscardableA = {}
    RawB = FALSE
    DataEncrypted = TRUE
    UnitsPerPackage = 2
    MaxAssembled = 2
    UnconfirmedLimit = 2
    UrgentThreshold = 1
    Tolerance = 3
    EarlyTolerance = 1
    AckLimit = 2
    MaxPackages = 3
    CapA = 1
    CapB = 1
    NetCap <- MCNetCap
    Peer <- MCPeer
    BaseSeq <- MCBaseSeq
    MaxUnits <- MCMaxUnits
    Discardable <- MCDiscardable
    Expirable <- MCExpirable
    RawStart <- MCRawStart
INVARIANTS
    TypeOK
    NoLoss
    InOrderWhenOrdered
    UnconfirmedBounded
    NoSpuriousClose
PROPERTIES
    ImplementsDelivery
CHECK_DEADLOCK FALSE
