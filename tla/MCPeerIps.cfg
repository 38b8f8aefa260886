SPECIFICATION Spec
CONSTANTS
    a = a
    b = b
    x = x
    y = y
    z = z
    Nodes = {a, b}
    NoIP = NoIP
    Home <- MCHome
    Retain = 1
    MaxTime = 1
    MaxMoves = 2
    MaxCrashes = 1
INVARIANTS
    TypeOK
    PeerAddressKept
    GuardCoversPeers
    OneOwnAddress
    StaleAddressRetires
PROPERTIES
    ProtectionEndsByTime
