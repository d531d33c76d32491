\* A line of three nodes; a retry hides a lost or late exchange.
SPECIFICATION LineSpec
CONSTANTS
    a = a
    b = b
    c = c
    tester = tester
    secret = secret
    old = old
    NoPeer = NoPeer
    NoKey = NoKey
    Names <- NamesUsed
    Addresses <- AddressesUsed
    NodeId <- NodeIds
    Host <- Network
    ClientFrom <- Registered
    Bind <- Routable
    Nodes = {a, b, c}
    Clients = {}
    Ids = {1, 2}
    ClientIds = {}
    Composed = 0
    Bootstrap <- Chain
    Introductions = {}
    MaxHops = 2
    Window = 2
    MaxAge = 1
    IdleLimit = 9
    CacheCap = 1
    Attempts = 2
    Trip = 1
    Signing <- RotatingKey
    Verifying <- RotatingKeys
    ClientKeys = {}
    Second = 1
    Horizon = 0
    MaxCopies = 0
    MaxTimeouts = 1
    MaxStoreFaults = 0
    MaxCrashes = 0
PROPERTIES Spreads RoundEnds
CHECK_DEADLOCK FALSE
