\* Two nodes that bind every interface, as the deployed service does.
SPECIFICATION FairSpec
CONSTANTS
    a = a
    b = b
    c = c
    tester = tester
    secret = secret
    old = old
    NoPeer = NoPeer
    NoKey = NoKey
    Names <- NamesUsed
    Addresses <- AddressesUsed
    NodeId <- NodeIds
    Host <- Network
    ClientFrom <- Registered
    Bind <- Wildcard
    Nodes = {a, b}
    Clients = {}
    Ids = {1, 2}
    ClientIds = {}
    Composed = 0
    Bootstrap <- Pair
    Introductions = {}
    MaxHops = 2
    Window = 2
    MaxAge = 1
    IdleLimit = 9
    CacheCap = 9
    Attempts = 2
    Trip = 2
    Signing <- SharedKey
    Verifying <- SharedKeys
    ClientKeys = {}
    Second = 1
    Horizon = 0
    MaxCopies = 0
    MaxTimeouts = 0
    MaxStoreFaults = 0
    MaxCrashes = 0
PROPERTY Spreads
CHECK_DEADLOCK FALSE
