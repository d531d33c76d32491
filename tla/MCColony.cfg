\* A mesh of two: a client that repeats itself over and over, time passing within seconds,
\* two of a late request, a failing write and a crash, with a window as long as an envelope is fresh,
\* as by default.  And the archive of one node with two failing writes or crashes.
SPECIFICATION ColonySpec
CONSTANTS
    a = a
    b = b
    c = c
    tester = tester
    secret = secret
    old = old
    NoPeer = NoPeer
    NoKey = NoKey
    Names <- NamesUsed
    Addresses <- AddressesUsed
    NodeId <- NodeIds
    Host <- Network
    ClientFrom <- Registered
    Bind <- Routable
    Nodes = {a, b}
    Clients = {tester}
    Ids = {1}
    ClientIds = {1}
    Composed = 1
    Bootstrap <- Tested
    Introductions <- Met
    MaxHops = 2
    Window = 1
    MaxAge = 1
    IdleLimit = 9
    CacheCap = 9
    Attempts = 2
    Trip = 2
    Signing <- SharedKey
    Verifying <- SharedKeys
    ClientKeys = {secret}
    Second = 2
    Horizon = 4
    MaxCopies = 3
    MaxTimeouts = 1
    MaxStoreFaults = 1
    MaxCrashes = 1
    o1 = o1
    o2 = o2
    t1 = t1
    t2 = t2
    Organisms = {o1, o2}
    Threats = {t1, t2}
    Mutations = {"m"}
    Beats <- MCBeats
    MaxBeats = 4
    MaxWriteFaults = 2
CONSTRAINTS MetEarly TwoFaults
INVARIANTS ReplaysBounded ArchiveSound
CHECK_DEADLOCK FALSE
