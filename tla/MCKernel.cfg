\* Healths around the thresholds 40, 75, 85 and 90, and one above 100.
SPECIFICATION KernelSpec
CONSTANTS
    kernel = kernel
    swarm = swarm
    cortex = cortex
    Vital = {kernel}
    Nonvital = {swarm, cortex}
    CORTEX = cortex
    Reports = {0, 39, 74, 85, 200}
    TickWord = 2
    MaxOrgans = 2
    CycleDuration = 2
    TaskIdWord = 8
    AbsorbMax = 1
    MaxInits = 1
    MaxSignals = 1
INVARIANTS
    ReflexPrevails
    ListSound
    StateObeyed
PROPERTIES
    SafeLeftThroughRecovery
    BreachForcesSafe
    NormalMeansHealthy
    HomeostasisRegained
    BeatEnds
