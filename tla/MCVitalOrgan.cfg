\* Energy enough for a night's sleep, or for a famine when organs ask for it.
SPECIFICATION OrganSpec
CONSTANTS
    Organs = {"CORTEX"}
    Budget <- Budgets
    Demands = {2, 9}
    Supplies = {5}
    GuardianStates = {0, 2}
    InitialPool = 20
    Basal = 2
    EconomyBasal = 1
    EconomyBelow = 6
    RecycleEvery = 10
    PhaseDuration = 5
    AwareLimit = 10
    DreamLimit = 2
    AlertLimit = 1
    SaveEvery = 2
    Period = 6
    PoolCap = 12
    MaxReboots = 1
    BitXor <- MCBitXor
    Salt = 512
    MaxEvents = 16
    StructSize = 4120
    DnaRoom = 512
    Entropies = {0, 9, 19}
    MaxExperiences = 70
    Disturbed = {"tension_yin_yang", "immune_load"}
    Injected = {135}
    MaxInjections = 1
    Ids = {1, 2}
    Thresholds = {1}
    Weights <- MCWeights
    Plasticities = {1}
    Signals <- MCSignals
    MaxNodes = 2
    MaxLinks = 2
    ActivationTop = 2
    ActivationFloor <- MCActivationFloor
    WeightTop = 2
    DepressionFloor <- MCDepressionFloor
    RestTicks = 2
    ScaleAbove = 3
    ScaleTo = 2
    PlasticityUnit = 1
    LinkRooms = {1}
INVARIANTS
    FastingMeansSpent
    TemperamentSound
    ForceFollowsTension
PROPERTIES
    FamineIsFelt
    SleepRestores
    AlertSubsides
    RegulationHeals
    RestsAfterFiring
    NeverOverexcited
