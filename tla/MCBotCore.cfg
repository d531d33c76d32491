SPECIFICATION BotSpec
CONSTANTS
    Pids = {p1, p2}
    Destinations = {d1, d2}
    Files = {f1}
    Bases = {b1}
    Marks <- MCMarks
    MaxProcesses = 2
    MaxConnections = 1
    MaxWatchedFiles = 1
    MaxMemRegions = 2
    MaxAnomalies = 2
    AnomalyWord = 4
    ObservationBound = 3
    AnomalyBound = 4
    Roles <- MCRoles
    Patterns = {q1}
    MaxPatterns = 2
    MaxDecay = 2
    Triggers <- MCTriggers
    Confidences <- MCConfidences
    Wired <- MCWired
    HistorySize = 2
    HeadWord = 4
    MaxTriggers = 5
    MaxTransitions = 5
INVARIANTS
    MapSound
    WritableCodeSuspect
    SealSound
    RecordSound
    EntriesFlow
PROPERTIES
    TrustIsEarned
    SpoiltNeverRestored
    TriggersRaise
CHECK_DEADLOCK FALSE
