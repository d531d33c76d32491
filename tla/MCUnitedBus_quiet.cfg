\* Ordinary traffic: no priority globules, so the ring keeps its resting size.
SPECIFICATION FairSpec
CONSTANTS
    Organs = {0, 4}
    Routes <- MCRoutes
    Types = {"RED"}
    Base = 3
    Volume = 4
    MaxPumps = 6
    Batches = {1, 4}
INVARIANT PendingCoversReaders
PROPERTIES DeliversInOrder AbsorbReturns
