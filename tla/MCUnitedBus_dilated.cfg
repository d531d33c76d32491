\* Dilation by a white globule, then contraction.
SPECIFICATION FairSpec
CONSTANTS
    Organs = {0, 4}
    Routes <- MCRoutes
    Types = {"RED", "WHITE"}
    Base = 2
    Volume = 4
    MaxPumps = 4
    Batches = {4}
PROPERTY AbsorbReturns
