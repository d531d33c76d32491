\* Override, dilation, contraction and both refusals, from the organs that cause them.
SPECIFICATION OrgansSpec
CONSTANTS
    Organs = {0, 4, 7}
    Routes = {}
    Types = {"RED", "WHITE", "YELLOW"}
    Base = 2
    Volume = 3
    MaxPumps = 4
    Batches = {2}
    self = self
    alien = alien
    w1 = w1
    w2 = w2
    Keys = {k1}
    Weights = {w1, w2}
    DnaOf <- MCDnaOf
    Senders = {self, alien}
    Native = {self}
    Vectors = {2, 3, 4}
    Bindings <- MCBindings
    Strays = {0, 5}
    MaxDna = 2
CONSTRAINT FewOrgans
INVARIANTS
    AlarmBeforeHalt
    LungsAccounted
CHECK_DEADLOCK FALSE
