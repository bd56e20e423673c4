SPECIFICATION FairSpec
CONSTANTS
    Readers = {r1, r2}
    Coordinators = {c1, c2}
    None = None
    CountMask = 2
    MaxGenerations = 3
    r1 = r1
    r2 = r2
    c1 = c1
    c2 = c2
INVARIANTS
    GateCountExact
    TokenPinsProject
    SingleOwner
    NoLostWakeup
PROPERTIES
    ImplementsReady
    UnloadCompletes
