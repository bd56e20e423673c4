SPECIFICATION Spec
CONSTANTS
    Threads = {t1, t2, t3}
    Requests <- SomeRequests
    DefaultPageSize = 5
    MaxPages = 3
    MaxBlocks = 4
    t1 = t1
    t2 = t2
    t3 = t3
SYMMETRY Symmetry
INVARIANTS
    BlocksDisjoint
    PagesOwned
