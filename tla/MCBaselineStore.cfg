SPECIFICATION Spec
CONSTANTS
    Clients = {p, q}
    Plain = {"compiled"}
    Sections = {s1}
    Values = {a, b}
    MaxTx = 3
    MaxFaults = 1
    MaxActivity = 4
    MaxLeftovers = 1
    p = p
    q = q
    s1 = s1
    a = a
    b = b
SYMMETRY Symmetry
CONSTRAINT WithinActivity
INVARIANTS
    SurvivesPowerLoss
    SnapshotCoherent
PROPERTIES
    CommittedImmutable
    PinnedStaysMappable
