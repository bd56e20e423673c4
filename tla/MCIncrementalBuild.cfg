SPECIFICATION Spec
CONSTANTS
    Managers = {m1, m2}
    Sources = {s1, s2}
    Contents = {a, b}
    SameStampWrites = FALSE
    MaxEdits = 2
    MaxJournalFaults = 1
    MaxSaves = 2
    MaxActivity = 3
    m1 = m1
    m2 = m2
    s1 = s1
    s2 = s2
    a = a
    b = b
SYMMETRY Symmetry
CONSTRAINT WithinActivity
INVARIANTS
    ReadyFresh
    NoLostEdit
    IndexExact
