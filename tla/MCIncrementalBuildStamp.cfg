SPECIFICATION Spec
CONSTANTS
    Managers = {m1}
    Sources = {s1}
    Contents = {a, b}
    SameStampWrites = TRUE
    MaxEdits = 1
    MaxJournalFaults = 0
    MaxSaves = 1
    MaxActivity = 1
    m1 = m1
    s1 = s1
    a = a
    b = b
SYMMETRY Symmetry
INVARIANTS
    ReadyFresh
