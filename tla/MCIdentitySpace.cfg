SPECIFICATION Spec
CONSTANTS
    Threads = {t1, t2, t3}
    Names = {n1}
    Kinds = {"namespace", "type"}
    Hole = Hole
    Buckets = {1}
    BucketOf <- OneBucket
    Baseline <- Mapped
    MaxSlot = 5
    MaxDraws = 3
    t1 = t1
    t2 = t2
    t3 = t3
    n1 = n1
SYMMETRY Symmetry
INVARIANTS
    RefusalsJustified
    ParentsFirst
    SavedExactly
PROPERTY
    Canonicalises
