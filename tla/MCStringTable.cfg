SPECIFICATION FairSpec
CONSTANTS
    Threads = {t1, t2}
    Strings = {sa, sb, sc}
    Hole = Hole
    Buckets = {1, 2}
    BucketOf <- Spread
    Dense = FALSE
    Baseline <- Mapped
    PageSize = 2
    MaxId = 5
    IdModulus = 10
    MaxDraws = 4
    t1 = t1
    t2 = t2
    sa = sa
    sb = sb
    sc = sc
INVARIANTS
    AnswersReadable
    SavedExactly
PROPERTIES
    Canonicalises
    InternReturns
