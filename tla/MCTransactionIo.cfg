SPECIFICATION FairSpec
CONSTANTS
    Caller = caller
    Workers = {w1, w2}
    Artifacts <- MCArtifacts
    Sectioned = {sources, cache}
    TaskCount = 2
    Copies = 2
    QueueCapacity = 2
    w1 = w1
    w2 = w2
    sources = sources
    plain = plain
    cache = cache
INVARIANTS
    WaitMeansDone
    StackOutlivesJobs
PROPERTY
    CommitFinishes
