CONSTANTS
    t1 = t1
    t2 = t2
    n1 = n1
    NumCores = 2
    Tasks = {t1, t2}
    Natives = {n1}
    Setups <- MCSetups
    MaxCalls = 1
    MaxContexts = 6
    Admin = admin
    None = None
SPECIFICATION FairSpec
INVARIANTS
    PoolConsistent
    ContextsNotShared
PROPERTIES
    QueuedTaskRuns
    DestructorReturns
