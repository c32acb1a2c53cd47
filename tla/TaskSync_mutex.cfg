CONSTANTS
    t1 = t1
    t2 = t2
    t3 = t3
    n1 = n1
    n2 = n2
    m1 = m1
    Tasks = {t1, t2}
    Natives = {n1}
    Mutexes = {m1}
    WaitLists <- NoLists
    NumWorkers = 2
    MaxDrops = 2
    None = None
SPECIFICATION FairSpec
INVARIANTS
    MutualExclusion
    NoClientOfFreeMutex
PROPERTIES
    LockReturns
