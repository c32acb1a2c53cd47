CONSTANTS
    t1 = t1
    t2 = t2
    t3 = t3
    n1 = n1
    n2 = n2
    m1 = m1
    Tasks = {t1, t2, t3}
    Natives = {n1}
    Mutexes = {}
    WaitLists <- DiamondLists
    NumWorkers = 2
    MaxDrops = 1
    None = None
SPECIFICATION FairSpec
INVARIANTS
    TypeOK
    NoAssertFails
    WaitContract
    NoLostWakeup
    CompletedHasNoClients
PROPERTIES
    ClientsAreNotified
    SpawnedTasksComplete
    ImplementsWaitService
