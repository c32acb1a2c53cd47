CONSTANTS
    t1 = t1
    t2 = t2
    t3 = t3
    n1 = n1
    n2 = n2
    m1 = m1
    Tasks = {t1, t2}
    Natives = {n1, n2}
    Mutexes = {}
    WaitLists <- CrossedLists
    NumWorkers = 2
    MaxDrops = 1
    None = None
SPECIFICATION FairSpec
CHECK_DEADLOCK FALSE
PROPERTIES
    ClientsAreNotified
