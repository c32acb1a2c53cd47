CONSTANTS
    BinCount = 2
    Keys = {1, 2}
    Hash <- MCHash
    InitialBuckets = 1
    LoadRatio = 1
    Threads = {t1, t2}
    Removable = {1}
    Iterators = {i1}
    MaxNodes = 3
SPECIFICATION FairSpec
CHECK_DEADLOCK FALSE
INVARIANTS
    TableIsIntact
    IterationIsExact
PROPERTIES
    OperationsReturn
