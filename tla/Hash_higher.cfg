SPECIFICATION FairSpec
CONSTANTS
    BinCount = 1
    Keys = {1, 2, 3}
    Hash <- MCHash
    InitialBuckets = 1
    LoadRatio = 2
    Threads = {t1}
    Removable = {}
    Iterators = {i1}
    MaxNodes = 3
CHECK_DEADLOCK FALSE
PROPERTY FindsHigherHash
