SPECIFICATION Spec
CONSTANTS
    BinCount = 1
    Keys = {1, 2}
    Hash <- MCHash
    InitialBuckets = 1
    LoadRatio = 2
    Threads = {t1, t2}
    Removable = {}
    Iterators = {}
    MaxNodes = 3
CHECK_DEADLOCK FALSE
INVARIANT OneNodePerKey
