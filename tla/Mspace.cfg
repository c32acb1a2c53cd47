CONSTANTS
    TreeShift = 3
    NTreeBins = 4
    SizeBits = 8
    Null = Null
    Setups <- MCSetups
    MStateSize = 4
    TrimThreshold = 20
    ReleaseRate = 2
    Granularity = 24
    PageSize = 24
    Pages <- MCPages
    MmapThreshold = 10
    Answers = {"low", "high", "late", "no"}
    Counts = {1, 257}
    Alignments = {8}
SPECIFICATION Spec
INVARIANTS
    StateIsSound
    BlocksAreWhole
    MallocFindsFit
    AllFreeIsTop
