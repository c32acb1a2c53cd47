CONSTANTS
    t1 = t1
    t2 = t2
    g = g
    n0s = n0s
    n1s = n1s
    s1 = s1
    s2 = s2
    s3 = s3
    s4 = s4
    s5 = s5
    h1 = h1
    h2 = h2
    h3 = h3
    h4 = h4
    k1 = k1
    None = None
    Thread = {t1, t2}
    Source = {g, n0s, n1s, s1, s2, s3, s4, s5}
    Physical = {0, 1}
    Handle = {h1, h2, h3, h4}
    Task = {k1}
    GlobalSource = g
    NodeSource <- MCNodeSource
    HomeOf <- MCHomeOf
    Scenarios <- MCScenarios
    MmapThreshold = 16
    MmapLimit = 90
    FooterSize = 1
    MmapFooterSize = 2
    NativeRoom = 12
    ArenaRoom = 24
    MaxArenas = 2
    MaxChunks = 12
    BlockBits = 6
    TlsSize = 2
    StackSize = 1
    ReplicaSize = 2
SPECIFICATION FairSpec
INVARIANTS
    CountsMatch
    LivesWhileUsed
    LocksMatch
    ChunkListIsWhole
    CurrentIsTop
PROPERTIES
    CreatedOnce
    EveryOperationReturns
    ImplementsLifetime
CHECK_DEADLOCK FALSE
