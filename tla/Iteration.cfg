SPECIFICATION FairSpec
CONSTANTS
    None = None
    Malformed = Malformed
    Empty = Empty
    Setups <- MCSetups
INVARIANTS NodesAreNumbered CallIsComplete EveryWorkerPrefaults
PROPERTY CallReturns
CHECK_DEADLOCK FALSE
