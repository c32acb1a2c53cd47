CONSTANTS
    Guards = {g1, g2, g3}
    FLAG_WRITE = 4
SPECIFICATION FairSpec
INVARIANTS
    WriterExcludes
    ChecksHold
PROPERTIES
    WriterGetsIn
