CONSTANTS
    Thread = {t1, t2}
    NObj = 2
    MaxOps = 3
    MaxAccesses = 5
SPECIFICATION MCSpec
SYMMETRY Symmetry
INVARIANTS
    TypeOK
    VersionAssertHolds
    NoConcurrentReaderScan
    ReadersNotSkipped
    AccessesReplayed
    ResultReproduced
PROPERTIES
    ReplayInOrder
