CONSTANTS
    Thread = {t1, t2}
    NObj = 2
    MaxOps = 3
    MaxAccesses = 4
    RTM_BATCH_N = 2
SPECIFICATION MCSpec
SYMMETRY Symmetry
INVARIANTS
    BlocksAligned
    ClusterLogsSame
PROPERTIES
    AtomicBlocks
