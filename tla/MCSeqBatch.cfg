CONSTANTS
    Thread = {t1, t2}
    NObj = 2
    MaxOps = 3
    BATCH_LOG_SIZE = 2
SPECIFICATION MCSpec
SYMMETRY Symmetry
INVARIANTS
    BatchTypeOK
    BatchedLogsSame
