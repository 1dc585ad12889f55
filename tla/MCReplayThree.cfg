CONSTANTS
    Thread = {t1, t2, t3}
    NObj = 1
    MaxOps = 3
    MaxAccesses = 4
SPECIFICATION MCFairSpec
INVARIANTS
    RecTypeOK
    VersionsNameWrites
    RecInv
PROPERTIES
    ReplayCompletes
