CONSTANTS
    Thread = {t1, t2}
    NObj = 2
    MaxOps = 2
SPECIFICATION MCSpec
SYMMETRY Symmetry
PROPERTIES
    VersionStepsExclusive
    AtomicAccess
