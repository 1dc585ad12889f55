CONSTANTS
    NumProcs = 2
    MAX_ELEM = 2
    MAX_LOOP = 3
    PRIME1 = 11
    PRIME2 = 3
    NOBJS = 3
    NITER = 1
    WORD = 32
SPECIFICATION ProgFairSpec
INVARIANTS
    CountersSet
    ProgramRepeats
PROPERTIES
    RunsComplete
