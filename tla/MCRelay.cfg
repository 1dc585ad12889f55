CONSTANTS
    NumProcs = 3
    FinishingLine = 11
SPECIFICATION RelayFairSpec
INVARIANTS
    LegsInOrder
PROPERTIES
    RelayEnds
