CONSTANTS
    Thread = {t1, t2}
    NObj = 2
    MaxOps = 2
SPECIFICATION MCFairSpec
INVARIANTS
    WritersExclude
    RecordedOrderAcyclic
    LogsCompleteExact
PROPERTIES
    ChangesUnderOddVersion
    AtomicAccess
    EveryThreadCloses
