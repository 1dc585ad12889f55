CONSTANTS
    Thread = {t1, t2}
    NObj = 2
    MaxOps = 3
    RTM_BATCH_N = 2
    TicketMod = 3
SPECIFICATION MCSpec
SYMMETRY Symmetry
INVARIANTS
    FallbackExclusive
    TimesUnique
    CommitOrderSerial
