CONSTANTS
    Thread = {t1, t2, t3}
    NObj = 3
    MaxEntries = 2
SPECIFICATION MCSpec
SYMMETRY Symmetry
INVARIANTS
    IndexedLogsExact
    OutputFits
