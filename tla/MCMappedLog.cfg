CONSTANTS
    PAGE_SIZE = 6
    Buffers = 1
    MaxEntries = 20
SPECIFICATION MCSpec
INVARIANTS
    EntriesContiguous
    ReadBack
