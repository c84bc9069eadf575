SPECIFICATION Spec
CONSTANTS
    Threads = {t1, t2, t3}
    FileSizes <- MCFileSizes
    Unit = 2
    MAX_MMAP_SIZE = 4
    WAIT_MIN_MB = 1
    MaxOpens = 4
INVARIANT TypeOK
INVARIANT MmapAccounting
INVARIANT LargeWithinCap
PROPERTY OpenReturns
