SPECIFICATION MmapSpec
CONSTANTS
    Thread = {t1, t2}
    Slot = {s1}
    NULL = NULL
    PageSize = 3
    BufSize = 2
    MaxFile = 6
INVARIANTS ReadBack

