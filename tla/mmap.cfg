SPECIFICATION TopSpec
CONSTANTS
    Thread = {t1, t2}
    Slot = {s1}
    NULL = NULL
    PageSize = 3
    BufSize = 1
    MaxFile = 6
INVARIANTS MmapTypeOK CopyStaysInMapping
PROPERTIES MappingStaysPut CommittedReadRight ReadReturns
