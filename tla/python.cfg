SPECIFICATION Spec
CONSTANTS
    Thread = {t1, t2}
    Object = {o1, o2}
    Iterator = {i1}
    Db = Db
    Key = {k1}
    NULL = NULL
    MaxVersions = 3
SYMMETRY PythonSymmetry
CONSTRAINT SharedVersions
INVARIANTS HandleOpenInUse InPlaceKept
CHECK_DEADLOCK FALSE
