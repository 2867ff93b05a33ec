SPECIFICATION FairSpec
CONSTANTS
    Thread = {t1, t2, t3, t4}
    Slot = {s1, s2}
    NULL = NULL
INVARIANTS CountersExact UnlockKnowsItsLock NoLostWakeup
PROPERTIES ImplementsLock WritersGetIn ReadersGetIn
