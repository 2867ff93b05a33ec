SPECIFICATION FairSpec
CONSTANTS
    Thread = {t1}
    Key = {k1}
    Value = {x}
    NULL = NULL
    Calls = {"set", "del", "get", "current", "prev", "commit", "init", "based", "ancestor", "merge"}
    NodeCounts = {0, 1}
    MaxFile = 10
    PowerLoss = FALSE
INVARIANTS BasedOnExact AncestorExact
PROPERTIES EveryCallReturns
