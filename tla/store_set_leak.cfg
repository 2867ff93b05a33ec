SPECIFICATION FairSpec
CONSTANTS
    Thread = {t1, t2}
    Key = {k1}
    Value = {x}
    NULL = NULL
    Calls = {"set", "current", "commit"}
    NodeCounts = {0}
    MaxFile = 4
    PowerLoss = FALSE
PROPERTIES EveryCallReturns
