SPECIFICATION FairSpec
CONSTANTS
    Thread = {t1, t2}
    Key = {k1}
    Value = {x}
    NULL = NULL
    Calls = {"set", "del", "current", "commit", "init"}
    NodeCounts = {0}
    MaxFile = 7
    PowerLoss = FALSE
PROPERTIES CallsReturnUnlessLeaked
