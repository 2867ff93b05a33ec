SPECIFICATION Spec
CONSTANTS
    Thread = {t1}
    Key = {k1}
    Value = {x}
    NULL = NULL
    Calls = {"set", "current", "commit"}
    NodeCounts = {0}
    MaxFile = 6
    PowerLoss = TRUE
INVARIANTS CommittedSurvives
