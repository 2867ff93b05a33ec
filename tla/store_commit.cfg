SPECIFICATION Spec
CONSTANTS
    Thread = {t1, t2}
    Key = {k1}
    Value = {x}
    NULL = NULL
    Calls = {"set", "del", "current", "commit", "init"}
    NodeCounts = {0, 1}
    MaxFile = 10
    PowerLoss = FALSE
SYMMETRY ThreadSymmetry
INVARIANTS TypeOK VersionsImmutable AppendPosInPlace CheckedHeadIsCurrent CommittedSurvives NoUnknownBlock
PROPERTIES HeadAdvances ScanKeepsVersions ImplementsHistory
