SPECIFICATION TablesSpec
CONSTANTS
    Thread = {t1, t2}
    Changeset = {c, d}
    Key = {k1, k2}
    Value = {v}
    MaxChanges = 2
    MaxVersions = 2
    NULL = NULL
    Empty = Empty
    Item = {1, 2, 3, 4, 5}
    HashKey <- HashKeys
    Mixes <- HashMixes
    Buckets = 5
    FirstSizes = {1, 2, 3}
    MaxSize = 4
    MaxRounds = 16
SYMMETRY ChangesetSymmetry
INVARIANTS ApplyIsFold
PROPERTIES TableIsBag
