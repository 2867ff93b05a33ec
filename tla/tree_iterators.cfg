SPECIFICATION SceneSpec
CONSTANTS
    MaxKey = 7
    Value = {x, y}
    NULL = NULL
    MAX_NODE_SIZE = 4
VIEW SceneView
INVARIANTS TreeShape GetIsMapLookup RecordsAreTheMap PathKeysNotGreater IteratorFollowsTheMap
