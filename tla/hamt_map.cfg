SPECIFICATION Spec
CONSTANTS
    Key <- MCKey
    Val = {v1, v2}
    Branch = {0, 1, 2, 3}
    HashChunks <- MCHashChunks
INVARIANTS
    ReadsMatchMap
    EntriesMatchMap
PROPERTY
    SameMapSameRoot
