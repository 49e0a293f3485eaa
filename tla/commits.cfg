SPECIFICATION Spec
CONSTANTS
    Base = 4
    HashLen = 2
    t1 = t1
    t2 = t2
    Thread = {t1, t2}
    Clock = {20}
    MaxCalls = 3
    HashSpace <- MCHashSpace
    RootInputs <- MCRootInputs
    IndexInputs <- MCIndexInputs
    Nodes <- MCNodes
    Legacy <- MCLegacy
    CommitCaps = {0}
    COMMIT_CACHE_CAP = 1
    MaxObjects = 3
INVARIANTS LoadsAsMade TimestampsGrow
PROPERTY PrefixesAreStable
SYMMETRY Symm
