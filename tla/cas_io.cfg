SPECIFICATION IoErrorSpec
CONSTANTS
    a = a
    b = b
    c = c
    d = d
    Obj = {a, b, c, d}
    RecLen <- MCRecLen
    HeaderLen = 1
    SegMax = 5
    BufCap = 3
    MaxSegId = 2
    CacheCap = 1
    MmapCap = 1
    CapChoices <- MCCapChoices
    MaxCrashes = 0
    MaxIoErrors = 1
SYMMETRY Symm
INVARIANTS TypeOK AckedReadable EntriesResolve MapsSealedAndBounded
PROPERTIES SealedImmutable GoodEntriesStayGood
