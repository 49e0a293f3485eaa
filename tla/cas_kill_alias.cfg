SPECIFICATION CrashSpec
CONSTANTS
    a = a
    b = b
    c = c
    d = d
    Obj = {a, b, c}
    RecLen <- MCRecLen
    HeaderLen = 1
    SegMax = 5
    BufCap = 3
    MaxSegId = 2
    CacheCap = 1
    MmapCap = 0
    CapChoices <- NoCapChoices
    MaxCrashes = 1
    MaxIoErrors = 0
SYMMETRY SymmShort
INVARIANT GetVerifies
