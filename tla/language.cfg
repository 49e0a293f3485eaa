CONSTANTS
    Letter <- MCLetter
    Upper <- MCUpper
    Width <- MCWidth
    MaxInt = 30
    MaxU32 = 20
    HexWord <- MCHex
    Main <- MCMain
    HashText <- MCHash
    Jobs <- MCJobs
SPECIFICATION Spec
INVARIANTS SpansTileSource SourceMeansItsStatements CommitIsVerbatim CommittedIsFound DiffIsExact EndsInTime AsksAgree
