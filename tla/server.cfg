SPECIFICATION Spec
CONSTANTS
    Conn = {c1, c2}
    Name = {"main", "dev"}
    Main = "main"
    Frames <- MCFrames
    c1 = c1
    c2 = c2
INVARIANTS
    TypeOK
    AnswersInOrder
    ScriptsAreSerial
    AnswersTellTheTruth
    RefsAlwaysAnswer
PROPERTY
    EveryRequestIsHandled
CHECK_DEADLOCK FALSE
