SPECIFICATION Spec
CONSTANTS
    N = 4
    Graphs <- MCGraphs
    TipSets <- MCTipSets
    Depths = {0, 1, 2, 3}
    MaxHops = 2
    Edges <- MCEdges
    Patterns <- MCPatterns
INVARIANTS
    AncestorWalksAreExact
    ShortestPathIsShortest
    EdgeEndsAreExact
    MatchIsExact
PROPERTY
    Terminates
CHECK_DEADLOCK FALSE
