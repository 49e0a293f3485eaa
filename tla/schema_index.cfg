SPECIFICATION BoundedSpec
CONSTANTS
    CollSeq <- MCCollSeq
    Base <- MCBase
    Path <- MCPath
    Slug <- MCSlug
    Words <- MCWords
    Id = "id"
    Val = {"s", "t"}
    Migration <- MCMigration
    MaxCommits = 4
    MaxKills = 0
INVARIANTS StateMatchesLock IndexesExact
