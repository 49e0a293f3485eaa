SPECIFICATION KillSpec
CONSTANTS
    CollSeq <- MCCollSeq
    Base <- MCBase
    Path <- MCPath
    Slug <- MCSlug
    Words <- MCWords
    Id = "id"
    Val = {"s", "t"}
    Migration <- MCMigration
    MaxCommits = 1
    MaxKills = 1
INVARIANT StateMatchesLock
