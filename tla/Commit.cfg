SPECIFICATION FairCommitSpec
CONSTANTS
    Clients = {c1, c2}
    Paths = {p1, p2}
    Tables = {t1, t2}
    t1 = t1
    ChangeSets <- MCChangeSets
    MaxRetryCount = 2
    CanFail = TRUE
    MaxSnapshot = 4
INVARIANTS
    CommitTypeOK
    FirstCommitterWins
    FileIdsUnique
    SchemaVersionKeysSchema
    RegisteredFilesExist
    NoLeakedFiles
    RetriesMeanCommits
PROPERTY
    CommitEnds
