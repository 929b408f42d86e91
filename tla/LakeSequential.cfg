SPECIFICATION LakeSpec
CONSTANTS
    Clients = {c1}
    Paths = {1, 2, 3, 4, 5}
    Tables = {t1}
    Positions = {r1, r2}
    NoTable = NoTable
    ChangeSets <- ChangeInfo
    MaxRetryCount = 0
    CanFail = FALSE
    MaxSnapshot = 7
    MaxChanges = 1
    Workload = {"insert", "delete", "delete_local", "delete_more", "inline_delete", "merge", "rewrite", "drop_table"}
SYMMETRY Symmetry
INVARIANTS
    NoRowReadTwice
    FilesMatchCatalog
PROPERTY
    ImplementsSnapshotIsolation
