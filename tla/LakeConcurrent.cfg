SPECIFICATION LakeSpec
CONSTANTS
    Clients = {c1, c2}
    Paths = {1, 2, 3, 4, 5}
    Tables = {t1}
    Positions = {r1, r2}
    NoTable = NoTable
    ChangeSets <- ChangeInfo
    MaxRetryCount = 2
    CanFail = FALSE
    MaxSnapshot = 5
    MaxChanges = 1
    Workload = {"insert", "delete", "delete_nothing", "merge", "rewrite", "alter", "drop_table"}
SYMMETRY Symmetry
INVARIANTS
    MetadataConsistent
PROPERTY
    ImplementsSnapshotIsolation
