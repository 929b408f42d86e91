SPECIFICATION Spec
CONSTANTS
    Clients = {c1, c2}
    Maintainers = {m1, m2}
    Duties <- TwoOperators
    m1 = m1
    m2 = m2
    Holdable = {2}
    Tables = {t1}
    Paths = {p1, p2, p3}
    MaxSnapshot = 4
SYMMETRY Symmetry
INVARIANTS
    CatalogFilesExist
    ReadersFindFiles
    EveryFileHasAnOwner
    NothingDeadIsKept
PROPERTIES
    SnapshotIdsNotReused
    ExpiryKeepsOtherSnapshots
