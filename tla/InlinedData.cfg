VIEW CacheView
SPECIFICATION InlinedSpec
CONSTANTS
    Tables = {t1}
    Clients = {c1, c2}
    Flushers = {c1}
    MaxSnapshot = 5
    MaxValues = 3
    MaxRows = 2
    MaxStatements = 1
    NotCached = NotCached
INVARIANTS
    SnapshotsKeepTheirRows
    CachedTablesSuffice
CHECK_DEADLOCK FALSE
