SPECIFICATION MVSpec
CONSTANTS
    Keys <- MCKeys
    Row <- MCRow
    Pinned <- MCPinned
    Definitions <- MCDefinitions
    MaxSnapshot = 5
    MaxWrites = 1
    MaxRefreshes = 1
    ViewIdsShift = FALSE
INVARIANTS OneRefreshIsStored FreshMeansExact StampedSnapshotIsExact GuardedReadsAreExact
CHECK_DEADLOCK FALSE
