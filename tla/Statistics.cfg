VIEW InUse
SYMMETRY ClientSymmetry
SPECIFICATION StatisticsSpec
CONSTANTS
    Tables = {t1}
    Clients = {c1, c2}
    ProcessOf <- OwnProcess
    Values = {1, 2, Null}
    Null = Null
    None = None
    Bounded = {TRUE, FALSE}
    MaxRows = 2
    MaxRowId = 3
    MaxSnapshot = 5
    MaxStatements = 1
    UncountedRows = FALSE
    EmptyRewrites = FALSE
INVARIANTS
    StatsCoverLiveRows
    MinMaxAreExact
    RowIdsAreFresh
CHECK_DEADLOCK FALSE
