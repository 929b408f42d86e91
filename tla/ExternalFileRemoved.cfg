SPECIFICATION Spec
CONSTANTS
    Tables = {1, 2}
    Clients = {c1, c2, c3}
    Shared = {c1, c2}
    SessionOf <- OneSession
    Transactions <- EveryKind
    InitialFiles <- Files
    Local = local
    MaxRetryCount = 1
    MaxTransactions = 3
INVARIANT ExternalFilesKept
SYMMETRY Sharers
CHECK_DEADLOCK FALSE
