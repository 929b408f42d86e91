SPECIFICATION CatalogSpec
CONSTANTS
    Clients = {1, 2}
    SchemaNames = {"s"}
    Names = {"a", "b"}
    Kinds = {"table", "macro"}
    Comments = {"x", "none"}
    MaxOps <- MCMaxOps
    MaxRuns = 1
    MaxSnapshot = 4
INVARIANTS
    CatalogWellFormed
    CachedSchemaIsCurrent
PROPERTY
    CommitPublishesView
CHECK_DEADLOCK FALSE
