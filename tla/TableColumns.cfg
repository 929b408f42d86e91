SPECIFICATION Spec
CONSTANTS
    Names = {"a", "b"}
    FieldNames = {"x", "y"}
    Defaults = {"none", "d"}
    Comments = {"none", "c"}
    MaxOps = 3
    MaxStatements = 4
    MaxSnapshot = 3
INVARIANTS
    PublishedAsAltered
    FieldIdsKeepTheirMeaning
    SpecsOfFilesAreKnown
CHECK_DEADLOCK FALSE
