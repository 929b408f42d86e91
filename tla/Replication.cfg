SPECIFICATION ReplicationSpec
CONSTANTS
    Tables = {t1}
    MaxJob = 2
    Manual = {client}
    Kinds = {"ducklake", "keyed", "native"}
    Modes = {"plain", "share", "watermark"}
    MaxValue = 1
    MaxSnapshot = 3
    MaxOps = 3
CHECK_DEADLOCK FALSE
INVARIANTS
    ReplicaIsASourceSnapshot
PROPERTIES
    UnmanagedUntouched
    Converges
    
