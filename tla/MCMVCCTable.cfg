SPECIFICATION MVCCSpec
CONSTANTS
    MaxTxid = 3
    OneThread = FALSE
    Values = {1}
    MaxRows = 3
    ReadCommitted = {3}
INVARIANTS
    RowCountExact
    AbortLeavesOnlyDead
PROPERTIES
    ImplementsSnapshotIsolation
    MarkIsOwned
ACTION_CONSTRAINT OnlyRollbackInterleaves
CHECK_DEADLOCK FALSE
