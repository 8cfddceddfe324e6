SPECIFICATION SessionSpec
CONSTANTS
    MaxTxid = 3
    OneThread = TRUE
    MaxWrites = 3
INVARIANTS
    AckedCommitIsDurable
    SessionTxnIsActive
    NoLeakedTxn
    CommittedIsWhole
    AbortedIsUndone
CHECK_DEADLOCK FALSE
CONSTRAINT RowsBound
