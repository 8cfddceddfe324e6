SPECIFICATION TxnSpec
CONSTANTS
    MaxTxid = 3
    OneThread = FALSE
INVARIANTS
    TxnTypeOK
    ReadViewIsSnapshot
    ViewsAreOrdered
CHECK_DEADLOCK FALSE
