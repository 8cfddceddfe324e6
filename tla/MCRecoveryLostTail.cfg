SPECIFICATION RecSpec
CONSTANTS
    MaxTxid = 3
    MaxRows = 3
    WritingRuns = 1
    LoseTxn = TRUE
INVARIANTS
    FirstRecovery
