SPECIFICATION RecSpec
CONSTANTS
    MaxTxid = 3
    MaxRows = 3
    WritingRuns = 2
    LoseTxn = FALSE
INVARIANTS
    EveryRecovery
