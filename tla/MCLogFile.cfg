SPECIFICATION FileSpec
CONSTANTS
    TxIds = {1}
    Inserts <- MCInserts
    Deletes <- MCDeletes
    Capacity = 13
    MaxRecords = 3
    MaxLsn = 2
    MaxRuns = 3
INVARIANTS
    ReadsWholeRecords
PROPERTIES
    NeverForgets
