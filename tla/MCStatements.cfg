SPECIFICATION StmtSpec
CONSTANTS
    ColumnTypes <- MCTypes
    ColumnNames <- MCNames
    IntBits = 3
    Inserts <- MCInserts
    Sets <- MCSets
    Wheres <- MCWheres
    SelectLists <- MCSelectLists
    MaxRecords = 4
INVARIANTS
    StoredIsGiven
    SelectIsPreview
    ClauseMeansWhatItSays
    ListPrintsItsColumns
CHECK_DEADLOCK FALSE
