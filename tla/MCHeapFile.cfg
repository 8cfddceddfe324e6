CONSTANTS
    Tables = {1, 2, 3}
    NameLen <- MCNameLen
    Columns <- MCColumns
    MetaSize = 28
    PageSize = 17
    HeaderSize = 4
    SlotSize = 2
    UndoHeaderSize = 3
    UndoRecordSize = 4
    RowSizes = {3, 11, 12}
    MaxPages = 6
    RestartPages = 2
SPECIFICATION HeapSpec
INVARIANTS MetaReadsBack RecordsDisjoint ChainComplete RowCountIsScan UndoIsImage GivesUpOnlyOversize
CHECK_DEADLOCK FALSE
