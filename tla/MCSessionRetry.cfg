SPECIFICATION SessionSpec
CONSTANTS
    MaxTxid = 2
    OneThread = TRUE
    MaxWrites = 3
PROPERTIES UndoKeepsRowCount
CHECK_DEADLOCK FALSE
