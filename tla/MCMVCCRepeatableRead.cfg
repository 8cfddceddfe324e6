SPECIFICATION MVCCSpec
CONSTANTS
    MaxTxid = 3
    OneThread = TRUE
    Values = {1}
    MaxRows = 3
    ReadCommitted = {3}
PROPERTIES
    RepeatableRead
CHECK_DEADLOCK FALSE
