SPECIFICATION BufSpec
CONSTANTS
    NumFrames = 3
    MaxPageId = 3
    MaxPins = 2
    Contents = {a, b}
    Zero = zero
    Junk = junk
    LogMatchesFile = TRUE
INVARIANTS
    BufTypeOK
    FreeListExact
    PinsAreReferences
    NoLostWrite
    LruWithinFree
