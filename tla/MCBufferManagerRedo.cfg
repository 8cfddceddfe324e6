SPECIFICATION BufSpec
CONSTANTS
    NumFrames = 3
    MaxPageId = 3
    MaxPins = 2
    Contents = {a, b}
    Zero = zero
    Junk = junk
    LogMatchesFile = FALSE
INVARIANTS
    NoLostWrite
