SPECIFICATION LogSpec
CONSTANTS
    Clients = {c1}
    Capacity = 3
    Sizes = {1, 2, 4}
    MaxRecords = 5
INVARIANTS
    LogTypeOK
    DiskIsPrefix
PROPERTIES
    FlushForces
    CallsReturn
    ImplementsDurableLog
