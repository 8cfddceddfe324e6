SPECIFICATION LogSpec
CONSTANTS
    Clients = {c1, c2}
    Capacity = 3
    Sizes = {1, 2, 4}
    MaxRecords = 3
PROPERTIES
    FlushForces
