SPECIFICATION IdSpec
CONSTANTS
    p1 = p1
    p2 = p2
    p3 = p3
    i1 = i1
    i2 = i2
    i3 = i3
    i4 = i4
    Procs <- MCProcs
    Ids <- MCIds
    RereadAttempts = 2
    MaxIOFaults = 1
INVARIANTS
    FailsByFaultOnly
PROPERTIES
    ImplementsOneDevice
