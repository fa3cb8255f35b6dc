SPECIFICATION Spec
CONSTANTS
    Ips = {i, j, k}
    TableCap = 2
    Capacity = 4
    Cost = 2
    FailuresToLock = 2
    Powers <- MCPowers
    Exponents = 2
    MaxBackoff = 2
    IdleLimit = 2
    Slots = 2
    MaxSessions = 1
    MaxTime = 4
SYMMETRY Symmetry
CONSTRAINT OneTableInUse
INVARIANTS
    LockoutsDeserved
    FailuresLock
PROPERTIES
    ImplementsBuckets
    LockoutStands
CHECK_DEADLOCK FALSE
