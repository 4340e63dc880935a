CONSTANTS
    worker_count = 2
    Conn <- TwoConns
    MaxLegs = 4
    gleg_limit = 3
    LateInput = TRUE
SPECIFICATION Spec
INVARIANTS TypeOK StreamInv BufferLease WireAscending StreamIntact LimitHeld
PROPERTY ImplementsFeed
CHECK_DEADLOCK FALSE
