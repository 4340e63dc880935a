CONSTANTS
    worker_count = 2
    Conn <- TwoConns
    MaxLegs = 2
    gleg_limit = 0
    LateInput = FALSE
SPECIFICATION Spec
INVARIANT StreamIntact
CHECK_DEADLOCK FALSE
