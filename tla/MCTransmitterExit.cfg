CONSTANTS
    worker_count = 2
    Conn <- TwoConns
    MaxLegs = 2
    gleg_limit = 0
    LateInput = TRUE
SPECIFICATION Spec
INVARIANT AllPushedAtExit
CHECK_DEADLOCK FALSE
