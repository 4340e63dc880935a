CONSTANTS
    w1 = w1
    w2 = w2
    worker_count = 2
    Conn <- TwoConns
    MaxLegs = 2
    gleg_limit = 0
    LateInput = TRUE
    RxWorkers <- TwoWorkers
    StrayLegs <- Leg0
SYMMETRY ThreadSymmetry
SPECIFICATION Spec
INVARIANT TypeOK
PROPERTY ImplementsPipe
CHECK_DEADLOCK FALSE
