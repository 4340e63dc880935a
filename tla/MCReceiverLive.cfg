CONSTANTS
    c1 = c1
    c2 = c2
    c3 = c3
    w1 = w1
    w2 = w2
    w3 = w3
    Conn <- TwoConns
    RxWorkers <- ThreeWorkers
    Aliens <- NoAliens
    StrayLegs <- Leg0
    MaxLegs = 1
SPECIFICATION FairSpec
PROPERTY Completes
CHECK_DEADLOCK FALSE
