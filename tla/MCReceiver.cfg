CONSTANTS
    c1 = c1
    c2 = c2
    c3 = c3
    w1 = w1
    w2 = w2
    w3 = w3
    Conn <- ThreeConns
    RxWorkers <- ThreeWorkers
    Aliens <- OneAlien
    StrayLegs <- Leg1
    MaxLegs = 2
SYMMETRY Interchange
SPECIFICATION Spec
INVARIANTS FlowInv NoLockup SoleEmitter NoLostWakeup 
PROPERTY ImplementsPipe
CHECK_DEADLOCK FALSE
