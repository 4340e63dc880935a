CONSTANTS
    c1 = c1
    c2 = c2
    Conn <- TwoConns
    Radix = 2
    Sample = 2
    Word = 2
    kfootsize = 4
    Sizes <- ThreeSizes
    MaxLegs = 3
    Seeds <- OffAndOn
    XorOf <- BitXor
SYMMETRY Interchange
SPECIFICATION Spec
INVARIANTS TypeOK AlarmExplained PrbsAccepted
PROPERTY FullLegGuarded
CHECK_DEADLOCK FALSE
