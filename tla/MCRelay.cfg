CONSTANTS
    here = here
    there = there
    t1 = t1
    t2 = t2
    Node <- TwoNodes
    Bearers <- TwoBearers
    Deployments <- AllDeployments
SPECIFICATION Spec
INVARIANTS TypeOK OneIngest RealInput RealOutput
PROPERTY AllEnd
CHECK_DEADLOCK FALSE
