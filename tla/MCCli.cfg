CONSTANTS
    Lines <- AllLines
    Number <- Decimal
    AnyBase <- Prefixed
    kthreadmax = 2
SPECIFICATION Spec
INVARIANTS LastClauseWins PortsUsable TargetsInOrder
CHECK_DEADLOCK FALSE
