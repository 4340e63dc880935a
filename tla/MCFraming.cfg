CONSTANTS
    kfootsize = 3
    MAXBSIZE = 2
    InputLen = 4
SPECIFICATION Spec
INVARIANTS TypeOK InPlace CutByMode PayloadsExact
PROPERTIES EndToEnd InputUsedUp AllPutOut
CHECK_DEADLOCK FALSE
