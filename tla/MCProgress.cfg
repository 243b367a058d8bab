SPECIFICATION LiveSpec
CONSTANTS
    a1 = a1
    a2 = a2
    a3 = a3
    Activities <- ThreeActivities
INVARIANTS
    Inv
PROPERTIES
    NoWaitAfterDone
    FinishReturns
CHECK_DEADLOCK FALSE
