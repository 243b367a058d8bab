SPECIFICATION LiveSpec
CONSTANTS
    i1 = i1
    i2 = i2
    Installers = {i1, i2}
    Sites = {1, 2}
    Ids = {1, 2, 3}
    Rules = {1, 2}
    Scenarios <- SomeScenarios
CHECK_DEADLOCK FALSE
INVARIANTS
    NothingTwice
    ExposedIsSafe
PROPERTIES
    RefusalHasCause
    SuccessAgrees
    AddressKept
    EventuallyDeployed
