SPECIFICATION Spec
CONSTANTS
    Letters = {1, 2}
    Limit = 6
    Probe = 3
    MaxOutput = 10
    MaxFaults = 1
INVARIANTS
    Inv
    PrintedIsWritten
    ReturnsFinal
CHECK_DEADLOCK FALSE
