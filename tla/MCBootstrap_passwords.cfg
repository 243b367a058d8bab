SPECIFICATION LiveSpec
CONSTANTS
    v = v
    p = p
    q = q
    g1 = g1
    g2 = g2
    g3 = g3
    g4 = g4
    none = none
    appliance1 = appliance1
    appliance2 = appliance2
    Passwords <- AllPasswords
    Vendor = v
    Empty = none
    Wishes <- Mixed
    Fqdns <- TwoNames
    MaxRuns = 4
    MaxFaults = 3
INVARIANTS
    TypeOK
    LoginSteady
    ReportedWorks
PROPERTIES
    CompletedWorks
    EventuallyReported
CHECK_DEADLOCK FALSE
