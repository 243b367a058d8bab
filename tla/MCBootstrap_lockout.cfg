SPECIFICATION Spec
CONSTANTS
    v = v
    p = p
    q = q
    g1 = g1
    g2 = g2
    g3 = g3
    g4 = g4
    none = none
    appliance1 = appliance1
    appliance2 = appliance2
    Passwords <- AllPasswords
    Vendor = v
    Empty = none
    Wishes <- Changing
    Fqdns <- OneName
    MaxRuns = 2
    MaxFaults = 2
INVARIANTS
    LoginPossible
CHECK_DEADLOCK FALSE
