SPECIFICATION LiveSpec
CONSTANTS
    i1 = i1
    i2 = i2
    i3 = i3
    Installers <- ThreeInstallers
    Enabling <- TwoEnabling
    MaxFaults = 2
INVARIANTS
    RaceInv
    NobodyRefused
PROPERTIES
    EveryoneServed
    EveryoneAnswered
CHECK_DEADLOCK FALSE
