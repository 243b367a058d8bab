SPECIFICATION Spec
CONSTANTS
    NoId = NoId
    Installers = {i1}
    FaultKinds = {"abort"}
    AbortPoints <- DuringExport
    MaxFaults = 1
    ImageIds = {m1, m2}
    SourceIds = {v1, v2}
    ScratchIds = {w1, w2}
    ServerIds = {s1, s2}
    KeyIds = {k1, k2}
INVARIANTS
    NoLeftovers
