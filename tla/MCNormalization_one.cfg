SPECIFICATION LiveSpec
CONSTANTS
    NoId = NoId
    Installers = {i1}
    FaultKinds <- AllFaults
    AbortPoints <- AnyPoint
    MaxFaults = 3
    ImageIds = {1, 2, 3, 4}
    SourceIds = {5, 6, 7, 8}
    ScratchIds = {9, 10, 11, 12}
    ServerIds = {1, 2, 3, 4}
    KeyIds = {1, 2}
INVARIANTS
    Inv
    OneLiveImage
    OneWorkVolume
    AccessDoesNotPile
    RerunLeavesNothing
    RerunIsComplete
ACTION_CONSTRAINT InOrder
PROPERTIES
    EventuallyImported
