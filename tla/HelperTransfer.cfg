SPECIFICATION LiveSpec
CONSTANTS
    Chunks = 4
    Attempts = 3
    Window = 2
    MaxRuns = 2
INVARIANTS
    UploadInv
    StagedIsExact
PROPERTIES
    NothingResent
    UploadEnds
