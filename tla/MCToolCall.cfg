CONSTANTS
    PipeCap = 1
    MaxChunks = 3
SPECIFICATION FairSpec
INVARIANTS
    TypeOK
    StreamIsWhole
PROPERTIES
    FloodDrains
    CallReturns
CHECK_DEADLOCK FALSE
