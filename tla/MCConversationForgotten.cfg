CONSTANTS
    Worker = {w1, w2}
    Recovery = recovery
    MemoryWindow = 2
    MaxCalls = 2
    MaxMessages = 7
    MaxClears = 1
    MaxCrashes = 2
SPECIFICATION Spec
INVARIANTS
    NothingForgotten
