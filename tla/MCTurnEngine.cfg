CONSTANTS
    first = first
    second = second
    own = own
    other = other
    Turn = {first, second}
    Direct = {}
    Session = {own, other}
    SessionOf <- SameSession
    CallsOf <- OneThenTwo
    MaxIterations = 3
    MaxRecoveryAttempts = 2
SPECIFICATION Spec
CONSTRAINT FirstIsShort
INVARIANTS
    TypeOK
    EveryCallAnswered
    PromptIsWellFormed
    BufferIsDurable
    ScratchReadable
    
