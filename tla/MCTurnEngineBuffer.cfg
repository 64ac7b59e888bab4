CONSTANTS
    first = first
    second = second
    own = own
    other = other
    Turn = {first, second}
    Direct = {}
    Session = {own, other}
    SessionOf <- TwoSessions
    CallsOf <- OneThenTwo
    MaxIterations = 2
    MaxRecoveryAttempts = 1
SPECIFICATION Spec
INVARIANTS
    TurnsSeeTheirOwnBuffer
