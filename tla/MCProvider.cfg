CONSTANTS
    Fallbacks = 1
    Slot = {0, 1}
    MaxLines = 3
SPECIFICATION FairSpec
INVARIANTS
    TypeOK
    ResponseIsTheStream
    ProducerEnds
PROPERTIES
    NoRetryAfterOutput
    ChatReturns
CHECK_DEADLOCK FALSE
