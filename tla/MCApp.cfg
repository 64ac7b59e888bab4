CONSTANTS
    Channels = {cli}
    Elsewhere = elsewhere
    None = none
    InboundCap = 1
    OutboundCap = 1
    MaxLines = 1
    MaxJobs = 2
SPECIFICATION FairSpec
INVARIANTS
    TypeOK
    ShutdownIsOrderly
PROPERTIES
    WorkIsFinished
    ShutdownCompletes
CHECK_DEADLOCK FALSE
