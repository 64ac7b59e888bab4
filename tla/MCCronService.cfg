CONSTANTS
    early = early
    later = later
    NoJob = NoJob
    Job = {early, later}
    AtTime <- MCAtTime
    Period = 1
    DeleteAfterRun = {early}
    MaxTime = 2
    MaxEdits = 0
    MaxFailures = 1
    MaxRestarts = 1
SPECIFICATION Spec
INVARIANTS
    TypeOK
    TimerCoversStore
    OneShotFiresOnce
    FileMatchesStore
