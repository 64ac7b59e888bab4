CONSTANTS
    early = early
    later = later
    NoJob = NoJob
    Job = {early}
    AtTime <- MCAtTime
    Period = 1
    DeleteAfterRun = {early}
    MaxTime = 3
    MaxEdits = 1
    MaxFailures = 1
    MaxRestarts = 2
SPECIFICATION FairSpec
PROPERTIES
    OneShotRuns
