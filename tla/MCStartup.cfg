CONSTANTS
    Process <- MCProcess
    Release <- MCRelease
    MaxAttempts = 2
    MaxFaults = 2
SPECIFICATION FairStartup
CHECK_DEADLOCK FALSE
INVARIANTS
    RunsOnItsSchema
    VersionsTellSchema
PROPERTY AllRun
