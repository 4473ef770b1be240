\* One unit is half the poll interval; a breaker opens at the second failure in
\* a row and backs off 1, then 3 units.  The process may stop: no deadlock check.
CONSTANTS
    Threshold = 2
    BaseBackoff = 1
    MaxBackoff = 3
    MaxFailures = 3
    Configured = {"discovery", "managed", "comparison", "specgen", "catalog", "cleanup", "reconciliation"}
    Failing = {"managed", "catalog"}
    PollInterval = 2
    ManagedInterval = 2
    Day = 1
SPECIFICATION FairSpec
INVARIANTS
    HalfOpenOnlyWhileRunning
    StaleOnlyAfterFailure
    FullCycleMeansAllRan
PROPERTIES
    RetriesForEver
    RecoversWhenHealthy
CHECK_DEADLOCK FALSE
