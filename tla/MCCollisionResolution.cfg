\* 2^6 discovered sets times 2^6 declarations, every order of the collisions.
CONSTANTS
    Discovered <- MCDiscovered
    ServiceKey <- MCServiceKey
    Endpoint <- MCEndpoint
    Domain <- MCDomain
    Api <- MCApi
    Hostname <- MCHostname
    NoHost = "-"
SPECIFICATION Spec
INVARIANTS
    OrderIrrelevant
    OneServicePerManagedOperation
    LosersYieldToWinner
    DriftHasManagedSibling
CHECK_DEADLOCK FALSE
