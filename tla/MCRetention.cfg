CONSTANTS
    Discovered = {1, 2}
    ServiceKey <- MCServiceKey
    Endpoint <- MCEndpoint
    Domain <- MCDomain
    Api = {1}
    Hostname <- MCHostname
    NoHost = "-"
    CatalogId = {}
    Operations <- MCOperations
    StaleAfter = 0
    DiscoveredRetention = 1
    ManagedRetention = 1
    UnmanagedRetention = 2
    MaxEdits = 2
    MaxFaults = 1
SPECIFICATION FairRetention
PROPERTIES
    DismissalSurvivesCleanup
    ManagedIsForgotten
    DeletedApiIsPurged
