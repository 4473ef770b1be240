CONSTANTS
    Discovered = {1, 2}
    ServiceKey <- MCServiceKey
    Endpoint <- MCEndpoint
    Domain <- MCDomain
    Api = {1}
    Hostname <- MCHostname
    NoHost = "-"
    CatalogId = {}
    Operations <- MCOperations
    StaleAfter = 0
    DiscoveredRetention = 1
    ManagedRetention = 1
    UnmanagedRetention = 2
    MaxEdits = 0
    MaxFaults = 0
SPECIFICATION FairRetention
PROPERTY StaleIsPurged
