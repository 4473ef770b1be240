CONSTANTS
    Discovered <- MCDiscovered
    ServiceKey <- MCServiceKey
    Endpoint <- MCEndpoint
    Domain <- MCDomain
    ServiceName <- MCServiceName
    Names <- MCNames
    Api <- MCApi
    Hostname <- MCHostname
    OperationId <- MCOperationId
    DriftName <- MCDriftName
    ManagedViews <- MCManagedViews
    CatalogId <- MCCatalogId
    PushClasses <- MCBoth
    NoHost = "-"
    NoName = "-"
    RePushDeleted = TRUE
    FaultKinds = {"upsert", "sql", "http", "crash"}
    EditKinds = {"quiet", "sync", "dismiss", "delete", "foreign"}
    MaxFaults = 1
    MaxEdits = 2
SPECIFICATION FairSpec
PROPERTIES
    CyclesComplete
    ManagedIsResolved
    UnmanagedIsPublished
