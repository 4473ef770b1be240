CONSTANTS
    Discovered <- MCDiscovered
    ServiceKey <- MCServiceKey
    Endpoint <- MCEndpoint
    Domain <- MCDomain
    ServiceName <- MCServiceName
    Names <- MCNames
    Api <- MCApi
    Hostname <- MCHostname
    OperationId <- MCOperationId
    DriftName <- MCDriftName
    ManagedViews <- MCManagedViews
    CatalogId <- MCCatalogId
    PushClasses <- MCBoth
    NoHost = "-"
    NoName = "-"
    RePushDeleted = FALSE
    FaultKinds = {"upsert", "sql", "http", "crash"}
    EditKinds = {"quiet", "sync", "dismiss", "delete", "foreign"}
    MaxFaults = 2
    MaxEdits = 2
SPECIFICATION Spec
INVARIANTS
    SpecCoversRow
    SpecAgreement
PROPERTIES
    ImplementsLifecycle
    WaitingRowIsPublished
    DismissalKept
    ClosedForReason
