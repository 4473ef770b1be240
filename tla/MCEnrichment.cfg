CONSTANTS
    Request <- MCRequest
    Flow <- MCFlow
    Endpoint <- MCEndpoint
    Resource <- MCResource
    DnsName <- MCDnsName
    Address <- MCAddress
    ValidUrl <- MCValidUrl
    MaxSecond = 2
    None = None
SPECIFICATION Spec
CHECK_DEADLOCK FALSE
INVARIANTS
    RowsAreRequested
    CountedForItsService
