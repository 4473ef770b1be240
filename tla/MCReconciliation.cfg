CONSTANTS
    adc1 = adc1
    adc2 = adc2
    Adc <- MCAdc
    Finding <- MCFinding
    Home <- MCHome
    Names = {"orders", "orders-Drift"}
    CatalogId <- MCCatalogId
    NoName = "-"
    NoId = 0
    NoOwner = "-"
    PageSize = 1
    CleanupUnowned = TRUE
    RePushDeleted <- MCRePushDeleted
    MaxFaults = 1
    MaxEdits = 1
SPECIFICATION FairSpec
INVARIANTS
    TrackedEntryKept
    CreatedEntryKept
PROPERTIES
    UnownedGoes
    WaitingIsPushed
