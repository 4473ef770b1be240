CONSTANTS
    Api = {1, 2, 3}
    Included = {1, 2}
    PageSize = 1
    MaxEdits = 4
    MaxFaults = 2
SPECIFICATION FairSpec
INVARIANTS
    BaselineIsOneVersion
    SyncedIsFresh
PROPERTIES
    ImplementsBaseline
    UnpublishedLeaves
    UpdatesArrive
