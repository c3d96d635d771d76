CONSTANTS
    notes = notes
    photo = photo
    db = db
    folder = folder
    w1 = w1
    w2 = w2
    Paths <- MCPaths
    Types <- MCTypes
    Contents <- MCContents
    ExtType <- MCExtType
    PathHits <- MCPathHits
    EntryLists <- MCEntryLists
    Settings <- MCSettings
    Workers = {w1, w2}
    MaxHits = 2

SPECIFICATION FairSpec

INVARIANTS
    ProgressExact
    CoverageExact
    AuditComplete
    LineHonest

PROPERTIES
    ImplementsScanReport
    SearchEnds

CHECK_DEADLOCK FALSE
