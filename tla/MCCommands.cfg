CONSTANTS
    None = None
    Saturated = Saturated
    BLOCK = 2
    ArenaBudget = 14
    CutName = 10
    TAIL_LEN = 65664
    Bare <- MCBare
    Paths <- MCPaths
    Types <- MCTypes
    KnownTypes <- MCKnownTypes
    Bytes <- MCBytes
    CommandLines <- MCCommandLines

SPECIFICATION Spec

INVARIANTS
    RangedAgrees
    AttestedOwn
    EveryFileOnce
    ScopeExact
    ReportTellsAll
    EncodedFound
    ChangesRebuildB

PROPERTIES
    ImplementsListing

\* A command ends.
CHECK_DEADLOCK FALSE
