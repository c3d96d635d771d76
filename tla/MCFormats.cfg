CONSTANTS
    Null = Null
    Junk = Junk
    v1 = v1
    v2 = v2
    v3 = v3
    v4 = v4
    v5 = v5
    v6 = v6
    v7 = v7
    v8 = v8
    v9 = v9
    PageNumbers <- SmallPageNumbers
    Files <- SmallFiles
    Absent = Absent
    Bplists <- SmallLists
    Index <- Bracketed
    Unnamed <- Hashed
    MAX_WALK_DEPTH = 5
    MAX_NK_DEPTH = 4
    Nothing = Nothing
    Texts <- SmallTexts
    At <- Bracketed
    Bytes <- Spelling
    MAX_DEPTH = 3
    MaxPages = 2
    MaxTxns = 3
    MaxGenerations = 2
    NoImage = NoImage

SPECIFICATION MCSpec

INVARIANTS
    WholeTreeWalked
    IntactRowsRead
    ColumnsAligned
    CutLogIsAPast
    KeyPathLeads
    PlaceIsRight
    EveryPlaceTold

PROPERTIES
    ImplementsStore
    InspectionEnds

\* A read ends, and the writer stops at the bounds.
CHECK_DEADLOCK FALSE
