CONSTANTS
    Null = Null
    Junk = Junk
    v1 = v1
    v2 = v2
    v3 = v3
    v4 = v4
    v5 = v5
    v6 = v6
    v7 = v7
    v8 = v8
    v9 = v9
    PageNumbers <- SmallPageNumbers
    Files <- KeyFiles
    Absent = Absent
    Bplists <- NoInputs
    Index <- Bracketed
    Unnamed <- Hashed
    MAX_WALK_DEPTH = 5
    MAX_NK_DEPTH = 4
    Nothing = Nothing
    Texts <- NoInputs
    At <- Bracketed
    Bytes <- Spelling
    MAX_DEPTH = 3
    MaxPages = 2
    MaxTxns = 3
    MaxGenerations = 2
    NoImage = NoImage

SPECIFICATION ReaderSpec

INVARIANT ColumnsAligned

\* A read ends.
CHECK_DEADLOCK FALSE
