CONSTANTS
    A = A
    a = a
    c = c
    colon = colon
    us = us
    dot = dot
    unnamed = unnamed
    dev = dev
    lib = lib
    Bytes = Bytes
    Corrupt = Corrupt
    Directory = Directory
    MaxFiles = 3
    Char <- MCChar
    Lower <- MCLower
    Illegal = {colon}
    Dot = dot
    Trailing = {dot}
    Underscore = us
    Unnamed = unnamed
    Words <- MCWords
    Word <- MCWord
    Number <- MCNumber
    Common <- MCCommon
    Metadata <- MCMetadata
    References <- MCReferences
    Acquisitions <- MCAcquisitions
    Identifiers <- MCIdentifiers
    Paths <- MCPaths
    PathHash <- MCPathHash
    Body <- MCBody
    FileLists <- MCFileLists
    RootLists <- MCRootLists

SPECIFICATION ExportSpec

INVARIANTS
    TypeOK
    DistinctDestinations
    EveryPlaceFound
    NothingOfOthers
    FoldersMatchTally

PROPERTIES
    ImplementsNaming

\* A finished plan is not a deadlock.
CHECK_DEADLOCK FALSE
