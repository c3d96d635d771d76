CONSTANTS
    A = A
    a = a
    c = c
    colon = colon
    us = us
    dot = dot
    unnamed = unnamed
    dev = dev
    lib = lib
    Bytes = Bytes
    Corrupt = Corrupt
    Directory = Directory
    MaxFiles = 3
    Char <- MCChar
    Lower <- MCLower
    Illegal = {colon}
    Dot = dot
    Trailing = {dot}
    Underscore = us
    Unnamed = unnamed
    Words <- MCWords
    Word <- MCWord
    Number <- MCNumber
    Common <- MCCommon
    Metadata <- MCMetadata
    References <- MCReferences
    Acquisitions <- RelativeAcquisitions
    Identifiers <- MCIdentifiers
    Paths <- MCPaths
    PathHash <- MCPathHash
    Body <- MCBody
    FileLists <- NoFileLists
    RootLists <- MCRootLists

SPECIFICATION ExportSpec

INVARIANT EveryPlaceFound

CHECK_DEADLOCK FALSE
