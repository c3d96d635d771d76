CONSTANTS
    x = x
    X = X
    l = l
    d = d
    c = c
    r = r
    wal = wal
    colon = colon
    us = us
    dot = dot
    unnamed = unnamed
    reportjson = reportjson
    Db = Db
    Db2 = Db2
    Wal = Wal
    Text = Text
    Report = Report
    Char <- MCChar
    Lower <- MCLower
    Illegal = {colon}
    Dot = dot
    Trailing = {dot}
    Underscore = us
    Unnamed = unnamed
    Paths <- MCPaths
    PathHash <- MCPathHash
    Body = {Db, Db2, Wal, Text}
    RootLists <- MCRootLists
    DbBody = {Db, Db2}
    Sidecar <- MCSidecar
    ReportName <- MCReportName
    ReportBody = Report
    FsWidth <- OneByte
    DirLen = 1
    FileLists <- NeighbourSources
    Sources <- NeighbourSources
    Caps = {9}
    Hosts <- PlainHost
    MaxKills = 0

SPECIFICATION RunSpec

INVARIANTS
    ReportMatchesDisk

CHECK_DEADLOCK FALSE
