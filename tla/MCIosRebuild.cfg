CONSTANTS
    Absent = Absent
    Weak = Weak
    Weaker = Weaker
    Own = Own
    Unguessed = Unguessed
    Backups <- MCBackups
    DefaultPasswords <- MCDefaultPasswords
    Passwords <- MCPasswords
    Kind <- MCKind
    FixedPath <- MCFixedPath
    SidecarPaths <- MCSidecarPaths
    OverLong <- MCOverLong

SPECIFICATION Spec

INVARIANTS
    FilesAccounted
    OwnContent
    VerifiedIsOriginal
    UnlockIsHonest
    RebuildComplete

\* A command ends.
CHECK_DEADLOCK FALSE
