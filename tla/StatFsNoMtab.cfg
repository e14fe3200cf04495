\* The mount table cannot be opened: does the call return?
SPECIFICATION Spec
CONSTANTS
    Dirs <- McPlainDirs
    Tablespaces <- McPlainTablespaces
    FsStats <- McFsStats
    MaxMounts = 2
    MaxUsed = 1
    BlockSize = 2
    Width = 6
CHECK_DEADLOCK FALSE
INVARIANTS
    StatfsReturns
