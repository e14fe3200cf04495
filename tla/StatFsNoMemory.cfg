\* A strdup of a mount point fails: is the call answered with an error?
SPECIFICATION Spec
CONSTANTS
    Dirs <- McPlainDirs
    Tablespaces <- McPlainTablespaces
    FsStats <- McFsStats
    MaxMounts = 2
    MaxUsed = 1
    BlockSize = 2
    Width = 6
CHECK_DEADLOCK FALSE
INVARIANTS
    OutOfMemoryIsAnswered
