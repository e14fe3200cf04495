\* The estimate of pgfuse_statfs against the minimum over the tablespaces.
SPECIFICATION Spec
CONSTANTS
    Dirs <- McPlainDirs
    Tablespaces <- McPlainTablespaces
    FsStats <- McFsStats
    MaxMounts = 2
    MaxUsed = 1
    BlockSize = 2
    Width = 6
CHECK_DEADLOCK FALSE
INVARIANTS
    LeastOverTablespaces
