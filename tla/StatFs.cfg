\* pgfuse_statfs on every mount table of up to three entries.
SPECIFICATION Spec
CONSTANTS
    Dirs <- McDirs
    Tablespaces <- McTablespaces
    FsStats <- McFsStats
    MaxMounts = 3
    MaxUsed = 1
    BlockSize = 2
    Width = 6
CHECK_DEADLOCK FALSE
INVARIANTS
    StatTypeOK
    LongestPrefixWhenOrdered
    UsedIsTotalMinusFree
