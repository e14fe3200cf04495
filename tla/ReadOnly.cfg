\* The single-threaded mode on a read-only mount of each seed database: every
\* handler that changes the database, but utimens.
SPECIFICATION Spec
CONSTANTS
    Threads = {t1}
    MultiThreaded = FALSE
    ReadOnly = TRUE
    MaxDbConnections = 1
    InitialDbs <- SeedDbs
    Ops = {"create", "mkdir", "symlink", "open", "unlink", "rmdir", "rename", "write", "truncate", "ftruncate", "chmod", "chown", "fsync", "release", "getattr", "fgetattr", "read", "readdir", "statfs"}
    Faults = {}
    Names = {"a", "b"}
    MaxDepth = 2
    MaxId = 3
    BlockSize = 2
    MaxSize = 3
    Perms = {p1, p2}
    Perm0777 = p1
    Owners = {o1, o2}
    Times = {t0}
    p1 = p1
    o1 = o1
    t0 = t0
PROPERTIES
    ReadOnlyMountUnchanged
INVARIANTS
    RefusedIffImpossible
