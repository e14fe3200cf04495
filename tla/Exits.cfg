\* Every handler but rename, with every call of it failing in turn, by two
\* threads that share a pool of one connection.
SPECIFICATION Spec
CONSTANTS
    Threads = {t1, t2}
    MultiThreaded = TRUE
    ReadOnly = FALSE
    MaxDbConnections = 1
    InitialDbs <- ContentDbs
    Ops = {"getattr", "fgetattr", "readlink", "readdir", "read", "create", "mkdir", "symlink", "open", "unlink", "rmdir", "write", "truncate", "ftruncate", "chmod", "chown", "utimens", "statfs", "access", "opendir", "releasedir", "fsyncdir", "flush", "release", "fsync"}
    Faults = {"acquire", "commit", "resolve", "resolve_parent", "strdup", "strdup2", "create", "delete", "read_meta", "write_meta", "write_buf", "short_write", "read_buf", "truncate", "readdir", "blocks_used", "files_used"}
    Names = {"a"}
    MaxDepth = 1
    MaxId = 2
    BlockSize = 2
    MaxSize = 1
    Perms = {p1}
    Perm0777 = p1
    Owners = {o1}
    Times = {t0}
    p1 = p1
    o1 = o1
    t0 = t0
SYMMETRY ThreadSymmetry
PROPERTIES
    RefinesAbstractFs
INVARIANTS
    ExitDiscipline
    RefusedIffImpossible
