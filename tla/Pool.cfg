\* Two threads and a pool of one connection: whoever has the connection
\* gives it back, on the commit and on every rollback.
SPECIFICATION FairSpec
CONSTANTS
    Threads = {t1, t2}
    MultiThreaded = TRUE
    ReadOnly = FALSE
    MaxDbConnections = 1
    InitialDbs <- ContentDbs
    Ops = {"getattr", "create", "unlink", "open", "write", "statfs", "release"}
    Faults = {"acquire", "commit", "resolve", "create", "delete", "write_buf", "blocks_used"}
    Names = {"a"}
    MaxDepth = 1
    MaxId = 2
    BlockSize = 2
    MaxSize = 1
    Perms = {p1}
    Perm0777 = p1
    Owners = {o1}
    Times = {t0}
    p1 = p1
    o1 = o1
    t0 = t0
PROPERTIES
    ConnectionsComeBack
