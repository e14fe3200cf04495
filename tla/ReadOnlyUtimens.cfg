\* utimens on a read-only mount.
SPECIFICATION Spec
CONSTANTS
    Threads = {t1}
    MultiThreaded = FALSE
    ReadOnly = TRUE
    MaxDbConnections = 1
    InitialDbs <- NestedDbs
    Ops = {"utimens", "getattr"}
    Faults = {}
    Names = {"a", "b"}
    MaxDepth = 2
    MaxId = 3
    BlockSize = 2
    MaxSize = 3
    Perms = {p1}
    Perm0777 = p1
    Owners = {o1}
    Times = {t0, later}
    p1 = p1
    o1 = o1
    t0 = t0
PROPERTIES
    ReadOnlyMountUnchanged
