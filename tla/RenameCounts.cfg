\* rename of a file from one directory to another.
SPECIFICATION Spec
CONSTANTS
    Threads = {t1}
    MultiThreaded = FALSE
    ReadOnly = FALSE
    MaxDbConnections = 1
    InitialDbs <- NestedDbs
    Ops = {"rename"}
    Faults = {}
    Names = {"a", "b"}
    MaxDepth = 2
    MaxId = 2
    BlockSize = 2
    MaxSize = 3
    Perms = {p1}
    Perm0777 = p1
    Owners = {o1}
    Times = {t0}
    p1 = p1
    o1 = o1
    t0 = t0
INVARIANTS
    DirSizeIsChildCount
