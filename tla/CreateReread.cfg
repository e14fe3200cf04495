\* create when the look-up of the new file fails.
SPECIFICATION Spec
CONSTANTS
    Threads = {t1}
    MultiThreaded = FALSE
    ReadOnly = FALSE
    MaxDbConnections = 1
    InitialDbs <- TreeDbs
    Ops = {"create"}
    Faults = {"reread"}
    Names = {"a"}
    MaxDepth = 1
    MaxId = 1
    BlockSize = 2
    MaxSize = 3
    Perms = {p1}
    Perm0777 = p1
    Owners = {o1}
    Times = {t0}
    p1 = p1
    o1 = o1
    t0 = t0
INVARIANTS
    HandlesNameFiles
