\* rename of a path that does not exist.
SPECIFICATION Spec
CONSTANTS
    Threads = {t1, t2}
    MultiThreaded = TRUE
    ReadOnly = FALSE
    MaxDbConnections = 2
    InitialDbs <- TreeDbs
    Ops = {"rename"}
    Faults = {}
    Names = {"a"}
    MaxDepth = 1
    MaxId = 1
    BlockSize = 2
    MaxSize = 3
    Perms = {p1}
    Perm0777 = p1
    Owners = {o1}
    Times = {t0}
    p1 = p1
    o1 = o1
    t0 = t0
SYMMETRY ThreadSymmetry
CHECK_DEADLOCK FALSE
INVARIANTS
    ExitDiscipline
