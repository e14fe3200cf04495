\* statfs when the tablespace locations cannot be read.
SPECIFICATION Spec
CONSTANTS
    Threads = {t1, t2}
    MultiThreaded = TRUE
    ReadOnly = FALSE
    MaxDbConnections = 2
    InitialDbs <- TreeDbs
    Ops = {"statfs"}
    Faults = {"tablespace", "hostfs"}
    Names = {"a"}
    MaxDepth = 1
    MaxId = 1
    BlockSize = 2
    MaxSize = 3
    Perms = {p1}
    Perm0777 = p1
    Owners = {o1}
    Times = {t0}
    p1 = p1
    o1 = o1
    t0 = t0
SYMMETRY ThreadSymmetry
CHECK_DEADLOCK FALSE
INVARIANTS
    ExitDiscipline
