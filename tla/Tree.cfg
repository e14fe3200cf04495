\* Two threads create, remove and truncate files and directories in one tree
\* that starts with the root alone.
SPECIFICATION Spec
CONSTANTS
    Threads = {t1, t2}
    MultiThreaded = TRUE
    ReadOnly = FALSE
    MaxDbConnections = 2
    InitialDbs <- TreeDbs
    Ops = {"create", "mkdir", "unlink", "rmdir", "truncate"}
    Faults = {}
    Names = {"a", "b"}
    MaxDepth = 2
    MaxId = 2
    BlockSize = 2
    MaxSize = 1
    Perms = {p1}
    Perm0777 = p1
    Owners = {o1}
    Times = {t0}
    p1 = p1
    o1 = o1
    t0 = t0
SYMMETRY ThreadSymmetry
PROPERTIES
    RefinesAbstractFs
INVARIANTS
    DirSizeIsChildCount
    TreeWellFormed
