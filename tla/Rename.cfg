\* Two threads move two directories, or a directory and a file, into and out of
\* each other, as far as the kernel lets them.  A rename that returns early keeps its connection:
\* the run ends where the pool is empty and every thread waits.
SPECIFICATION Spec
CONSTANTS
    Threads = {t1, t2}
    MultiThreaded = TRUE
    ReadOnly = FALSE
    MaxDbConnections = 2
    InitialDbs <- RenameDbs
    Ops = {"rename", "rmdir", "getattr"}
    Faults = {}
    Names = {"a", "b"}
    MaxDepth = 2
    MaxId = 2
    BlockSize = 2
    MaxSize = 3
    Perms = {p1}
    Perm0777 = p1
    Owners = {o1}
    Times = {t0}
    p1 = p1
    o1 = o1
    t0 = t0
SYMMETRY ThreadSymmetry
CHECK_DEADLOCK FALSE
PROPERTIES
    RefinesAbstractFs
INVARIANTS
    TreeWellFormed
    RefusedIffImpossible
