\* Two threads open, write, truncate, read and unlink one file.
SPECIFICATION Spec
CONSTANTS
    Threads = {t1, t2}
    MultiThreaded = TRUE
    ReadOnly = FALSE
    MaxDbConnections = 2
    InitialDbs <- ContentDbs
    Ops = {"open", "write", "truncate", "ftruncate", "read", "fgetattr", "release", "unlink"}
    Faults = {}
    Names = {"a"}
    MaxDepth = 1
    MaxId = 1
    BlockSize = 2
    MaxSize = 3
    Perms = {p1}
    Perm0777 = p1
    Owners = {o1}
    Times = {t0}
    p1 = p1
    o1 = o1
    t0 = t0
SYMMETRY ThreadSymmetry
PROPERTIES
    RefinesAbstractFs
INVARIANTS
    TypeOK
    BlocksWithinSize
    HandlesNameFiles
