\* Every command line of up to three arguments, against databases that pass
\* the preflight and databases that fail each of its checks.  The process
\* ends: a state with no successor is its exit.
SPECIFICATION Spec
CONSTANTS
    Argv <- McArgv
    Positional <- McPositional
    Requested <- McRequested
    Servers <- McServers
    DefaultBlockSize = 4
    IntWidth = 4
CHECK_DEADLOCK FALSE
PROPERTIES
    ExitCodeTellsOutcome
INVARIANTS
    MountTypeOK
    MountedOnCheckedDatabase
    ThreadingAgrees
