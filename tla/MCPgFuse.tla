------------------------------ MODULE MCPgFuse ------------------------------
(***************************************************************************)
(* PgFuse for TLC: the databases a run mounts, and the symmetry of the     *)
(* threads.                                                                *)
(***************************************************************************)
EXTENDS PgFuse

CONSTANTS p1, o1, t0

\* A row of the owner, permissions and time every seed database uses.
Seed(parent, name, kind, size) ==
    [parent |-> parent, name |-> name, kind |-> kind, perm |-> p1,
     owner |-> o1, size |-> size, times |-> t0]

Fs(rows, blocks) ==
    [inode  |-> [i \in Ids |-> IF i \in DOMAIN rows THEN rows[i] ELSE NoRow],
     blocks |-> [i \in Ids |-> IF i \in DOMAIN blocks THEN blocks[i] ELSE {}]]

\* What the schema installer leaves: the root directory.
EmptyFs == Fs(0 :> Seed(0, RootName, "dir", 0), <<>>)

\* /a, a file of one byte.
OneFileFs ==
    Fs(0 :> Seed(0, RootName, "dir", 1) @@ 1 :> Seed(0, "a", "reg", 1), 1 :> {0})

\* /a, a directory, and /a/b, a file of one byte in it.
NestedFs ==
    Fs(0 :> Seed(0, RootName, "dir", 1) @@ 1 :> Seed(0, "a", "dir", 1)
         @@ 2 :> Seed(1, "b", "reg", 1),
       2 :> {0})

\* /a and /b, two empty directories.
TwoDirsFs ==
    Fs(0 :> Seed(0, RootName, "dir", 2) @@ 1 :> Seed(0, "a", "dir", 0)
         @@ 2 :> Seed(0, "b", "dir", 0),
       <<>>)

\* /a, an empty directory, and /b, a file of one byte.
DirAndFileFs ==
    Fs(0 :> Seed(0, RootName, "dir", 2) @@ 1 :> Seed(0, "a", "dir", 0)
         @@ 2 :> Seed(0, "b", "reg", 1),
       2 :> {0})

TreeDbs    == {EmptyFs}
ContentDbs == {OneFileFs}
RenameDbs  == {TwoDirsFs, DirAndFileFs}
NestedDbs  == {NestedFs}
SeedDbs    == {OneFileFs, NestedFs, TwoDirsFs}

ThreadSymmetry == Permutations(Threads)

=============================================================================
