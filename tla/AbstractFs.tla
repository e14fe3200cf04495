----------------------------- MODULE AbstractFs -----------------------------
(***************************************************************************)
(* What the file system promises its callers (section 4.4 of the           *)
(* specification): a tree of named files, directories and symbolic links   *)
(* on which every operation takes effect at one instant between its call   *)
(* and its return, or not at all.  An answer of success carries what was   *)
(* asked for, and the tree has changed at the path the call named and      *)
(* nowhere else.  Possible says what each operation needs of the tree and  *)
(* of the mount (section 7: not found, type mismatch, existence collision, *)
(* non-empty, read-only mount).                                            *)
(*                                                                         *)
(* Nothing here knows of inodes, connections or transactions.  PgFuse is   *)
(* shown to implement this specification under the mapping it defines.     *)
(***************************************************************************)
EXTENDS Integers, Sequences, SequencesExt

CONSTANTS
    Names,      \* path components
    MaxDepth,   \* bound on the number of components of a path
    MaxSize,    \* bound on file sizes
    ReadOnly,   \* the mount is read-only
    Threads     \* the callers

VARIABLES
    tree,       \* tree[p]: what the path p names
    call        \* call[t]: the operation caller t is in

Paths == BoundedSeq(Names, MaxDepth)

Absent    == [kind |-> "none"]
Directory == [kind |-> "dir"]
Files     == [kind : {"reg", "lnk"}, size : 0..MaxSize]

Idle    == [st |-> "idle"]
Pending == [st |-> "pending"]

\* An answer: the operation, its verdict, and what was asked for (the path,
\* the second path of rename, the size or the end of the range written,
\* whether the file is opened for writing).
Done(op, ok, arg) == [st |-> "done", op |-> op, ok |-> ok, arg |-> arg]

\* Every name lies in a directory.
WellFormed(tr) ==
    /\ tr[<<>>] = Directory
    /\ \A p \in Paths \ {<<>>} : tr[p] # Absent => tr[Front(p)] = Directory

\* p is a name that can be given: it is free and its parent is a directory.
Free(p) == p # <<>> /\ tree[p] = Absent /\ tree[Front(p)] = Directory

Leaf(p) == p # <<>> /\ tree[p] \in Files

Empty(p) == \A q \in Paths : IsStrictPrefix(p, q) => tree[q] = Absent

\* The tree with what was below from now below to.
Moved(from, to) ==
    [p \in Paths |->
        IF IsPrefix(to, p)
        THEN LET q == from \o SubSeq(p, Len(to) + 1, Len(p))
             IN  IF q \in Paths THEN tree[q] ELSE Absent
        ELSE IF IsPrefix(from, p) THEN Absent
        ELSE tree[p]]

-----------------------------------------------------------------------------
(* What an operation needs of the tree, and what it leaves (section 4.4).  *)

Changing ==
    {"create", "mkdir", "symlink", "unlink", "rmdir", "rename", "truncate", "ftruncate",
     "write"}

\* The operations that name their file by a handle.  The tree does not know
\* which file a handle names: a.path is a path that led to it when it was
\* last looked at, the root when none did.
ByHandle == {"ftruncate", "write", "read", "fgetattr"}

\* The operations that write to the database.
Mutating == Changing \cup {"chmod", "chown", "utimens", "fsync"}

\* The tree as it is has what the operation needs.
Fits(op, a) ==
    CASE op \in {"create", "mkdir", "symlink"} -> Free(a.path)
      [] op \in {"unlink", "open", "truncate", "ftruncate", "write", "read", "fgetattr"}
            -> Leaf(a.path)
      [] op = "rmdir" -> a.path # <<>> /\ tree[a.path] = Directory /\ Empty(a.path)
      [] op = "rename" ->
            /\ a.path # <<>> /\ tree[a.path] # Absent
            /\ IF a.to = a.path THEN tree[a.path].kind = "reg"
               ELSE Free(a.to) /\ ~IsPrefix(a.path, a.to)
      [] op = "readlink" -> tree[a.path].kind = "lnk"
      [] op \in {"getattr", "readdir", "chmod", "chown", "utimens"} -> tree[a.path] # Absent
      [] OTHER -> TRUE

\* The call asks for something to be written: a rename of a file to its own
\* name does not.
Writes(op, a) ==
    \/ op \in Mutating /\ ~(op = "rename" /\ a.to = a.path)
    \/ op = "open" /\ a.wr

\* The operation can be carried out: the mount lets it, and the tree fits.
Possible(op, a) == (ReadOnly => ~Writes(op, a)) /\ Fits(op, a)

Grown(p, end) == IF end > tree[p].size THEN end ELSE tree[p].size

\* The tree the operation leaves.
After(op, a) ==
    CASE op = "create"  -> [tree EXCEPT ![a.path] = [kind |-> "reg", size |-> 0]]
      [] op = "mkdir"   -> [tree EXCEPT ![a.path] = Directory]
      [] op = "symlink" -> [tree EXCEPT ![a.path] = [kind |-> "lnk", size |-> a.size]]
      [] op \in {"unlink", "rmdir"} -> [tree EXCEPT ![a.path] = Absent]
      [] op = "rename"  -> IF a.to = a.path THEN tree ELSE Moved(a.path, a.to)
      [] op \in {"truncate", "ftruncate"} -> [tree EXCEPT ![a.path].size = a.size]
      [] op = "write"   -> [tree EXCEPT ![a.path].size = Grown(a.path, a.size)]
      [] OTHER -> tree

-----------------------------------------------------------------------------
(* The callers.                                                            *)

Invoke(t) ==
    /\ call[t] = Idle
    /\ call' = [call EXCEPT ![t] = Pending]
    /\ UNCHANGED tree

\* t, and no other caller, has its answer.
Answers(t, ok) ==
    /\ call[t] \in {Idle, Pending}
    /\ call'[t].st = "done" /\ call'[t].ok = ok
    /\ \A u \in Threads \ {t} : call'[u] = call[u]

\* The operation takes effect on what it was given, or on some file when it
\* was given a handle, and answers that it did.
Succeed(t) ==
    /\ Answers(t, TRUE)
    /\ LET op == call'[t].op
           a  == call'[t].arg
       IN  IF op \in Changing
           THEN \E p \in IF op \in ByHandle THEN Paths ELSE {a.path} :
                    LET b == [a EXCEPT !.path = p]
                    IN  Possible(op, b) /\ tree' = After(op, b)
           ELSE tree' = tree

\* The operation answers an error and has changed nothing.
Fail(t) == Answers(t, FALSE) /\ UNCHANGED tree

Return(t) ==
    /\ call[t] \notin {Idle, Pending}
    /\ call' = [call EXCEPT ![t] = Idle]
    /\ UNCHANGED tree

Init ==
    /\ tree \in [Paths -> {Absent, Directory} \cup Files]
    /\ WellFormed(tree)
    /\ call = [t \in Threads |-> Idle]

Next == \E t \in Threads : Invoke(t) \/ Succeed(t) \/ Fail(t) \/ Return(t)

Spec == Init /\ [][Next]_<<tree, call>>

=============================================================================
