-------------------------------- MODULE PgDb --------------------------------
(***************************************************************************)
(* The database as the handlers of pgfuse.c use it: one table of inodes,   *)
(* one table of blocks, and the typed accessors psql_* the handlers call.  *)
(*                                                                         *)
(* The accessors live in pgsql.c, which is not part of the sources at      *)
(* hand; they are written here from the interface description (database    *)
(* access layer, path resolver, block engine).  A database is a value:     *)
(* every operator takes one and yields the result code or the database     *)
(* after the call, so that a handler can be evaluated against the          *)
(* snapshot its transaction sees.                                          *)
(*                                                                         *)
(* The contents of a block are left out here: a file is its size and the   *)
(* set of block numbers that have a row.                                   *)
(***************************************************************************)
EXTENDS Integers, FiniteSets, Sequences, SequencesExt

CONSTANTS
    Names,      \* path components
    MaxDepth,   \* bound on the number of components of a path
    MaxId,      \* bound on the ids the inode sequence hands out
    BlockSize,  \* bytes per block, fixed at mount
    MaxSize,    \* bound on file sizes and on offset + length of a request
    Perms,      \* permission bits
    Owners,     \* (uid, gid) pairs
    Times       \* timestamps

ASSUME DbAssumption ==
    /\ MaxId \in Nat \ {0}
    /\ MaxDepth \in Nat \ {0}
    /\ BlockSize \in Nat \ {0}
    /\ MaxSize \in Nat
    /\ Names # {} /\ Perms # {} /\ Owners # {} /\ Times # {}

-----------------------------------------------------------------------------
(* Result codes: the handlers return a negative errno or a count >= 0.     *)

EPERM     == -1
ENOENT    == -2
EIO       == -5
EBADF     == -9
ENOMEM    == -12
EEXIST    == -17
ENOTDIR   == -20
EISDIR    == -21
EINVAL    == -22
EROFS     == -30
ENOTEMPTY == -39

Errors == {EPERM, ENOENT, EIO, EBADF, ENOMEM, EEXIST, ENOTDIR, EISDIR,
           EINVAL, EROFS, ENOTEMPTY}

-----------------------------------------------------------------------------
(* Rows and databases.                                                     *)

RootId   == 0                    \* the root directory; 0 is never a file handle
Ids      == 0..MaxId
FileIds  == 1..MaxId
RootName == "/"
Kinds    == {"dir", "reg", "lnk"}          \* S_IFDIR, S_IFREG, S_IFLNK
BlockNos == 0..((MaxSize + BlockSize - 1) \div BlockSize)

\* The sizes within the bounds: bytes of a file, children of a directory.
Sizes == 0..Max({MaxSize, MaxId})

\* What PgMeta carries between psql_read_meta and psql_write_meta.
Meta == [kind : Kinds, perm : Perms, owner : Owners, size : Sizes, times : Times]

Row   == [parent : Ids, name : Names \cup {RootName}, kind : Kinds,
          perm : Perms, owner : Owners, size : Sizes, times : Times]
NoRow == [kind |-> "none"]

Database == [inode : [Ids -> Row \cup {NoRow}], blocks : [Ids -> SUBSET BlockNos]]

Exists(s, i) == i \in Ids /\ s.inode[i] # NoRow
IsDir(s, i)  == s.inode[i].kind = "dir"
IsReg(s, i)  == s.inode[i].kind = "reg"
IsLnk(s, i)  == s.inode[i].kind = "lnk"

Children(s, d) == {i \in FileIds : Exists(s, i) /\ s.inode[i].parent = d}
Entries(s, d)  == {<<s.inode[i].name, i>> : i \in Children(s, d)}

-----------------------------------------------------------------------------
(* Path resolver.  A path is the sequence of its components; <<>> is "/".  *)

Paths == BoundedSeq(Names, MaxDepth)

Lookup(s, d, n) ==
    LET hit == {i \in Children(s, d) : s.inode[i].name = n}
    IN  IF hit = {} THEN ENOENT ELSE CHOOSE i \in hit : TRUE

\* psql_read_meta_from_path: one lookup per component, from the root.
Resolve(s, path) ==
    LET Down(id, n) == IF id < 0 THEN id
                       ELSE IF ~IsDir(s, id) THEN ENOTDIR
                       ELSE Lookup(s, id, n)
    IN  FoldLeft(Down, RootId, path)

\* psql_read_meta: by id, the path being a hint for the log only.
ReadMeta(s, fh) == IF Exists(s, fh) THEN fh ELSE ENOENT

\* The inodes a resolution of path reads: those of its prefixes.
Trail(s, path) == {Resolve(s, p) : p \in Prefixes(path)} \cap Ids

-----------------------------------------------------------------------------
(* Metadata accessors.                                                     *)

MetaOf(s, i) == [f \in {"kind", "perm", "owner", "size", "times"} |-> s.inode[i][f]]

\* psql_write_meta overwrites mode, uid, gid, size and the timestamps.
WriteMeta(s, i, m) ==
    [s EXCEPT !.inode[i] = [@ EXCEPT !.kind = m.kind, !.perm = m.perm,
                                     !.owner = m.owner, !.size = m.size,
                                     !.times = m.times]]

Resize(s, d, delta) == [s EXCEPT !.inode[d].size = @ + delta]

\* psql_create_file and psql_create_dir of an absent (pid, name): the new
\* row, and one child more in the parent's size.
CreateInode(s, id, pid, name, m) ==
    Resize([s EXCEPT !.inode[id] = [parent |-> pid, name |-> name] @@ m,
                     !.blocks[id] = {}],
           pid, 1)

\* The unique (parent_id, name) constraint answers an insert.
CreateResult(s, pid, name) == IF Lookup(s, pid, name) >= 0 THEN EEXIST ELSE 0

\* psql_delete_dir looks for children first.
DeleteDirResult(s, id) == IF Children(s, id) # {} THEN ENOTEMPTY ELSE 0

\* psql_delete_file and psql_delete_dir: the row and its blocks go, and the
\* parent counts one child less.
DeleteInode(s, id) ==
    Resize([s EXCEPT !.inode[id] = NoRow, !.blocks[id] = {}],
           s.inode[id].parent, -1)

\* psql_rename: parent and name in one update.
RenameInode(s, id, pid, name) ==
    [s EXCEPT !.inode[id].parent = pid, !.inode[id].name = name]

-----------------------------------------------------------------------------
(* Block engine, without the bytes: which blocks have a row.  PgBlocks has *)
(* the bytes of the rows, and is checked to keep the rows defined here.    *)

\* The blocks the byte range [offset, offset + len) touches.
Touched(offset, len) ==
    {b \in BlockNos : b * BlockSize < offset + len /\ offset < (b + 1) * BlockSize /\ len > 0}

\* psql_write_buf stores every touched block, whole.
WriteBuf(s, id, offset, len) ==
    [s EXCEPT !.blocks[id] = @ \cup Touched(offset, len)]

\* psql_truncate deletes the blocks past the one holding byte size - 1.
Truncate(s, id, size) ==
    [s EXCEPT !.blocks[id] = {b \in @ : b * BlockSize < size}]

\* psql_read_buf returns min(len, max(0, size - offset)) bytes of an inode
\* it finds.
ReadBuf(s, id, offset, len) ==
    IF ~Exists(s, id) THEN ENOENT
    ELSE Min({len, Max({0, s.inode[id].size - offset})})

=============================================================================
