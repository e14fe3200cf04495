------------------------------- MODULE PgFuse -------------------------------
(***************************************************************************)
(* The FUSE handlers of pgfuse.c, run by the threads of the FUSE loop on   *)
(* connections borrowed from the pool, each inside one transaction.        *)
(*                                                                         *)
(* A handler is: ACQUIRE, PSQL_BEGIN, the calls on the database with an    *)
(* early return after each, then PSQL_COMMIT and RELEASE.  A thread takes  *)
(* these steps:                                                            *)
(*                                                                         *)
(*   idle --Acquire--> begun --<handler>--> commit --Commit--> ret         *)
(*                       |                                      ^          *)
(*                       +---- an early return of the handler --+          *)
(*   ret --Return--> idle                                                  *)
(*                                                                         *)
(* The transaction reads the snapshot taken at its first statement, so     *)
(* the calls of one handler are one step: XxxOutcome is the handler as a   *)
(* function of the snapshot, its ladder of IFs the handler's early         *)
(* returns in the order of the code.  Other threads run between that step  *)
(* and the commit, which fails when one of them committed a change to      *)
(* what this transaction read (serializable isolation).                    *)
(***************************************************************************)
EXTENDS PgDb

CONSTANTS
    Threads,            \* the threads of the FUSE loop
    MultiThreaded,      \* FALSE: the -s mode, one shared connection
    ReadOnly,           \* the ro mount option
    MaxDbConnections,   \* size of the connection pool
    InitialDbs,         \* the databases the file system may be mounted on
    Ops,                \* the operations the kernel issues
    Faults,             \* the calls that may fail in the environment
    Perm0777            \* the permission bits of a symbolic link

ASSUME FuseAssumption ==
    /\ MultiThreaded \in BOOLEAN /\ ReadOnly \in BOOLEAN
    /\ MaxDbConnections \in Nat \ {0}
    /\ MultiThreaded \/ Cardinality(Threads) = 1
    /\ InitialDbs \subseteq Database
    /\ Perm0777 \in Perms

VARIABLES
    db,         \* the committed inode and block tables
    nextId,     \* the sequence new inodes take their id from
    avail,      \* the connections in the pool
    txOpen,     \* txOpen[c]: connection c is inside a transaction
    pc,         \* pc[t]: where thread t is in its handler
    conn,       \* conn[t]: the handler's local conn
    tx,         \* tx[t]: what the transaction read, and what it will write
    ret,        \* ret[t]: the operation, its result, and fi->fh as it leaves
    handles     \* the file handles the kernel holds open

vars == <<db, nextId, avail, txOpen, pc, conn, tx, ret, handles>>

Conns      == 1..MaxDbConnections
SharedConn == 1                         \* data->conn of the -s mode
NoConn     == 0
NoTx       == [seen |-> <<>>, upd |-> <<>>]

\* What the kernel asked for, as far as the answer is held against it: the
\* path, the second path of rename, the size or the end of the range, and
\* whether open is to give a file to write to.
Arg(path, to, size) == [path |-> path, to |-> to, size |-> size, wr |-> FALSE]
NoArg == Arg(<<>>, <<>>, 0)
NoRet == [op |-> "none", res |-> 0, fh |-> 0, arg |-> NoArg, allowed |-> TRUE]

\* The file of handle fh as a caller names it: the path that leads to it,
\* the root when it is gone.
PathTo(s, fh) ==
    LET ps == {p \in BoundedSeq(Names, MaxId) : Resolve(s, p) = fh}
    IN  IF ps = {} THEN <<>> ELSE CHOOSE p \in ps : TRUE

\* The fault sites of a handler that this configuration lets fail.
Sites(S) == {"none"} \cup (S \cap Faults)

\* Offsets and lengths of read, write and truncate requests.
Ranges == {r \in (0..MaxSize) \X (0..MaxSize) : r[1] + r[2] <= MaxSize}

-----------------------------------------------------------------------------
(* Pool helpers.                                                           *)

\* psql_acquire: the shared connection, or one taken from the pool.
Acquirable == IF MultiThreaded THEN avail ELSE {SharedConn}

\* The pool after psql_pool_acquire handed out c.
Taken(c) == IF MultiThreaded THEN avail \ {c} ELSE avail

\* The pool after psql_release gave c back.
Released(c) == IF MultiThreaded THEN avail \cup {c} ELSE avail

-----------------------------------------------------------------------------
(* The file system the callers see (AbstractFs), and how the database and  *)
(* the threads are read as one.                                            *)

\* What the callers see of the database: what each path names.  MaxId inodes
\* below the root make no path longer than MaxId, however rename nests them.
TreeOf(s) ==
    [p \in BoundedSeq(Names, MaxId) |->
        LET i == Resolve(s, p)
        IN  IF i < 0 THEN [kind |-> "none"]
            ELSE IF IsDir(s, i) THEN [kind |-> "dir"]
            ELSE [kind |-> s.inode[i].kind, size |-> s.inode[i].size]]

\* What a caller sees of its thread: a handler that runs, or its answer.
CallOf(t) ==
    CASE pc[t] = "idle" -> [st |-> "idle"]
      [] pc[t] = "ret"  -> [st |-> "done", op |-> ret[t].op, ok |-> ret[t].res >= 0,
                            arg |-> ret[t].arg]
      [] OTHER          -> [st |-> "pending"]

AFS == INSTANCE AbstractFs WITH
    MaxDepth <- MaxId, tree <- TreeOf(db), call <- [t \in Threads |-> CallOf(t)]

-----------------------------------------------------------------------------
(* How a handler leaves its body.                                          *)

\* return res;  with the transaction open and the connection not released
Leak(res) == [end |-> "leak", res |-> res, fh |-> 0]

\* PSQL_ROLLBACK( conn ); RELEASE( conn ); return res;
Rollback(res) == [end |-> "rollback", res |-> res, fh |-> 0]

\* The work is done on s2: PSQL_COMMIT( conn ) comes next.
Work(s2, writes, res, fh) ==
    [end |-> "commit", res |-> res, fh |-> fh, db |-> s2, writes |-> writes]

\* What a transaction remembers of inode i: its row, its blocks, its entries.
View(s, i) == <<s.inode[i], s.blocks[i], Entries(s, i)>>

\* How an answer ends the call: it did what was asked, the database or the
\* memory failed (section 7: I/O, resource exhaustion), or the call is
\* refused for what it asks.
Verdict(res) ==
    IF res >= 0 THEN "ok" ELSE IF res \in {EIO, ENOMEM} THEN "failed" ELSE "refused"

\* What is kept of the arguments with the answer o, to hold the change of
\* the commit against: nothing with an error, and nothing of an operation
\* that leaves the tree as it is.
Held(op, arg, o) == IF o.res < 0 \/ op \notin AFS!Changing THEN NoArg ELSE arg

\* Thread t ran the body of op, called with arg, on the snapshot db, read
\* the inodes foot and left the body as o says.  A transaction that writes
\* nothing commits whatever the others did, and what it read is not kept.
\* With the answer goes whether the tree, as the handler read it, allowed
\* what was asked (not looked at when the database failed).
Finish(t, op, arg, foot, o) ==
    /\ pc[t] = "begun"
    /\ ret' = [ret EXCEPT ![t] = [op |-> op, res |-> o.res, fh |-> o.fh,
                                  arg |-> Held(op, arg, o),
                                  allowed |-> Verdict(o.res) = "failed" \/ AFS!Possible(op, arg)]]
    /\ \/ /\ o.end = "commit"
          /\ pc' = [pc EXCEPT ![t] = "commit"]
          /\ tx' = [tx EXCEPT ![t] =
                      [seen |-> [i \in IF o.writes = {} THEN {} ELSE foot |-> View(db, i)],
                       upd  |-> [i \in o.writes |-> <<o.db.inode[i], o.db.blocks[i]>>]]]
          /\ nextId' = IF nextId \in o.writes THEN nextId + 1 ELSE nextId
          /\ UNCHANGED <<avail, txOpen, conn>>
       \/ /\ o.end = "rollback"
          /\ pc' = [pc EXCEPT ![t] = "ret"]
          /\ txOpen' = [txOpen EXCEPT ![conn[t]] = FALSE]
          /\ avail' = Released(conn[t])
          /\ conn' = [conn EXCEPT ![t] = NoConn]
          /\ UNCHANGED <<tx, nextId>>
       \/ /\ o.end = "leak"
          /\ pc' = [pc EXCEPT ![t] = "ret"]
          /\ conn' = [conn EXCEPT ![t] = NoConn]
          /\ UNCHANGED <<avail, txOpen, tx, nextId>>
    /\ UNCHANGED <<db, handles>>

\* A handler that does not use the database.
Answer(t, op, res, fh) ==
    /\ pc[t] = "idle"
    /\ pc' = [pc EXCEPT ![t] = "ret"]
    /\ ret' = [ret EXCEPT ![t] = [NoRet EXCEPT !.op = op, !.res = res, !.fh = fh,
                                               !.allowed = AFS!Possible(op, NoArg)]]
    /\ UNCHANGED <<db, nextId, avail, txOpen, conn, tx, handles>>

-----------------------------------------------------------------------------
(* ACQUIRE, PSQL_BEGIN, PSQL_COMMIT and RELEASE.                           *)

\* ACQUIRE( conn ); PSQL_BEGIN( conn );  A thread of the multi-threaded
\* mode waits in psql_pool_acquire while the pool is empty.
Acquire(t) ==
    /\ pc[t] = "idle"
    /\ \E c \in Acquirable :
        /\ conn' = [conn EXCEPT ![t] = c]
        /\ avail' = Taken(c)
        /\ txOpen' = [txOpen EXCEPT ![c] = TRUE]
    /\ pc' = [pc EXCEPT ![t] = "begun"]
    /\ UNCHANGED <<db, nextId, tx, ret, handles>>

\* ACQUIRE( conn ) when psql_acquire returns NULL.
AcquireFail(t) ==
    /\ pc[t] = "idle"
    /\ "acquire" \in Faults
    /\ pc' = [pc EXCEPT ![t] = "ret"]
    /\ ret' = [ret EXCEPT ![t] = [NoRet EXCEPT !.op = "acquire", !.res = EIO]]
    /\ UNCHANGED <<db, nextId, avail, txOpen, conn, tx, handles>>

\* Valid, were every transaction to commit whatever it had read.
Valid_Skipped(t) == TRUE

\* Nothing the transaction read was changed by a commit since it read it.
Valid(t) == \A i \in DOMAIN tx[t].seen : View(db, i) = tx[t].seen[i]

\* The database with the rows and blocks of upd in place.
Install(s, upd) ==
    [inode  |-> [i \in Ids |-> IF i \in DOMAIN upd THEN upd[i][1] ELSE s.inode[i]],
     blocks |-> [i \in Ids |-> IF i \in DOMAIN upd THEN upd[i][2] ELSE s.blocks[i]]]

\* The handler is over: the connection goes back, the transaction is closed.
Leave(t) ==
    /\ pc' = [pc EXCEPT ![t] = "ret"]
    /\ tx' = [tx EXCEPT ![t] = NoTx]
    /\ txOpen' = [txOpen EXCEPT ![conn[t]] = FALSE]
    /\ avail' = Released(conn[t])
    /\ conn' = [conn EXCEPT ![t] = NoConn]
    /\ UNCHANGED <<nextId, handles>>

\* PSQL_COMMIT( conn ); RELEASE( conn ); return res;
Commit(t) ==
    /\ pc[t] = "commit"
    /\ DOMAIN tx[t].upd = {} \/ Valid(t)
    /\ db' = Install(db, tx[t].upd)
    /\ Leave(t)
    /\ UNCHANGED ret

\* PSQL_COMMIT( conn ) when the database refuses the commit: the handler
\* answers EIO and nothing of the transaction is kept.
CommitFail(t) ==
    /\ pc[t] = "commit"
    /\ \/ DOMAIN tx[t].upd # {} /\ ~Valid(t)
       \/ "commit" \in Faults
    /\ ret' = [ret EXCEPT ![t] = [@ EXCEPT !.res = EIO, !.fh = 0, !.arg = NoArg]]
    /\ Leave(t)
    /\ UNCHANGED db

\* The kernel takes the answer.  It keeps the handle of a create or an open
\* that succeeded, and forgets the one it released.
Return(t) ==
    /\ pc[t] = "ret"
    /\ pc' = [pc EXCEPT ![t] = "idle"]
    /\ ret' = [ret EXCEPT ![t] = NoRet]
    /\ handles' = CASE ret[t].op \in {"create", "open"} /\ ret[t].res = 0
                         -> handles \cup {ret[t].fh}
                    [] ret[t].op = "release" -> handles \ {ret[t].fh}
                    [] OTHER -> handles
    /\ UNCHANGED <<db, nextId, avail, txOpen, conn, tx>>

-----------------------------------------------------------------------------
(* The handlers that use the database.  f is the call that fails in this   *)
(* invocation, "none" when none does.                                      *)

\* The answer of a call on the database: v, or EIO when it is the one that
\* fails.
Try(f, site, v) == IF f = site THEN EIO ELSE v

\* meta as create, mkdir and symlink fill it in.
NewMeta(kind, perm, owner, time, size) ==
    [kind |-> kind, perm |-> perm, owner |-> owner, size |-> size, times |-> time]

FgetattrOutcome(s, fh, f) ==
    LET id == Try(f, "read_meta", ReadMeta(s, fh))
    IN  IF id < 0 THEN Rollback(id) ELSE Work(s, {}, 0, 0)

Fgetattr(t) ==
    /\ "fgetattr" \in Ops
    /\ \E fh \in handles, f \in Sites({"read_meta"}) :
           Finish(t, "fgetattr", Arg(PathTo(db, fh), <<>>, 0), {fh}, FgetattrOutcome(db, fh, f))

GetattrOutcome(s, path, f) ==
    LET id == Try(f, "resolve", Resolve(s, path))
    IN  IF id < 0 THEN Rollback(id) ELSE Work(s, {}, 0, 0)

Getattr(t) ==
    /\ "getattr" \in Ops
    /\ \E path \in Paths, f \in Sites({"resolve"}) :
           Finish(t, "getattr", Arg(path, <<>>, 0), Trail(db, path), GetattrOutcome(db, path, f))

CreateOutcome(s, path, meta, new, f) ==
    LET id  == Try(f, "resolve", Resolve(s, path))
        pid == Try(f, "resolve_parent", Resolve(s, Front(path)))
        res == Try(f, "create", CreateResult(s, pid, Last(path)))
        s2  == CreateInode(s, new, pid, Last(path), meta)
        id2 == Try(f, "reread", Resolve(s2, path))
    IN  IF ReadOnly THEN Rollback(EROFS)
        ELSE IF id < 0 /\ id # ENOENT THEN Rollback(id)
        ELSE IF id >= 0 THEN Rollback(IF IsDir(s, id) THEN EISDIR ELSE EEXIST)
        ELSE IF f = "strdup" THEN Rollback(ENOMEM)
        ELSE IF pid < 0 THEN Rollback(pid)
        ELSE IF ~IsDir(s, pid) THEN Rollback(ENOENT)
        ELSE IF f = "strdup2" THEN Rollback(ENOMEM)
        ELSE IF res < 0 THEN Rollback(res)
        ELSE IF id2 < 0 THEN Rollback(res)      \* res is 0 here; fi->fh not set
        ELSE Work(s2, {new, pid}, res, id2)

Create(t) ==
    /\ "create" \in Ops
    /\ \E path \in Paths \ {<<>>}, perm \in Perms, owner \in Owners, time \in Times,
          f \in Sites({"resolve", "strdup", "resolve_parent", "strdup2", "create", "reread"}) :
           /\ nextId <= MaxId
           /\ Finish(t, "create", Arg(path, <<>>, 0), Trail(db, path) \cup {nextId},
                     CreateOutcome(db, path, NewMeta("reg", perm, owner, time, 0), nextId, f))

\* OpenOutcome without the S_ISDIR check.
OpenOutcome_AnyKind(s, path, wr, f) ==
    LET id == Try(f, "resolve", Resolve(s, path))
    IN  IF id < 0 THEN Rollback(id)
        ELSE IF ReadOnly /\ wr THEN Rollback(EROFS)
        ELSE Work(WriteMeta(s, id, MetaOf(s, id)), {id}, 0, id)

\* OpenOutcome, were a read-only mount to refuse every open.
OpenOutcome_NoRead(s, path, wr, f) ==
    LET id == Try(f, "resolve", Resolve(s, path))
    IN  IF id < 0 THEN Rollback(id)
        ELSE IF IsDir(s, id) THEN Rollback(EISDIR)
        ELSE IF ReadOnly THEN Rollback(EROFS)
        ELSE Work(WriteMeta(s, id, MetaOf(s, id)), {id}, 0, id)

\* wr: the access mode of fi->flags is not O_RDONLY.
OpenOutcome(s, path, wr, f) ==
    LET id  == Try(f, "resolve", Resolve(s, path))
        res == Try(f, "write_meta", 0)
    IN  IF id < 0 THEN Rollback(id)
        ELSE IF IsDir(s, id) THEN Rollback(EISDIR)
        ELSE IF ReadOnly /\ wr THEN Rollback(EROFS)
        ELSE IF res < 0 THEN Rollback(res)
        ELSE Work(WriteMeta(s, id, MetaOf(s, id)), {id}, 0, id)

Open(t) ==
    /\ "open" \in Ops
    /\ \E path \in Paths, wr \in BOOLEAN, f \in Sites({"resolve", "write_meta"}) :
           Finish(t, "open", [Arg(path, <<>>, 0) EXCEPT !.wr = wr], Trail(db, path),
                  OpenOutcome(db, path, wr, f))

\* psql_readdir lists the children of whatever inode the path names.
ReaddirOutcome(s, path, f) ==
    LET id  == Try(f, "resolve", Resolve(s, path))
        res == Try(f, "readdir", 0)
    IN  IF id < 0 THEN Rollback(id)
        ELSE IF res < 0 THEN Rollback(res)
        ELSE Work(s, {}, 0, 0)

Readdir(t) ==
    /\ "readdir" \in Ops
    /\ \E path \in Paths, f \in Sites({"resolve", "readdir"}) :
           Finish(t, "readdir", Arg(path, <<>>, 0), Trail(db, path), ReaddirOutcome(db, path, f))

\* MkdirOutcome without the look at what the parent is.
MkdirOutcome_AnyParent(s, path, meta, new, f) ==
    LET pid == Try(f, "resolve_parent", Resolve(s, Front(path)))
        res == Try(f, "create", CreateResult(s, pid, Last(path)))
    IN  IF pid < 0 THEN Rollback(pid)
        ELSE IF res < 0 THEN Rollback(res)
        ELSE Work(CreateInode(s, new, pid, Last(path), meta), {new, pid}, 0, 0)

MkdirOutcome(s, path, meta, new, f) ==
    LET pid == Try(f, "resolve_parent", Resolve(s, Front(path)))
        res == Try(f, "create", CreateResult(s, pid, Last(path)))
    IN  IF ReadOnly THEN Rollback(EROFS)
        ELSE IF f = "strdup" THEN Rollback(ENOMEM)
        ELSE IF pid < 0 THEN Rollback(pid)
        ELSE IF ~IsDir(s, pid) THEN Rollback(ENOENT)
        ELSE IF f = "strdup2" THEN Rollback(ENOMEM)
        ELSE IF res < 0 THEN Rollback(res)
        ELSE Work(CreateInode(s, new, pid, Last(path), meta), {new, pid}, 0, 0)

\* meta.mode = mode | S_IFDIR: a directory whatever the caller's mode says.
Mkdir(t) ==
    /\ "mkdir" \in Ops
    /\ \E path \in Paths \ {<<>>}, perm \in Perms, owner \in Owners, time \in Times,
          f \in Sites({"strdup", "resolve_parent", "strdup2", "create"}) :
           /\ nextId <= MaxId
           /\ Finish(t, "mkdir", Arg(path, <<>>, 0), Trail(db, Front(path)) \cup {nextId},
                     MkdirOutcome(db, path, NewMeta("dir", perm, owner, time, 0), nextId, f))

RmdirOutcome(s, path, f) ==
    LET id  == Try(f, "resolve", Resolve(s, path))
        res == Try(f, "delete", DeleteDirResult(s, id))
    IN  IF id < 0 THEN Rollback(id)
        ELSE IF ~IsDir(s, id) THEN Rollback(ENOTDIR)
        ELSE IF ReadOnly THEN Rollback(EROFS)
        ELSE IF res < 0 THEN Rollback(res)
        ELSE Work(DeleteInode(s, id), {id, s.inode[id].parent}, 0, 0)

Rmdir(t) ==
    /\ "rmdir" \in Ops
    /\ \E path \in Paths \ {<<>>}, f \in Sites({"resolve", "delete"}) :
           Finish(t, "rmdir", Arg(path, <<>>, 0), Trail(db, path), RmdirOutcome(db, path, f))

\* UnlinkOutcome without the S_ISDIR check.
UnlinkOutcome_AnyKind(s, path, f) ==
    LET id == Try(f, "resolve", Resolve(s, path))
    IN  IF id < 0 THEN Rollback(id)
        ELSE IF ReadOnly THEN Rollback(EROFS)
        ELSE Work(DeleteInode(s, id), {id, s.inode[id].parent}, 0, 0)

\* UnlinkOutcome with S_ISREG tested in the place of S_ISDIR: a symbolic
\* link cannot be removed.
UnlinkOutcome_RegOnly(s, path, f) ==
    LET id == Try(f, "resolve", Resolve(s, path))
    IN  IF id < 0 THEN Rollback(id)
        ELSE IF ~IsReg(s, id) THEN Rollback(EPERM)
        ELSE Work(DeleteInode(s, id), {id, s.inode[id].parent}, 0, 0)

UnlinkOutcome(s, path, f) ==
    LET id  == Try(f, "resolve", Resolve(s, path))
        res == Try(f, "delete", 0)
    IN  IF id < 0 THEN Rollback(id)
        ELSE IF IsDir(s, id) THEN Rollback(EPERM)
        ELSE IF ReadOnly THEN Rollback(EROFS)
        ELSE IF res < 0 THEN Rollback(res)
        ELSE Work(DeleteInode(s, id), {id, s.inode[id].parent}, 0, 0)

Unlink(t) ==
    /\ "unlink" \in Ops
    /\ \E path \in Paths \ {<<>>}, f \in Sites({"resolve", "delete"}) :
           Finish(t, "unlink", Arg(path, <<>>, 0), Trail(db, path), UnlinkOutcome(db, path, f))

\* NewSize, were the size never grown.
NewSize_Stale(old, offset, len) == old

\* NewSize, were the bytes written always added to the size.
NewSize_Sum(old, offset, len) == old + len

\* if( offset + size > meta.size ) meta.size = offset + size;
NewSize(old, offset, len) == IF offset + len > old THEN offset + len ELSE old

WriteOutcome(s, fh, offset, len, f) ==
    LET tmp  == Try(f, "read_meta", ReadMeta(s, fh))
        meta == [MetaOf(s, fh) EXCEPT !.size = NewSize(@, offset, len)]
        res  == Try(f, "write_buf", IF f = "short_write" THEN 0 ELSE len)
        res2 == Try(f, "write_meta", 0)
    IN  IF fh = 0 THEN Rollback(EBADF)
        ELSE IF ReadOnly THEN Rollback(EBADF)
        ELSE IF tmp < 0 THEN Rollback(tmp)
        ELSE IF res < 0 THEN Rollback(res)
        ELSE IF res # len THEN Rollback(EIO)
        ELSE IF res2 < 0 THEN Rollback(res2)
        ELSE Work(WriteMeta(WriteBuf(s, fh, offset, len), fh, meta), {fh}, len, 0)

\* A short write is one of fewer bytes than asked for: none when len = 0.
Write(t) ==
    /\ "write" \in Ops
    /\ \E fh \in handles, r \in Ranges :
           \E f \in Sites({"read_meta", "write_buf", "write_meta"}
                          \cup IF r[2] > 0 THEN {"short_write"} ELSE {}) :
               Finish(t, "write", Arg(PathTo(db, fh), <<>>, r[1] + r[2]), {fh},
                      WriteOutcome(db, fh, r[1], r[2], f))

ReadOutcome(s, fh, offset, len, f) ==
    LET res == Try(f, "read_buf", ReadBuf(s, fh, offset, len))
    IN  IF fh = 0 THEN Rollback(EBADF)
        ELSE IF res < 0 THEN Rollback(res)
        ELSE Work(s, {}, res, 0)

Read(t) ==
    /\ "read" \in Ops
    /\ \E fh \in handles, r \in Ranges, f \in Sites({"read_buf"}) :
           Finish(t, "read", Arg(PathTo(db, fh), <<>>, 0), {fh},
                  ReadOutcome(db, fh, r[1], r[2], f))

\* Shrink without meta.size = offset: the blocks go, the size stays.
Shrink_BlocksOnly(s, id, offset, f) ==
    Work(WriteMeta(Truncate(s, id, offset), id, MetaOf(s, id)), {id}, 0, 0)

\* psql_truncate, meta.size = offset, psql_write_meta: the tail of both
\* truncate and ftruncate.
Shrink(s, id, offset, f) ==
    LET res  == Try(f, "truncate", 0)
        res2 == Try(f, "write_meta", 0)
    IN  IF res < 0 THEN Rollback(res)
        ELSE IF res2 < 0 THEN Rollback(res2)
        ELSE Work(WriteMeta(Truncate(s, id, offset), id,
                            [MetaOf(s, id) EXCEPT !.size = offset]), {id}, 0, 0)

\* TruncateOutcome without the S_ISDIR check.
TruncateOutcome_AnyKind(s, path, offset, f) ==
    LET id == Try(f, "resolve", Resolve(s, path))
    IN  IF id < 0 THEN Rollback(id)
        ELSE IF ReadOnly THEN Rollback(EROFS)
        ELSE Shrink(s, id, offset, f)

TruncateOutcome(s, path, offset, f) ==
    LET id == Try(f, "resolve", Resolve(s, path))
    IN  IF id < 0 THEN Rollback(id)
        ELSE IF IsDir(s, id) THEN Rollback(EISDIR)
        ELSE IF ReadOnly THEN Rollback(EROFS)
        ELSE Shrink(s, id, offset, f)

TruncateOp(t) ==
    /\ "truncate" \in Ops
    /\ \E path \in Paths, offset \in 0..MaxSize,
          f \in Sites({"resolve", "truncate", "write_meta"}) :
           Finish(t, "truncate", Arg(path, <<>>, offset), Trail(db, path),
                  TruncateOutcome(db, path, offset, f))

FtruncateOutcome(s, fh, offset, f) ==
    LET id == Try(f, "read_meta", ReadMeta(s, fh))
    IN  IF fh = 0 THEN Rollback(EBADF)
        ELSE IF id < 0 THEN Rollback(id)
        ELSE IF ReadOnly THEN Rollback(EROFS)
        ELSE Shrink(s, fh, offset, f)

Ftruncate(t) ==
    /\ "ftruncate" \in Ops
    /\ \E fh \in handles, offset \in 0..MaxSize,
          f \in Sites({"read_meta", "truncate", "write_meta"}) :
           Finish(t, "ftruncate", Arg(PathTo(db, fh), <<>>, offset), {fh},
                  FtruncateOutcome(db, fh, offset, f))

\* The two early returns of statfs have no PSQL_ROLLBACK and no RELEASE;
\* statfs(2) answers -1, which is what the handler then returns.
StatfsOutcome(s, f) ==
    IF f = "tablespace" THEN Leak(EIO)
    ELSE IF f = "hostfs" THEN Leak(-1)
    ELSE IF f = "blocks_used" THEN Rollback(EIO)
    ELSE IF f = "files_used" THEN Rollback(EIO)
    ELSE Work(s, {}, 0, 0)

Statfs(t) ==
    /\ "statfs" \in Ops
    /\ \E f \in Sites({"tablespace", "hostfs", "blocks_used", "files_used"}) :
           Finish(t, "statfs", NoArg, {}, StatfsOutcome(db, f))

\* chmod, chown and utimens: read the meta, change some of it, write it.
SetMeta(s, id, meta, f) ==
    LET res == Try(f, "write_meta", 0)
    IN  IF res < 0 THEN Rollback(res) ELSE Work(WriteMeta(s, id, meta), {id}, 0, 0)

\* ChmodOutcome without the read_only check.
ChmodOutcome_Unchecked(s, path, perm, f) ==
    LET id == Try(f, "resolve", Resolve(s, path))
    IN  IF id < 0 THEN Rollback(id)
        ELSE SetMeta(s, id, [MetaOf(s, id) EXCEPT !.perm = perm], f)

\* The kernel hands chmod the file type bits it got from getattr: meta.mode
\* = mode keeps the kind.
ChmodOutcome(s, path, perm, f) ==
    LET id == Try(f, "resolve", Resolve(s, path))
    IN  IF id < 0 THEN Rollback(id)
        ELSE IF ReadOnly THEN Rollback(EROFS)
        ELSE SetMeta(s, id, [MetaOf(s, id) EXCEPT !.perm = perm], f)

Chmod(t) ==
    /\ "chmod" \in Ops
    /\ \E path \in Paths, perm \in Perms, f \in Sites({"resolve", "write_meta"}) :
           Finish(t, "chmod", Arg(path, <<>>, 0), Trail(db, path),
                  ChmodOutcome(db, path, perm, f))

ChownOutcome(s, path, owner, f) ==
    LET id == Try(f, "resolve", Resolve(s, path))
    IN  IF id < 0 THEN Rollback(id)
        ELSE IF ReadOnly THEN Rollback(EROFS)
        ELSE SetMeta(s, id, [MetaOf(s, id) EXCEPT !.owner = owner], f)

Chown(t) ==
    /\ "chown" \in Ops
    /\ \E path \in Paths, owner \in Owners, f \in Sites({"resolve", "write_meta"}) :
           Finish(t, "chown", Arg(path, <<>>, 0), Trail(db, path),
                  ChownOutcome(db, path, owner, f))

\* utimens does not look at data->read_only.
UtimensOutcome(s, path, time, f) ==
    LET id == Try(f, "resolve", Resolve(s, path))
    IN  IF id < 0 THEN Rollback(id)
        ELSE SetMeta(s, id, [MetaOf(s, id) EXCEPT !.times = time], f)

Utimens(t) ==
    /\ "utimens" \in Ops
    /\ \E path \in Paths, time \in Times, f \in Sites({"resolve", "write_meta"}) :
           Finish(t, "utimens", Arg(path, <<>>, 0), Trail(db, path),
                  UtimensOutcome(db, path, time, f))

\* len: strlen( from ), the size of the link and the bytes written to it.
SymlinkOutcome(s, to, meta, new, f) ==
    LET pid  == Try(f, "resolve_parent", Resolve(s, Front(to)))
        res  == Try(f, "create", CreateResult(s, pid, Last(to)))
        s2   == CreateInode(s, new, pid, Last(to), meta)
        id   == Try(f, "reread", Resolve(s2, to))
        wres == Try(f, "write_buf", IF f = "short_write" THEN 0 ELSE meta.size)
    IN  IF f = "strdup" THEN Rollback(ENOMEM)
        ELSE IF pid < 0 THEN Rollback(pid)
        ELSE IF ~IsDir(s, pid) THEN Rollback(ENOENT)
        ELSE IF f = "strdup2" THEN Rollback(ENOMEM)
        ELSE IF ReadOnly THEN Rollback(EROFS)
        ELSE IF res < 0 THEN Rollback(res)
        ELSE IF id < 0 THEN Rollback(id)
        ELSE IF wres < 0 THEN Rollback(wres)
        ELSE IF wres # meta.size THEN Rollback(EIO)
        ELSE Work(WriteBuf(s2, id, 0, meta.size), {new, pid}, 0, 0)

Symlink(t) ==
    /\ "symlink" \in Ops
    /\ \E to \in Paths \ {<<>>}, len \in 1..MaxSize, owner \in Owners, time \in Times,
          f \in Sites({"strdup", "resolve_parent", "strdup2", "create", "reread",
                       "write_buf", "short_write"}) :
           /\ nextId <= MaxId
           /\ Finish(t, "symlink", Arg(to, <<>>, len), Trail(db, Front(to)) \cup {nextId},
                     SymlinkOutcome(db, to, NewMeta("lnk", Perm0777, owner, time, len),
                                    nextId, f))

\* RenameOutcome, were psql_rename given the directory from lies in and not
\* the one of to.
RenameOutcome_KeepsParent(s, from, to, f) ==
    LET from_id == Try(f, "resolve", Resolve(s, from))
        to_id   == Try(f, "resolve_to", Resolve(s, to))
        pid     == Try(f, "resolve_parent", Resolve(s, Front(to)))
    IN  IF from_id < 0 THEN Leak(from_id)
        ELSE IF to_id # ENOENT THEN Leak(EINVAL)
        ELSE IF pid < 0 THEN Rollback(pid)
        ELSE IF ~IsDir(s, pid) THEN Rollback(EIO)
        ELSE Work(RenameInode(s, from_id, s.inode[from_id].parent, Last(to)),
                  {from_id}, 0, 0)

\* RenameOutcome without the strcmp of from and to: a file renamed to its
\* own name is refused as one that would overwrite another.
RenameOutcome_NoSelf(s, from, to, f) ==
    LET from_id == Try(f, "resolve", Resolve(s, from))
        to_id   == Try(f, "resolve_to", Resolve(s, to))
        pid     == Try(f, "resolve_parent", Resolve(s, Front(to)))
    IN  IF from_id < 0 THEN Leak(from_id)
        ELSE IF to_id > 0 THEN Leak(IF IsReg(s, to_id) THEN EEXIST ELSE EINVAL)
        ELSE IF pid < 0 THEN Rollback(pid)
        ELSE IF ~IsDir(s, pid) THEN Rollback(EIO)
        ELSE Work(RenameInode(s, from_id, pid, Last(to)), {from_id}, 0, 0)

\* The returns before the strdup leave without PSQL_ROLLBACK and RELEASE.
\* The result of psql_rename does not stop the commit.
RenameOutcome(s, from, to, f) ==
    LET from_id == Try(f, "resolve", Resolve(s, from))
        to_id   == Try(f, "resolve_to", Resolve(s, to))
        pid     == Try(f, "resolve_parent", Resolve(s, Front(to)))
        res     == Try(f, "rename", 0)
    IN  IF from_id < 0 THEN Leak(from_id)
        ELSE IF to_id < 0 /\ to_id # ENOENT THEN Leak(to_id)
        ELSE IF to_id > 0 /\ IsReg(s, to_id) THEN Leak(IF from = to THEN 0 ELSE EEXIST)
        ELSE IF to_id > 0 THEN Leak(EINVAL)
        ELSE IF f = "strdup" THEN Rollback(ENOMEM)
        ELSE IF pid < 0 THEN Rollback(pid)
        ELSE IF ~IsDir(s, pid) THEN Rollback(EIO)
        ELSE IF f = "strdup2" THEN Rollback(ENOMEM)
        ELSE IF ReadOnly THEN Rollback(EROFS)
        ELSE IF res < 0 THEN Work(s, {}, res, 0)
        ELSE Work(RenameInode(s, from_id, pid, Last(to)), {from_id}, 0, 0)

Rename(t) ==
    /\ "rename" \in Ops
    /\ \E from \in Paths \ {<<>>}, to \in Paths \ {<<>>},
          f \in Sites({"resolve", "resolve_to", "strdup", "resolve_parent", "strdup2",
                       "rename"}) :
           /\ ~IsStrictPrefix(from, to)  \* the kernel refuses to move a directory below itself
           /\ Finish(t, "rename", Arg(from, to, 0), Trail(db, from) \cup Trail(db, to),
                     RenameOutcome(db, from, to, f))

\* size: the caller's buffer.
ReadlinkOutcome(s, path, size, f) ==
    LET id  == Try(f, "resolve", Resolve(s, path))
        res == Try(f, "read_buf", ReadBuf(s, id, 0, s.inode[id].size))
    IN  IF id < 0 THEN Rollback(id)
        ELSE IF ~IsLnk(s, id) THEN Rollback(ENOENT)
        ELSE IF size < s.inode[id].size + 1 THEN Rollback(ENOMEM)
        ELSE IF res < 0 THEN Rollback(res)
        ELSE Work(s, {}, 0, 0)

Readlink(t) ==
    /\ "readlink" \in Ops
    /\ \E path \in Paths, size \in 0..(MaxSize + 1), f \in Sites({"resolve", "read_buf"}) :
           Finish(t, "readlink", Arg(path, <<>>, 0), Trail(db, path),
                  ReadlinkOutcome(db, path, size, f))

-----------------------------------------------------------------------------
(* The handlers that do not use the database.                              *)

Access(t)     == "access" \in Ops /\ Answer(t, "access", 0, 0)
Opendir(t)    == "opendir" \in Ops /\ Answer(t, "opendir", 0, 0)
Releasedir(t) == "releasedir" \in Ops /\ Answer(t, "releasedir", 0, 0)
Fsyncdir(t)   == "fsyncdir" \in Ops /\ Answer(t, "fsyncdir", 0, 0)
Flush(t)      == "flush" \in Ops /\ \E fh \in handles : Answer(t, "flush", 0, fh)
Release(t)    == "release" \in Ops /\ \E fh \in handles : Answer(t, "release", 0, fh)

\* fsync looks at the mount and at the handle, and does nothing.
FsyncResult(fh) == IF ReadOnly THEN EROFS ELSE IF fh = 0 THEN EBADF ELSE 0

Fsync(t) ==
    /\ "fsync" \in Ops
    /\ \E fh \in handles : Answer(t, "fsync", FsyncResult(fh), fh)

-----------------------------------------------------------------------------
(* The specification.                                                      *)

\* pgfuse_init: the pool of the multi-threaded mode, or the one connection.
\* The sequence stands past every id in use.
Init ==
    /\ db \in InitialDbs
    /\ nextId = 1 + Max({i \in Ids : Exists(db, i)})
    /\ avail = IF MultiThreaded THEN Conns ELSE {}
    /\ txOpen = [c \in Conns |-> FALSE]
    /\ pc = [t \in Threads |-> "idle"]
    /\ conn = [t \in Threads |-> NoConn]
    /\ tx = [t \in Threads |-> NoTx]
    /\ ret = [t \in Threads |-> NoRet]
    /\ handles = {}

\* The handlers that run on a connection, between ACQUIRE and PSQL_COMMIT.
Handler(t) ==
    \/ Getattr(t) \/ Fgetattr(t) \/ Readlink(t) \/ Readdir(t) \/ Read(t)
    \/ Create(t) \/ Mkdir(t) \/ Symlink(t) \/ Open(t)
    \/ Unlink(t) \/ Rmdir(t) \/ Rename(t)
    \/ Write(t) \/ TruncateOp(t) \/ Ftruncate(t)
    \/ Chmod(t) \/ Chown(t) \/ Utimens(t) \/ Statfs(t)

\* pgfuse_oper: what a thread of the FUSE loop may do next.
Next ==
    \E t \in Threads :
        \/ Acquire(t) \/ AcquireFail(t) \/ Handler(t)
        \/ Commit(t) \/ CommitFail(t) \/ Return(t)
        \/ Access(t) \/ Opendir(t) \/ Releasedir(t) \/ Fsyncdir(t)
        \/ Flush(t) \/ Release(t) \/ Fsync(t)

Spec == Init /\ [][Next]_vars

\* A handler that has its connection goes on to its return: the thread is
\* scheduled, the database answers each statement, the kernel takes the
\* answer.  Nothing makes a new call arrive, and nothing promises a thread
\* that waits in psql_pool_acquire that it is the one to get the connection.
FairSpec ==
    Spec /\ \A t \in Threads : WF_vars(Handler(t) \/ Commit(t) \/ CommitFail(t) \/ Return(t))

-----------------------------------------------------------------------------
(* Properties.                                                             *)

Results == Errors \cup (0..MaxSize)

\* The type invariant: every variable holds a value of its kind.
TypeOK ==
    /\ db \in Database
    /\ nextId \in 1..(MaxId + 1)
    /\ avail \subseteq Conns
    /\ txOpen \in [Conns -> BOOLEAN]
    /\ pc \in [Threads -> {"idle", "begun", "commit", "ret"}]
    /\ conn \in [Threads -> Conns \cup {NoConn}]
    /\ \A t \in Threads :
        /\ DOMAIN tx[t].upd \subseteq DOMAIN tx[t].seen
        /\ DOMAIN tx[t].seen \subseteq Ids
        /\ ret[t].res \in Results /\ ret[t].fh \in Ids
    /\ handles \subseteq Ids

\* Data invariant 4: a file of size S has no block at or past ceil(S / B),
\* and an inode that is gone has none.  write grows the size it read before
\* it stores the blocks, truncate deletes blocks and sets the size, and the
\* two may run on the same file from two threads.
BlocksWithinSize ==
    \A i \in Ids :
        IF Exists(db, i)
        THEN \A b \in db.blocks[i] : b * BlockSize < db.inode[i].size
        ELSE db.blocks[i] = {}

\* Data invariant 3: the size of a directory is the number of its children.
\* create, mkdir, symlink, unlink and rmdir each change a child and the
\* count in the parent, and two of them may work in one directory at once.
DirSizeIsChildCount ==
    \A d \in Ids :
        Exists(db, d) /\ IsDir(db, d) => db.inode[d].size = Cardinality(Children(db, d))

\* The inodes that lead from i up to the root, i included.
RECURSIVE Ancestors(_, _, _)
Ancestors(s, i, n) ==
    IF n = 0 \/ ~Exists(s, i) THEN {}
    ELSE {i} \cup Ancestors(s, s.inode[i].parent, n - 1)

\* Data invariants 1 and 2: the root is the one inode that is its own
\* parent, every other inode lies in a directory that exists, under a name
\* no sibling has, and the root is reached from it.  rmdir and unlink take
\* an inode away while create, mkdir, symlink and rename put one below it.
TreeWellFormed ==
    /\ Exists(db, RootId) /\ IsDir(db, RootId) /\ db.inode[RootId].parent = RootId
    /\ \A i \in FileIds : Exists(db, i) =>
        /\ db.inode[i].parent # i
        /\ Exists(db, db.inode[i].parent) /\ IsDir(db, db.inode[i].parent)
        /\ RootId \in Ancestors(db, i, MaxId + 1)
        /\ \A j \in FileIds \ {i} :
            Exists(db, j) /\ db.inode[j].parent = db.inode[i].parent
                => db.inode[j].name # db.inode[i].name

\* The threads that are inside a handler with connection c.
Holders(c) == {t \in Threads : conn[t] = c}

\* Every path that returns from a handler has released the connection and
\* ended the transaction: a connection is in the pool or with a handler
\* that is running, and a transaction is open only on a connection a
\* running handler holds.
ExitDiscipline ==
    /\ \A t \in Threads : pc[t] \in {"idle", "ret"} => conn[t] = NoConn
    /\ \A c \in Conns :
        /\ MultiThreaded => c \in avail \/ Holders(c) # {}
        /\ txOpen[c] => Holders(c) # {}

\* A handle the kernel holds came from fi->fh = id in create or open, which
\* both refuse a directory: it is never 0, the root, and never names a
\* directory.
HandlesNameFiles ==
    \A h \in handles : h # RootId /\ (Exists(db, h) => ~IsDir(db, h))

\* The pool does not run dry for good: a connection a handler borrowed is
\* back in the pool later, whichever way the handler left (PSQL_COMMIT or
\* PSQL_ROLLBACK, then RELEASE), so that a thread waiting in
\* psql_pool_acquire for the last connection is woken.
ConnectionsComeBack ==
    MultiThreaded => \A c \in Conns : c \notin avail ~> c \in avail

\* The handlers implement the file system of section 4.4: whatever the
\* threads do between ACQUIRE and RELEASE, every operation that answers
\* success has changed, at the moment of its PSQL_COMMIT, exactly what its
\* arguments name (the path created or removed, both paths of pgfuse_rename,
\* the size pgfuse_truncate was given, the end of the range pgfuse_write
\* wrote), and every operation that answers an error has changed nothing.
\* The work of a handler is done on the snapshot of its transaction, and
\* the commit is what makes it the work of one instant.
RefinesAbstractFs == AFS!Spec

\* A handler refuses a call only when the tree does not allow it, and
\* carries out only what the tree allows: but when the database or the
\* memory failed, the answer is success exactly when the tree, as the
\* transaction read it, allowed what was asked.  This is the ladder of early
\* returns of every handler (the look-ups, the S_ISDIR and S_ISREG tests,
\* EEXIST, ENOTEMPTY, the tests of data->read_only) held against what
\* AbstractFs says the operation needs.
RefusedIffImpossible ==
    \A t \in Threads :
        Verdict(ret[t].res) # "failed" => (ret[t].res >= 0 <=> ret[t].allowed)

\* On a read-only mount no handler changes the database (the ro checks of
\* the mutating handlers).
ReadOnlyMountUnchanged == [][ReadOnly => db' = db]_vars

\* On a read-only mount write answers EROFS, as every mutation does (the
\* read_only check of pgfuse_write).
WriteOnReadOnlyAnswersEROFS ==
    ReadOnly => \A t \in Threads : ret[t].op = "write" => ret[t].res = EROFS

=============================================================================
