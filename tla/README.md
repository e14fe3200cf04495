# Model checking pgfuse

pgfuse is a FUSE file system that keeps every file, directory and symbolic
link in a PostgreSQL database. This directory holds TLA+ models of it, the TLC
configurations that check them, and `PROJECT.json`, which lists the runs, the
source lines each definition models, the findings and the hazards.

Run a configuration with `tlc -workers 2 -config Tree.cfg MCPgFuse`, those
of the free-space estimate with `tlc -workers 2 -config StatFs.cfg MCStatFs`,
the one of the mount with `tlc -workers 2 -config Mount.cfg MCPgMount`, and
the one of the bytes with `tlc -workers 2 -config Blocks.cfg MCPgBlocks`.

## 1. The system

| Part | Where | State | Operations |
|---|---|---|---|
| Operation dispatcher | `src/pgfuse.c` 157-1506 | none of its own; `fi->fh` held by the kernel | the 26 handlers of `pgfuse_oper` |
| Connection use | `src/pgfuse.c` 85-106 | `data->conn` or `data->pool` | `psql_acquire`, `psql_release`, `ACQUIRE`, `RELEASE` |
| Mount lifecycle | `src/pgfuse.c` 112-155, 1615-1714 | `PgFuseData` | `main`, `pgfuse_init`, `pgfuse_destroy` |
| Options | `src/pgfuse.c` 1508-1611 | `PgFuseData` | `pgfuse_opt_proc`, `print_usage` |
| Free-space estimate | `src/pgfuse.c` 938-1097 | none | `pgfuse_statfs` |
| Connection pool | `pool.c` (not in `src/`) | slots, mutex, condition | init, acquire, release, destroy |
| Database access layer | `pgsql.c` (not in `src/`) | the inode and block tables | `psql_*` |
| Block engine | `pgsql.c` (not in `src/`) | the block table | `psql_read_buf`, `psql_write_buf`, `psql_truncate` |
| Path resolver | `pgsql.c` (not in `src/`) | none | `psql_read_meta_from_path` |

Every handler has the same shape: `ACQUIRE` a connection, `PSQL_BEGIN`, a
sequence of database calls with an early return after each one that can fail,
`PSQL_COMMIT` or `PSQL_ROLLBACK`, `RELEASE`. Handlers run concurrently on the
threads of the FUSE loop; they share nothing but the pool and the database,
and the database runs their transactions at the serializable level.

What is hard in it:

* two handlers reading and rewriting the same row (the metadata of a file, the
  child count of a directory), and a directory emptied, removed or moved while
  another handler works inside it;
* more than a hundred return statements, each of which has to end the
  transaction and give the connection back; a connection that is not given back
  is gone, and a pool without connections blocks every thread;
* one call of several failing (the look-up after a create, the write after the
  creation of a symbolic link, the commit itself);
* handles the kernel keeps while the file is unlinked by another thread;
* bytes kept in blocks while the size is kept in the inode, by two layers
  that each do half: a write that starts inside one block and ends inside
  another, a hole, a file cut inside a block and grown again;
* the read-only mount, which every mutating handler has to test for itself;
* the way from the command line to the mount: options with two readers
  (pgfuse and FUSE), a preflight on a connection that is closed before the
  real ones are opened, and six ways out of `main`.

What makes it correct (data invariants of the specification and section 5):
a directory's size is the number of its children; names are unique within a
directory; every inode hangs below the root; no block lies past the size of
its file; every exit leaves no transaction open and no connection held; a
read-only mount never changes the database.

## 2. Modules

| Module | Models | From |
|---|---|---|
| `PgDb` | the database as a value `[inode, blocks]` and the `psql_*` accessors, the path resolver and the block engine as operators on it | the interface description (`pgsql.c` is not among the sources) |
| `PgFuse` | the handlers, the connection discipline, the transactions, the handles of the kernel | `src/pgfuse.c` |
| `AbstractFs` | what the handlers promise: a tree of names on which each call takes effect at one instant or not at all | section 4.4 of the specification |
| `MCPgFuse` | the seed databases and the symmetry set of the runs | |
| `PgMount` | `main`, the option table, `pgfuse_opt_proc`, the preflight, `pgfuse_init`, `pgfuse_destroy` | `src/pgfuse.c` 112-155, 1510-1714 |
| `MCPgMount` | the command lines and the databases of the run of `PgMount` | |
| `StatFs` | the free-space estimate of `pgfuse_statfs`: the walk over the mount table and the arithmetic on the counts | `src/pgfuse.c` 938-1097 |
| `MCStatFs` | the hosts (directories, tablespaces, file systems) of the runs of `StatFs` | |
| `PgBlocks` | the bytes of one name: the size in the inode and the rows of its blocks, under create, symlink, write, read, truncate, readlink and unlink | the handlers from `src/pgfuse.c`, `psql_read_buf`, `psql_write_buf` and `psql_truncate` from the description of the block engine |
| `AbstractFile` | what those calls promise: a flat array of bytes, or the target of a link | sections 4.3, 4.4 and 8 of the specification |
| `MCPgBlocks` | the byte values of the run of `PgBlocks` | |

### State

| Variable | Code |
|---|---|
| `db` | the committed contents of the inode and block tables |
| `nextId` | the sequence new inodes take their id from |
| `avail` | the free connections of `data->pool` (empty in `-s` mode) |
| `txOpen[c]` | connection `c` is between `BEGIN` and `COMMIT`/`ROLLBACK` |
| `pc[t]`, `conn[t]` | where thread `t` is in its handler, and its local `conn` |
| `tx[t]` | the transaction of `t`: what it read and what it will write |
| `ret[t]` | the value the handler returns and the handle it set; for the properties, the arguments it was called with (`arg`, kept with an answer of success) and whether the tree allowed the call (`allowed`) |
| `handles` | the `fi->fh` values the kernel holds between create/open and release |

### Actions

A call is four steps, so that the calls of two threads interleave where they
do in the program:

1. `Acquire(t)` - `ACQUIRE`: `psql_acquire` hands out `data->conn` in `-s`
   mode and a free connection of the pool otherwise; with no free connection
   the action is not enabled (the thread blocks). `AcquireFail` is the `NULL`
   answer, `-EIO`.
2. One action per handler (`Create(t)`, `Write(t)`, ...): the whole body
   between `PSQL_BEGIN` and the last statement, evaluated on the snapshot the
   transaction reads. Each `...Outcome` operator is the ladder of the handler's
   tests in the order of the code and yields a record: the result, the handle,
   the rows to write, and how the handler leaves (`Work` - commit and release,
   `Rollback` - rollback and release, `Leak` - neither). The arguments of the
   call and the one call that fails (`f`) are chosen with `\E`.
3. `Commit(t)` / `CommitFail(t)` - `PSQL_COMMIT`: the rows are installed if no
   inode the transaction read has changed since; otherwise the commit fails and
   the handler answers `-EIO`.
4. `Return(t)` - the answer reaches the kernel, which records or forgets the
   handle.

`Access`, `Opendir`, `Releasedir`, `Fsyncdir`, `Flush`, `Release` and `Fsync`
touch no connection and are one step each.

### AbstractFs and the refinement

`AbstractFs` knows nothing of inodes, connections or transactions. Its state
is `tree`, what every path names (nothing, a directory, or a file or link of
some size), and `call`, where each caller is: idle, pending, or done with an
operation, its verdict and, with a verdict of success, what was asked for
(`arg`: the path, the second path of rename, the size or the end of the
range written, whether an open is for writing).

Two operators say what the specification promises of each operation
(sections 4.4 and 7):

* `Possible(op, arg)` - the operation can be carried out: the tree has what
  it needs (`Fits`: create, mkdir and symlink need a free name in a
  directory; unlink, open, truncate and the calls on a handle need a file or
  a link; rmdir an empty directory that is not the root; rename a source
  that exists and a destination that is free and outside it, or a regular
  file renamed to its own name; readlink a link; the others a path that
  exists), and the mount lets it (on a read-only mount nothing that writes:
  `Writes`).
* `After(op, arg)` - the tree it leaves: a new node at `arg.path`, the node
  at `arg.path` gone, the subtree at `arg.path` now at `arg.to`, the file
  with the size `arg.size`, or grown to the end of the range written and
  never shrunk.

`Succeed(t)` is a step from a tree on which the call is `Possible` to the
tree `After` it. A call on a handle names no path the tree knows: for
ftruncate and write some file is resized. Every other operation leaves the
tree as it is, and so does `Fail(t)`.

`PgFuse` implements it under this mapping:

* `tree <- TreeOf(db)`: each path is resolved in the committed database with
  the path resolver. What a transaction has written and not committed is not
  in the tree.
* `call <- CallOf(t)`: `idle` and `ret` are idle and done, with the sign of
  the answer as the verdict and the arguments the handler was called with
  (`ret[t].arg`, which `Finish` keeps when an operation that changes the
  tree answers success); everything in between is pending.
* `MaxDepth <- MaxId`: the abstract tree holds every path of up to `MaxId`
  components, not only the paths the operations name, because rename nests
  directories deeper than the paths of the calls; `MaxId` inodes make no
  path longer than that, so a moved subtree never leaves the tree.

`RefinesAbstractFs` is `AbstractFs!Spec` under this mapping. Every step of
`PgFuse` has to be a step of `AbstractFs` or leave `tree` and `call` alone:
`Acquire` is `Invoke`, a handler's body changes nothing visible, `Commit` is
`Succeed` or, after an error answer, `Fail`, and `CommitFail` is `Fail`.
Because the answer carries the arguments, a handler that changes another
path than the one it was given, or leaves another size than the one it was
asked for, is not a step of `AbstractFs` even where the change it made is one
some other call could have made. The bytes of a file are the subject of
`PgBlocks`.

The errors are held against the same specification by
`RefusedIffImpossible`. The body of a handler reads one snapshot, so its
answer is decided at one instant; `Finish` records with the answer whether
`AbstractFs!Possible` held of the call and the tree at that instant
(`ret[t].allowed`; `PathTo` gives the path of the file a handle names, for
the calls on a handle). `Verdict` sorts the answers: success, `failed`
(`-EIO`, `-ENOMEM`: the database or the memory, which may fail any call) and
`refused` (every other error). A call that did not fail must have succeeded
exactly when it was possible. Recording the verdict of `Possible` and not
the arguments of every refused call keeps the state space where it was: a
refused call differs from another only in its error.

### PgMount

One process from `argv` to `exit`. The state is the local variables of
`main` (`pgfuse`, `userdata`, `conn`), the arguments still to be parsed and
those kept for `fuse_main` (`args`, `outargs`), `data->conn` or `data->pool`
as `link`, whether the mount point shows the file system (`mounted`), and the
exit code.

| Action | Code |
|---|---|
| `StoreOption` | `fuse_opt_parse` stores `ro` or `blocksize=%d` into the field the table names, an `int` written into a `size_t` (`Stored`) |
| `CallProc` | `fuse_opt_parse` hands any other argument to `pgfuse_opt_proc` (`OptProc`), which keeps it for FUSE (1), drops it (0) or ends the parsing (-1) |
| `ParseFailed`, `MissingConninfo` | the exits at 1629-1650 |
| `Connect`, `Datetimes`, `BlockSize` | the preflight, each with its `PQfinish` and its way out; `BlockSize` ends with the `PgFuseData` the handlers get |
| `FuseMain` | `fuse_main` mounts or fails |
| `FuseInit` | `pgfuse_init`: the connection or the pool, or `exit( EXIT_FAILURE )` inside the hook, which leaves the mount in place |
| `FuseDestroy`, `Leave` | `pgfuse_destroy`, then `closelog` and `exit( res )` with what `fuse_main` returned: 0 or, when its loop failed, another code (`LoopResults`) |

`fuse_opt_parse` and `fuse_main` are not among the sources. Of the first the
model keeps its contract with the table and the procedure; of the second that
it mounts on the mount point among its arguments, calls the two hooks, and
runs its loop on one thread when `-s` is among its arguments
(`LoopThreaded`). The database of the preflight is a record of what it
answers to the two questions, chosen in `Init`; `psql_get_block_size` may
also fail.

### StatFs

`PgFuse` has `pgfuse_statfs` as a handler like the others: its failing calls
and how each of them leaves. `StatFs` has what the handler computes. Its state
is the local variables of the function: `mtab` and `pos` (the mount table and
the entry `getmntent_r` returns next), `location` (the tablespace directories
after `realpath`), `blocks_free`, `blocks_avail`, `buf`, and `counted`, which
remembers what the database answered. One iteration of the `while` loop is one
step: `SkipEntry` (the two `continue`), `FoldEntry` (the reset of the minimum
and the two comparisons), `HostFails` (the `return` inside the loop);
`PrefixFails` (the `strdup` of the mount point answers `NULL`, after the
minimum was set back and before the `continue` at 1010); `Locate`,
`TablespaceFails`, `EndOfTable`, `CountFails` and `Fill` are the code before
and after the loop. `MtabMissing` is `setmntent` answering `NULL`: the result
goes to `getmntent_r` untested, and the process ends in the C library
(`pc = "crashed"`). `opens` says whether the table can be opened, `nomem`
whether a `strdup` of this call has failed.

* A directory is its path as a sequence of characters, so that
  `strncmp( mnt_dir, location, strlen( mnt_dir ) )` is `IsPrefix` and `/a`
  matches `/ab` as it does in the program.
* `int64_t`, `size_t` and the fields of `struct statvfs` have `Width` bits.
  Products and sums of unsigned operands are taken modulo `2^Width`; the
  signed sums at lines 1049 and 1064 overflow, which is undefined in C, and
  are modelled by the wrap-around every build of the program produces.
* The mount table and the answers of `statfs(2)` are chosen in `Init`: every
  table of up to `MaxMounts` entries over the directories of the host.

### PgBlocks, AbstractFile and the refinement

`PgFuse` keeps of a file its size and the numbers of the blocks that have a
row. `PgBlocks` keeps the bytes, of one name, with one call per step. Its
state is `kind` (no inode, a regular file or a link), `size`, `blocks` (the
row of each stored block, `BlockSize` bytes each), and `req` and `out`, the
call and what it returned to the caller: the return value and the bytes in
the caller's buffer.

| Definition | Code |
|---|---|
| `ReadBuf` | `psql_read_buf`: clamps to the size, then goes block by block; a block without a row gives zeros |
| `WriteBuf`, `Overlaid` | `psql_write_buf`: a block the range covers is replaced, every other one is fetched (or made of zeros), overlaid and stored whole; it does not know the size |
| `Truncate` | `psql_truncate`: deletes the blocks past the new end and zeroes the rest of the block the end falls in |
| `Write`, `NewSize` | `pgfuse_write` 766-796: the size read, grown when the write ends past it, the bytes, the size written |
| `Read` | `pgfuse_read` 820-828 |
| `TruncateOp` | the tail of `pgfuse_truncate` (868-883) and of `pgfuse_ftruncate` |
| `Create`, `Unlink` | `psql_create_file` with size 0; `psql_delete_file` with the blocks |
| `Symlink`, `Readlink` | the target written at offset 0 under size `strlen( from )`; `size` bytes read back and closed with a zero at `buf[meta.size]` |

Each handler takes `failed`: one of the database calls it makes fails in
this invocation, and the handler rolls back. Which call it is, with which
error, and how the handler then leaves, is the subject of `PgFuse`, which
has the ladders exit by exit; so are the tests that come before the lines
named here (the `read_only` tests at 309, 761, 863 and 1234, the `EISDIR`
test of truncate, the look-up of the parent in create and symlink). No
property of `PgBlocks` reads an error code: a refused or failed call is a
call that changed nothing.

`AbstractFile` has the flat file: `file` is nothing, `[kind |-> "reg", bytes]`
or `[kind |-> "lnk", bytes]`; write is `Patched`, truncate `Resized`, read
`Slice`. `PgBlocks` implements it under `file <- Content`, the first `size`
bytes of the blocks laid end to end with zeros where a row is missing,
`call <- req`, and `reply <-` the sign and count of `out.res` with `out.data`.
Because the reply is part of the mapping, `RefinesAbstractFile` also says
that every read and readlink returns the bytes of the flat file.

`WriteBuf` and `Truncate` of `PgBlocks` and of `PgDb` are both written from
the description of the block engine (4.3), the first with the bytes, the
second with the block numbers only. They are not held against each other:
a property comparing two definitions of this project would say nothing of
the code.

### Abstractions and assumptions

* Data is abstract: names, permission bits, owners and times are members of
  small sets; in `PgFuse` a file is its size and the set of block numbers
  that have a row. The bytes are in `PgBlocks`, for one name and without the
  interleaving, which `PgFuse` shows to be that of one transaction after
  another.
* write, read and truncate reach regular files only: the kernel follows a
  link before it calls them. The handlers do not test for a link.
* The root directory has id 0 (the handlers treat `to_id > 0` as "exists" and
  `fi->fh == 0` as "no handle").
* Serializable isolation is modelled as validation at commit. A transaction
  that writes nothing always commits and keeps no read set. The level is an
  assumption: `PSQL_BEGIN` and `PSQL_COMMIT` are macros of `pgsql.h`, which
  is not among the sources, and the description names the level (section
  5). The results with two threads (`tree`, `content`, `rename`) rest on
  it; under a weaker level the body of a handler would not be one step on
  one snapshot, and a commit would not write the inode row and the blocks
  of an inode as one.
* The rollback of a transaction discards everything the handler did; the
  sequence is advanced only by a handler that commits.
* The kernel never calls create, mkdir, rmdir, unlink, symlink or rename on
  `/`, and refuses to move a directory below itself.
* In `-s` mode a transaction left open by a leaking return is recorded in
  `txOpen`; what the next handler then sees through it is not modelled.
* `PSQL_BEGIN` does not fail.
* The passing runs leave out the failing calls behind the findings (the
  early returns of rename and statfs, the second look-up of create) and
  utimens on a read-only mount; each has a configuration of its own that
  shows what happens with it.

## 3. Runs

The runs of `MCPgFuse` use block size 2 and two threads, under symmetry
where no liveness property is checked.

| Run | Configuration | Checks | Result |
|---|---|---|---|
| `tree` | `Tree.cfg`: names a, b; depth 2; two new inodes; sizes 0, 1; create, mkdir, unlink, rmdir, truncate | `RefinesAbstractFs`, `DirSizeIsChildCount`, `TreeWellFormed` | holds, 41 492 states |
| `content` | `Content.cfg`: one file of one block; sizes 0..3; open, write, truncate, ftruncate, read, fgetattr, release, unlink | `RefinesAbstractFs`, `TypeOK`, `BlocksWithinSize`, `HandlesNameFiles` | holds, 195 796 states |
| `exits` | `Exits.cfg`: pool of one connection; every handler but rename; 17 failing calls | `RefinesAbstractFs`, `ExitDiscipline`, `RefusedIffImpossible` | holds, 122 743 states |
| `rename` | `Rename.cfg`: two empty directories, or an empty directory and a file of one byte; rename, rmdir, getattr | `RefinesAbstractFs`, `TreeWellFormed`, `RefusedIffImpossible` | holds, 65 509 states |
| `pool` | `Pool.cfg`: `FairSpec`; pool of one connection; getattr, create, unlink, open, write, statfs, release; 7 failing calls | `ConnectionsComeBack` | holds, 14 674 states |
| `readonly` | `ReadOnly.cfg`: `ro`, `-s`, one thread, three seed databases, every handler but utimens | `ReadOnlyMountUnchanged`, `RefusedIffImpossible` | holds, 215 states |
| `mount` | `Mount.cfg` (`MCPgMount`): command lines of up to three arguments out of 11; four databases | `ExitCodeTellsOutcome`, `MountTypeOK`, `MountedOnCheckedDatabase`, `ThreadingAgrees` | holds, 20 412 states |
| `statfs` | `StatFs.cfg` (`MCStatFs`): the host /, /a, /a/b, /ab; mount tables of up to three entries, or none that opens; no, one or two tablespaces; any `strdup` may fail | `StatTypeOK`, `LongestPrefixWhenOrdered`, `UsedIsTotalMinusFree` | holds, 263 964 states |
| `blocks` | `Blocks.cfg` (`MCPgBlocks`): blocks of 2 bytes, sizes 0..4, bytes 0..2, writes and targets of up to 2 bytes, every call able to fail | `RefinesAbstractFile`, `BlocksTypeOK`, `NothingPastSize` | holds, 15 940 states |
| `rename_leak` | `RenameLeak.cfg` | `ExitDiscipline` | violated |
| `create_reread` | `CreateReread.cfg` | `HandlesNameFiles` | violated |
| `statfs_least` | `StatFsLeast.cfg` (`MCStatFs`): the host /, /a, /a/b, /c; mount tables of up to two entries | `LeastOverTablespaces` | violated |

Six more configurations are kept beside the runs, each with one property
that TLC finds violated: on `MCPgFuse` `StatfsLeak.cfg` (`ExitDiscipline`),
`RenameCounts.cfg` (`DirSizeIsChildCount`), `ReadOnlyWrite.cfg`
(`WriteOnReadOnlyAnswersEROFS`) and `ReadOnlyUtimens.cfg`
(`ReadOnlyMountUnchanged`); on `MCStatFs` `StatFsNoMemory.cfg`
(`OutOfMemoryIsAnswered`) and `StatFsNoMtab.cfg` (`StatfsReturns`).

### Properties

* `TypeOK` - every variable stays in its domain; in particular the size a write
  computes stays within `Sizes`.
* `BlocksWithinSize` - no block of a file lies at or past its size, and an
  inode that is gone has no blocks (data invariant 4), under concurrent write,
  truncate, open and unlink.
* `DirSizeIsChildCount` - the size of a directory is the number of its
  children (data invariant 3), under concurrent create and delete.
* `TreeWellFormed` - names are unique within a directory, every parent is a
  directory and every inode reaches the root (data invariants 1 and 2).
* `HandlesNameFiles` - a handle the kernel holds was set by the handler and
  never names a directory.
* `ExitDiscipline` - a handler that has returned holds no connection and has
  left no transaction open (section 5 of the specification).
* `RefinesAbstractFs` - every behaviour of the handlers is a behaviour of
  `AbstractFs`: a call that answers success has changed, at one instant,
  the path it was given and nothing else (for rename the subtree at its
  first path, now at its second; for truncate to the size it was given; for
  write to a size no smaller than the end of the range), and a call that
  answers an error has changed nothing, whatever the other thread commits
  in between and whichever call of the handler failed.
* `RefusedIffImpossible` - but when the database or the memory failed, a
  handler answers success exactly when the tree its transaction read, and
  the mount, allowed the call: no early return refuses what is possible
  (a link that cannot be unlinked, a file that cannot be opened for reading
  on a read-only mount, a file renamed to its own name), and none lets
  through what is not (a directory truncated, a call on a handle whose file
  is gone). Checked with every handler and every failing call (`exits`),
  with rename (`rename`) and on a read-only mount (`readonly`). Which error
  a refused call carries is not held against the specification: mkdir and
  symlink answer `-ENOENT` below a parent that is a file (555-557,
  1216-1218), where create answers the `-ENOTDIR` of the path resolver and
  section 4.4 names `-ENOTDIR`.
* `ConnectionsComeBack` - liveness: a connection that is out of the pool is
  in the pool again later.
* `MountTypeOK` - the variables of `PgMount` stay in their domains; the
  block size is a `size_t` whatever number `blocksize=` carried.
* `MountedOnCheckedDatabase` - while the file system is mounted, the database
  stores timestamps as integers and its block size is the one in
  `PgFuseData` (data invariant 6), and the connection of the preflight is
  closed from `fuse_main` on.
* `ThreadingAgrees` - `userdata.multi_threaded` says what FUSE does: the
  handlers share one connection without a lock exactly when FUSE runs them
  on one thread, and `pgfuse_init` has opened what `psql_acquire` will use.
* `ExitCodeTellsOutcome` - an action property on the step that ends the
  process: the code is 0 only after an unmount, when `fuse_main` returned
  0, or when the help or the version was asked for, which always gives 0;
  and with code 0 nothing is left mounted or connected.
* `ReadOnlyMountUnchanged` - an action property: on a read-only mount no step
  changes the database.
* `WriteOnReadOnlyAnswersEROFS` - a handler that refuses a mutation on a
  read-only mount answers `-EROFS`.
* `StatTypeOK` - the variables of `StatFs` stay in their domains; the point of
  it is that what the loop stores in `blocks_free` and `blocks_avail` fits an
  `int64_t` although the comparison before it wraps in `size_t`.
* `LongestPrefixWhenOrdered` - with one tablespace, a mount table in which no
  mount point precedes a mount point above it, and no mount point whose name
  merely begins the name of the tablespace directory, the estimate is the free
  space of the file system the tablespace lies on, computed independently as
  the entry with the longest path prefix.
* `UsedIsTotalMinusFree` - total minus free, as a caller such as `df` computes
  it from the unsigned fields of `buf`, is the count the database reported,
  for blocks and for files, overflow of the signed sums included.
* `LeastOverTablespaces` - the estimate is the minimum over the tablespaces
  (section 4.5 of the specification).
* `OutOfMemoryIsAnswered` - a call of statfs in which an allocation failed
  does not answer success (section 7).
* `StatfsReturns` - a call of statfs returns to FUSE.
* `RefinesAbstractFile` - every behaviour of `PgBlocks` is a behaviour of
  `AbstractFile`: whatever sequence of writes, truncates, failures, unlinks
  and re-creations came before, a read returns the bytes a flat array would
  hold, a readlink the target and its closing zero, and a call that answers
  an error has changed no byte and no size.
* `NothingPastSize` - no row lies past the size, and the bytes of the last
  row past the size are zeros (data invariants 4 and 5): what a later write
  or truncate past the end uncovers is zeros by construction, not by luck.
* `BlocksTypeOK` - the variables of `PgBlocks` stay in their domains: every
  row has exactly `BlockSize` bytes, and the size stays within `MaxSize`
  when offset and length do.

### What the violations show

* **rename leaks the connection** (`src/pgfuse.c` 1310, 1315, 1324-1331): five
  returns without `PSQL_ROLLBACK; RELEASE`. A rename of a missing file is
  enough.
* **statfs leaks the connection** (969, 1017): the two first error returns
  (`StatfsLeak.cfg`).
* **utimens writes on a read-only mount** (1450): the handler has no
  `read_only` test (`ReadOnlyUtimens.cfg`).
* **write answers EBADF on a read-only mount** (763), not EROFS
  (`ReadOnlyWrite.cfg`).
* **create answers 0 without a handle** (389): `return res` after the failed
  look-up, where `res` is the result of the successful create.
* **rename leaves the child counts alone** (1374): by the description of
  `psql_rename`, which changes the parent and the name only
  (`RenameCounts.cfg`).
* **statfs reports the last matching mount point** (1002-1007): every entry
  of the mount table that is a prefix of any tablespace directory starts the
  minimum afresh. The trace: `/` with 2 blocks free listed before `/a` with 20,
  tablespaces `/c` and `/a/b`; the answer is 20 where the specification says 2.
* **statfs matches by characters** (1001): with `Dirs <- McDirs` and
  `Tablespaces <- McTablespaces` in `StatFsLeast.cfg` TLC answers with the
  mount point `/a` taken for the file system of the tablespace `/ab`.
* **statfs answers success after a failed allocation** (1004-1010): the
  `strdup` of the mount point fails after the minimum was set back to
  `INT64_MAX`; the entry is skipped and the call answers 0 with the free
  space of whatever entries follow, or with no limit (`StatFsNoMemory.cfg`).
* **statfs ends the process when the mount table cannot be opened** (990):
  `setmntent` answers `NULL`, which `getmntent_r` reads through
  (`StatFsNoMtab.cfg`).

### Bounds

| Bound | Value | Why it is enough |
|---|---|---|
| `Threads` | 2 (1 where the question is sequential) | every race of the list above is between two handlers |
| `MaxDbConnections` | 2, and 1 in `exits` and `pool` | 1 makes the second thread wait for every release |
| `Names`, `MaxDepth` | {a, b}, 2 | a directory, an entry in it and a sibling: enough for rmdir against create, for two renames into each other, and for a rename to tell the directory of its first path from that of its second |
| `MaxId` | 2 (1 and 3 in two runs) | caps the sequence: at most that many inodes are ever created; it is also the depth of the abstract tree |
| `BlockSize`, `MaxSize` | 2, 3 (`MaxSize` 1 in `tree` and `pool`) | sizes 0..3 give an empty file, a partial block, a full block and a second block; `tree` is about names, and truncate to 0 and 1 is enough to tell a file from a directory |
| `BlockSize`, `MaxSize`, `MaxLen` of `blocks` | 2, 4, 2 | two blocks: a write of two bytes at offset 1 starts inside the first and ends inside the second, one at offset 2 covers the second and leaves the first a hole, a truncate to 1 or 3 cuts inside a block and a write at 3 grows the file over the cut; longer writes are sequences of these |
| `Bytes` | 0, 1, 2 | zero, and two values to tell a byte that was overwritten from one that was kept |
| `Perms`, `Owners`, `Times` | one value each (two where a change must show) | the handlers copy them without looking at them |
| `Faults` | per run | the calls that may fail; `exits` lets every call fail but those of the two leaking handlers |
| `MaxMounts` | 3 (2 in `statfs_least`) | a mount point, one above or below it and one that does not match, in every order and with repetitions |
| `Dirs`, `Tablespaces` | four directories; no, one and two tablespaces | a parent, a child and a sibling whose name begins like the parent's |
| `FsStats` | 3/2 blocks of 2 bytes; 20/20 blocks of 2 bytes; failure | free and available differ, so that a mix-up shows; 40 bytes exceed `INT64_MAX` of the model, so that a count kept in bytes does not fit |
| `Width` | 6 | `INT64_MAX` is 31 and `INT64_MAX * BlockSize` wraps to 62, as it wraps to `2^64 - block_size` in the program |
| `MaxUsed` | 1 | 0 does not overflow the sums with `INT64_MAX`, 1 does |
| `Argv` | sequences of up to 3 of 11 arguments | a connection string, a mount point and one more argument: an option before, between or after them, two options without a mount point, a third positional argument |
| `Requested` | `blocksize=2`, `blocksize=-2` | one that agrees with a database and one that is negative |
| `Servers` | datetimes on, off or unknown with block size 2; on with block size 4 | one database for every way out of the preflight; 4 is the default block size, 2 needs the option |
| `IntWidth` | 4 | -2 is stored as 14, as it is stored as 2^32 - 2 in the program |

`rename` may stop: once both entries are removed no rename has a source,
and its configuration turns the deadlock check off for that reason. The runs
of `StatFs` model one call and the run of `PgMount` one process, which end;
their configurations turn the check off as well. No other passing run does.
`blocks` reaches every state within four calls; its 15 940 states are every
content of a file of up to four bytes with every last call and answer.

The refinement is checked transition by transition, and `TreeOf` resolves
every path of the tree in both states of each. That is what limits the runs
that carry it: `tree` runs without getattr and with two sizes, and symlink
is checked against `AbstractFs` in `exits`, with one thread at a time at
work on the connection, not in `tree`.

### Fairness

`FairSpec` is `Spec` with weak fairness, for every thread, of the steps a
handler takes once it has its connection: its body, its commit (or the
commit that fails) and its return. The code justifies it: between `ACQUIRE`
and `RELEASE` a handler calls the database and nothing else, it waits for no
other thread, and the database answers or fails. There is no fairness on
`Acquire`: nothing makes the kernel send another call, and a condition
variable promises a waiting thread nothing while others keep taking the
connection. For the same reason there is no property that a waiting thread
gets its turn; the specification promises none (section 4.2).

`ConnectionsComeBack` is checked under `FairSpec` without symmetry. It fails
as soon as rename, or statfs with a failing `psql_get_tablespace_locations`,
is among the operations: the leaked connection never comes back.

## 4. Not modelled

* **The connection pool inside** - its slots, mutex and condition variable,
  and the replacement of a broken connection. `pool.c` is not among the
  sources, and its description gives the contract only (a connection is
  handed to one thread at a time; acquire waits while there is none), which
  is what `Acquire`, `Commit` and `avail` of `PgFuse` model. That no
  connection is with two handlers at once is therefore an assumption of
  the model and not a property of a run: `psql_acquire` and `psql_release`
  (85-99) only forward to the pool. For the same reason no run lets
  `psql_pool_release` fail: what a failure would leave of the pool is not
  described.
* **The SQL** of `pgsql.c`, and the entries `psql_readdir` hands to the
  filler: the accessors are operators on the database value.
* **Concurrent calls on the bytes.** `PgBlocks` has one call after another.
  Two writes to one file conflict on the inode row both rewrite, and
  `content` shows that one of them fails at commit; with the bytes in
  `PgFuse` its runs would not end in the time a run may take.
* **File contents in `AbstractFs`**, for the same reason: `RefinesAbstractFs`
  already limits the runs that carry it.
* **Memory** - the invalid `free` at 362 and 568 is listed among the
  hazards; its outcome is that of the C library.
* **The width of the local `id` of `pgfuse_readdir`** (471): it matters for
  ids of 2^31 and more, which no instance TLC can check reaches.
* The usage text, logging, and what FUSE does with a mount point whose
  process called `exit` inside `pgfuse_init`.
