------------------------------- MODULE StatFs -------------------------------
(***************************************************************************)
(* The free-space estimate of pgfuse_statfs (src/pgfuse.c 938-1097).       *)
(*                                                                         *)
(* The handler asks the database for the directories of its tablespaces,   *)
(* walks the mount table of the host, asks every mount point that is a     *)
(* prefix of one of the directories for its free space, and adds the       *)
(* counts of blocks and files the database reports.  One iteration of the  *)
(* while loop is one step.  A directory is its absolute path, a sequence   *)
(* of characters, so that the strncmp of the loop is IsPrefix; counts are  *)
(* kept in Width bits.                                                     *)
(***************************************************************************)
EXTENDS Integers, Sequences, SequencesExt, FiniteSets

CONSTANTS
    Dirs,           \* the directories of the host
    Tablespaces,    \* the sets of directories the database may report
    FsStats,        \* what statfs may answer for a mount point
    MaxMounts,      \* bound: the entries of the mount table
    MaxUsed,        \* bound: the blocks and the files the database counts
    BlockSize,      \* data->block_size
    Width           \* bound: the bits of an int64_t

NoDir  == <<"null">>        \* mnt_dir == NULL
Failed == [failed |-> TRUE] \* statfs answered -1
EIO    == -5

ASSUME StatFsAssumption ==
    /\ Width \in Nat \ {0} /\ BlockSize \in Nat \ {0}
    /\ MaxMounts \in Nat /\ MaxUsed \in Nat
    /\ NoDir \notin Dirs
    /\ Tablespaces \subseteq SUBSET Dirs
    /\ \A fs \in FsStats : fs \in [f_bfree : Nat, f_bavail : Nat, f_frsize : Nat]

VARIABLES
    mtab,           \* the mount table, in the order of the file
    opens,          \* setmntent opens it
    nomem,          \* a strdup of this call answered NULL
    location,       \* the tablespace directories, after realpath
    pos,            \* the entry getmntent_r returns next
    blocks_free,
    blocks_avail,
    counted,        \* blocks_used and files_used as the database reported them
    pc,             \* "start", "loop", "counts", "done", "returned" or "crashed"
    res,            \* the return value
    buf             \* the struct statvfs of the caller

vars == <<mtab, opens, nomem, location, pos, blocks_free, blocks_avail, counted, pc, res, buf>>

Entries == [dir : Dirs \cup {NoDir}, fs : FsStats \cup {Failed}]

\* memset( buf, 0, sizeof( struct statvfs ) )
Zeroed == [f_blocks |-> 0, f_bfree |-> 0, f_bavail |-> 0,
           f_files |-> 0, f_ffree |-> 0, f_favail |-> 0]

-----------------------------------------------------------------------------
(* Arithmetic.                                                             *)

IntMax_Unsigned == 2^Width - 1

\* INT64_MAX: "no limit known".
IntMax == 2^(Width - 1) - 1

\* A product or a sum in size_t or fsblkcnt_t, and the signed sum the build
\* wraps.
Unsigned(x) == x % 2^Width

Converted_Bytes(count, frsize) == Unsigned(count * frsize)

\* Free space of the host in blocks of the file system.
Converted(count, frsize) == Unsigned(count * frsize) \div BlockSize

\* The comparison is made in bytes, both sides in size_t.
Smaller(count, frsize, blocks) ==
    Unsigned(count * frsize) < Unsigned(blocks * BlockSize)

Least(count, frsize, blocks) ==
    IF Smaller(count, frsize, blocks) THEN Converted(count, frsize) ELSE blocks

Reset_Kept(blocks) == blocks

\* Every mount point that matches starts the minimum afresh.
Reset(blocks) == IntMax

\* The inner loop: strncmp finds the mount point at the start of some
\* tablespace directory.
Matches(dir, locs) == dir # NoDir /\ \E l \in locs : IsPrefix(dir, l)

\* blocks_total and files_total as the unsigned fields of buf hold them.
Total(free, used) == Unsigned(free + used)

-----------------------------------------------------------------------------
(* The handler.                                                            *)

Return(r) == pc' = "returned" /\ res' = r

\* psql_get_tablespace_locations, realpath, setmntent.
Locate ==
    /\ pc = "start" /\ opens
    /\ pc' = "loop"
    /\ blocks_free' = IntMax /\ blocks_avail' = IntMax
    /\ UNCHANGED <<mtab, opens, nomem, location, pos, counted, res, buf>>

\* setmntent answered NULL, and getmntent_r is handed it: the C library
\* reads through the null pointer.
MtabMissing ==
    /\ pc = "start" /\ ~opens
    /\ pc' = "crashed"
    /\ UNCHANGED <<mtab, opens, nomem, location, pos, blocks_free,
                   blocks_avail, counted, res, buf>>

TablespaceFails ==
    /\ pc = "start"
    /\ Return(EIO)
    /\ UNCHANGED <<mtab, opens, nomem, location, pos, blocks_free,
                   blocks_avail, counted, buf>>

\* continue: no mount point, or not a prefix of a tablespace directory.
SkipEntry ==
    /\ pc = "loop" /\ pos <= Len(mtab)
    /\ ~Matches(mtab[pos].dir, location)
    /\ pos' = pos + 1
    /\ UNCHANGED <<mtab, opens, nomem, location, blocks_free, blocks_avail,
                   counted, pc, res, buf>>

\* strdup left prefix NULL after the minimum was started afresh: continue.
PrefixFails ==
    /\ pc = "loop" /\ pos <= Len(mtab)
    /\ Matches(mtab[pos].dir, location)
    /\ nomem' = TRUE
    /\ blocks_free' = Reset(blocks_free) /\ blocks_avail' = Reset(blocks_avail)
    /\ pos' = pos + 1
    /\ UNCHANGED <<mtab, opens, location, counted, pc, res, buf>>

FoldEntry ==
    /\ pc = "loop" /\ pos <= Len(mtab)
    /\ Matches(mtab[pos].dir, location)
    /\ mtab[pos].fs # Failed
    /\ LET fs == mtab[pos].fs
       IN  /\ blocks_free'  = Least(fs.f_bfree, fs.f_frsize, Reset(blocks_free))
           /\ blocks_avail' = Least(fs.f_bavail, fs.f_frsize, Reset(blocks_avail))
    /\ pos' = pos + 1
    /\ UNCHANGED <<mtab, opens, nomem, location, counted, pc, res, buf>>

\* statfs on the mount point failed: the handler returns inside the loop.
HostFails ==
    /\ pc = "loop" /\ pos <= Len(mtab)
    /\ Matches(mtab[pos].dir, location)
    /\ mtab[pos].fs = Failed
    /\ Return(-1)
    /\ UNCHANGED <<mtab, opens, nomem, location, pos, blocks_free,
                   blocks_avail, counted, buf>>

\* getmntent_r returned NULL: endmntent.
EndOfTable ==
    /\ pc = "loop" /\ pos > Len(mtab)
    /\ pc' = "counts"
    /\ UNCHANGED <<mtab, opens, nomem, location, pos, blocks_free,
                   blocks_avail, counted, res, buf>>

\* psql_get_fs_blocks_used or psql_get_fs_files_used failed.
CountFails ==
    /\ pc = "counts"
    /\ Return(EIO)
    /\ UNCHANGED <<mtab, opens, nomem, location, pos, blocks_free,
                   blocks_avail, counted, buf>>

\* Both counts, the totals and the fields of buf.  blocks_free is given the
\* value of blocks_avail: what the loop left in it is not used.
Fill ==
    /\ pc = "counts"
    /\ \E blocks_used \in 0..MaxUsed, files_used \in 0..MaxUsed :
          /\ counted' = [blocks |-> blocks_used, files |-> files_used]
          /\ blocks_free' = blocks_avail
          /\ buf' = [f_blocks |-> Total(blocks_avail, blocks_used),
                     f_bfree  |-> Unsigned(blocks_avail),
                     f_bavail |-> Unsigned(blocks_avail),
                     f_files  |-> Total(IntMax, files_used),
                     f_ffree  |-> Unsigned(IntMax),
                     f_favail |-> Unsigned(IntMax)]
    /\ pc' = "done" /\ res' = 0
    /\ UNCHANGED <<mtab, opens, nomem, location, pos, blocks_avail>>

Init ==
    /\ mtab \in BoundedSeq(Entries, MaxMounts)
    /\ opens \in BOOLEAN
    /\ opens \/ mtab = <<>>
    /\ nomem = FALSE
    /\ location \in Tablespaces
    /\ pos = 1
    /\ blocks_free = 0 /\ blocks_avail = 0
    /\ counted = [blocks |-> 0, files |-> 0]
    /\ pc = "start" /\ res = 0
    /\ buf = Zeroed

Next ==
    \/ Locate \/ MtabMissing \/ TablespaceFails
    \/ SkipEntry \/ PrefixFails \/ FoldEntry \/ HostFails \/ EndOfTable
    \/ CountFails \/ Fill

Spec == Init /\ [][Next]_vars

-----------------------------------------------------------------------------
(* What the specification of the file system says of the estimate.         *)

\* Directory l is dir or lies below it.
OnPath(dir, l) ==
    /\ IsPrefix(dir, l)
    /\ (dir = <<"/">> \/ Len(dir) = Len(l) \/ l[Len(dir) + 1] = "/")

\* The entries of the mount table that hold directory l.
Holders(l) == {i \in DOMAIN mtab : mtab[i].dir # NoDir /\ OnPath(mtab[i].dir, l)}

\* The mount point l lies on: the longest prefix, the later entry of two
\* that name the same directory.
MountOf(l) ==
    CHOOSE i \in Holders(l) : \A j \in Holders(l) :
        \/ Len(mtab[j].dir) < Len(mtab[i].dir)
        \/ Len(mtab[j].dir) = Len(mtab[i].dir) /\ j <= i

AvailOn(i) == (mtab[i].fs.f_bavail * mtab[i].fs.f_frsize) \div BlockSize

Located == {l \in location : Holders(l) # {}}

\* The least free space of the file systems the tablespaces lie on.
LeastAvail ==
    IF Located = {} THEN IntMax ELSE Min({AvailOn(MountOf(l)) : l \in Located})

\* No mount point is listed before a mount point above it.
InMountOrder ==
    \A i, j \in DOMAIN mtab :
        (i < j /\ mtab[i].dir # NoDir /\ mtab[j].dir # NoDir)
            => ~(OnPath(mtab[j].dir, mtab[i].dir) /\ mtab[j].dir # mtab[i].dir)

\* No mount point merely begins the name of a tablespace directory, as /a
\* begins /ab.
NoLookalike ==
    \A i \in DOMAIN mtab, l \in location :
        Matches(mtab[i].dir, {l}) => OnPath(mtab[i].dir, l)

-----------------------------------------------------------------------------
(* Properties.                                                             *)

Fields == 0..(2^Width - 1)

\* Type invariant: the counts of the loop of pgfuse_statfs stay within an
\* int64_t and the fields of buf within their unsigned types.
StatTypeOK ==
    /\ mtab \in BoundedSeq(Entries, MaxMounts)
    /\ opens \in BOOLEAN /\ nomem \in BOOLEAN
    /\ location \in Tablespaces
    /\ pos \in 1..(MaxMounts + 1)
    /\ blocks_free \in 0..IntMax /\ blocks_avail \in 0..IntMax
    /\ counted \in [blocks : 0..MaxUsed, files : 0..MaxUsed]
    /\ pc \in {"start", "loop", "counts", "done", "returned", "crashed"}
    /\ res \in {0, -1, EIO}
    /\ buf \in [f_blocks : Fields, f_bfree : Fields, f_bavail : Fields,
                f_files : Fields, f_ffree : Fields, f_favail : Fields]

\* With one tablespace, a mount table in mount order, no mount point that
\* strncmp takes for a parent without its being one, and memory for every
\* strdup, pgfuse_statfs reports the free space of the file system the
\* tablespace lies on: the reset at lines 1005-1006 makes the last matching
\* mount point decide.
LongestPrefixWhenOrdered ==
    (pc = "done" /\ Cardinality(location) = 1 /\ InMountOrder /\ NoLookalike
                 /\ ~nomem)
        => buf.f_bavail = LeastAvail

\* What a caller computes as used (total minus free) from the fields
\* pgfuse_statfs fills at lines 1082-1087 is what the database counted,
\* although the totals are sums with INT64_MAX (lines 1049 and 1064).
UsedIsTotalMinusFree ==
    pc = "done" =>
        /\ buf.f_blocks - buf.f_bfree = counted.blocks
        /\ buf.f_files - buf.f_ffree = counted.files

\* Section 4.5 of the specification: the estimate is the minimum, over the
\* tablespaces, of the free space of the mount point with the longest prefix.
\* pgfuse_statfs reports the last matching entry of the mount table.
LeastOverTablespaces ==
    pc = "done" /\ ~nomem => buf.f_bavail = LeastAvail

\* Section 7 of the specification: an allocation that fails is answered
\* with -ENOMEM.  When the strdup at line 1004 fails pgfuse_statfs goes on
\* to the next entry of the mount table and answers 0.
OutOfMemoryIsAnswered == pc = "done" => ~nomem

\* pgfuse_statfs returns to its caller, whatever the host answers: the
\* result of setmntent at line 990 is used without a look at it.
StatfsReturns == pc # "crashed"

=============================================================================
