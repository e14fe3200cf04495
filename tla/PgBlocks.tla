------------------------------ MODULE PgBlocks ------------------------------
(***************************************************************************)
(* The bytes of one name, as the handlers of pgfuse.c and the block engine *)
(* keep them: the size in the inode, and one row per block of BlockSize    *)
(* bytes.  A block that has no row reads as zeros.                         *)
(*                                                                         *)
(* The handlers divide the work with the engine: psql_write_buf stores     *)
(* blocks and knows no size, pgfuse_write grows the size; psql_truncate    *)
(* deletes and trims blocks, pgfuse_truncate sets the size; psql_read_buf  *)
(* clamps to the size it finds.  The engine (pgsql.c) is not among the     *)
(* sources and is written here from its description (block engine).        *)
(*                                                                         *)
(* One call is one step: a handler runs in one transaction, and PgFuse     *)
(* shows that the transactions on one inode take effect one at a time.     *)
(*                                                                         *)
(* write, read and truncate reach a regular file only: the kernel follows  *)
(* a symbolic link before it calls them, and open hands out no handle of   *)
(* one.  The handlers themselves do not test for a link.                   *)
(***************************************************************************)
EXTENDS Integers, Sequences, SequencesExt, FiniteSets

CONSTANTS
    BlockSize,  \* bytes per block, fixed at mount
    MaxSize,    \* bound on the size of the file and on offset + length
    MaxLen,     \* bound on the bytes of one write and of a link target
    Bytes       \* the values of a byte, 0 among them

ASSUME BlocksAssumption ==
    /\ BlockSize \in Nat \ {0}
    /\ MaxSize \in Nat /\ MaxLen \in 1..MaxSize
    /\ 0 \in Bytes

VARIABLES
    kind,       \* "none", "reg" or "lnk": the type bits of the inode, if any
    size,       \* the size column of the inode
    blocks,     \* blocks[b]: the bytes of the row of block b
    req,        \* the call as the kernel made it
    out         \* the return value and the bytes left in the caller's buffer

vars == <<kind, size, blocks, req, out>>

ENOENT == -2
EIO    == -5
ENOMEM == -12
EEXIST == -17

BlockNos  == 0..((MaxSize - 1) \div BlockSize)
Within    == 1..BlockSize                   \* the positions of a block
ZeroBlock == [k \in Within |-> 0]
Data      == BoundedSeq(Bytes, MaxLen)
Targets   == BoundedSeq(Bytes \ {0}, MaxLen) \ {<<>>}   \* C strings, not empty

\* The first byte of block b, and the one past its last.
Start(b) == b * BlockSize
End(b)   == (b + 1) * BlockSize

-----------------------------------------------------------------------------
(* The block engine.                                                       *)

\* The row of block b, or the zero-filled block that stands for it.
Fetch(bs, b) == IF b \in DOMAIN bs THEN bs[b] ELSE ZeroBlock

\* The blocks the byte range [offset, offset + len) touches.
Touched(offset, len) ==
    {b \in BlockNos : len > 0 /\ Start(b) < offset + len /\ offset < End(b)}

\* psql_read_buf: the bytes of [offset, offset + len) below size, block by
\* block.
ReadBuf(bs, sz, offset, len) ==
    LET n     == Min({len, Max({0, sz - offset})})
        first == offset \div BlockSize
        Piece(b) == SubSeq(Fetch(bs, b), Max({offset, Start(b)}) - Start(b) + 1,
                                         Min({offset + n, End(b)}) - Start(b))
    IN  IF n = 0 THEN <<>>
        ELSE FlattenSeq([k \in 1..((offset + n - 1) \div BlockSize - first + 1)
                            |-> Piece(first + k - 1)])

\* The block b a write of data at offset stores: the new bytes when they
\* cover it, the old block with the new bytes laid over it when not.
Overlaid(bs, b, offset, data) ==
    IF offset <= Start(b) /\ End(b) <= offset + Len(data)
    THEN SubSeq(data, Start(b) - offset + 1, End(b) - offset)
    ELSE [k \in Within |->
            LET p == Start(b) + k - 1
            IN  IF p \in offset..(offset + Len(data) - 1) THEN data[p - offset + 1]
                ELSE Fetch(bs, b)[k]]

\* psql_write_buf: every touched block is stored whole.
WriteBuf(bs, offset, data) ==
    [b \in DOMAIN bs \cup Touched(offset, Len(data)) |->
        IF b \in Touched(offset, Len(data)) THEN Overlaid(bs, b, offset, data)
        ELSE bs[b]]

\* psql_truncate: the blocks past the one that holds byte n - 1 are deleted,
\* and that one is zeroed from byte n on.
Truncate(bs, n) ==
    [b \in {c \in DOMAIN bs : Start(c) < n} |->
        [k \in Within |-> IF Start(b) + k - 1 < n THEN bs[b][k] ELSE 0]]

-----------------------------------------------------------------------------
(* The handlers.  failed: one of the calls the handler makes on the        *)
(* database fails in this invocation; PgFuse has them one by one.          *)

Answer(res, data) == [res |-> res, data |-> data]

\* PSQL_ROLLBACK( conn ); RELEASE( conn ); return res;
Rollback(res) ==
    /\ out' = Answer(res, <<>>)
    /\ UNCHANGED <<kind, size, blocks>>

\* NewSize, were the size never grown.
NewSize_Stale(old, offset, len) == old

\* NewSize, were the bytes written always added to the size.
NewSize_Sum(old, offset, len) == old + len

\* if( offset + size > meta.size ) meta.size = offset + size;
NewSize(old, offset, len) == IF offset + len > old THEN offset + len ELSE old

\* The look-up of the name, meta.size = 0 and psql_create_file; the look-up
\* of the parent and the copies of the path in between fail under failed.
Create(failed) ==
    /\ req' = [op |-> "create"]
    /\ IF kind # "none" THEN Rollback(EEXIST)
       ELSE IF failed THEN Rollback(EIO)
       ELSE /\ kind' = "reg" /\ size' = 0
            /\ out' = Answer(0, <<>>)
            /\ UNCHANGED blocks

\* meta.size = strlen( from ); psql_create_file; psql_write_buf of the target
\* at offset 0, and the count it returns compared with strlen( from ).
Symlink(from, failed) ==
    /\ req' = [op |-> "symlink", data |-> from]
    /\ IF kind # "none" THEN Rollback(EEXIST)
       ELSE IF failed THEN Rollback(EIO)
       ELSE /\ kind' = "lnk" /\ size' = Len(from)
            /\ blocks' = WriteBuf(blocks, 0, from)
            /\ out' = Answer(0, <<>>)

\* psql_delete_file: the inode and its blocks.
Unlink(failed) ==
    /\ req' = [op |-> "unlink"]
    /\ IF kind = "none" THEN Rollback(ENOENT)
       ELSE IF failed THEN Rollback(EIO)
       ELSE /\ kind' = "none" /\ size' = 0 /\ blocks' = <<>>
            /\ out' = Answer(0, <<>>)

\* psql_read_meta, the new size, psql_write_buf, psql_write_meta.  The
\* handle may be that of a file unlinked since.
Write(offset, data, failed) ==
    /\ req' = [op |-> "write", offset |-> offset, data |-> data]
    /\ kind # "lnk"
    /\ IF kind = "none" THEN Rollback(ENOENT)
       ELSE IF failed THEN Rollback(EIO)
       ELSE /\ blocks' = WriteBuf(blocks, offset, data)
            /\ size' = NewSize(size, offset, Len(data))
            /\ out' = Answer(Len(data), <<>>)
            /\ UNCHANGED kind

\* psql_read_buf, and the count it returns.
Read(offset, len, failed) ==
    /\ req' = [op |-> "read", offset |-> offset, len |-> len]
    /\ kind # "lnk"
    /\ IF kind = "none" THEN Rollback(ENOENT)
       ELSE IF failed THEN Rollback(EIO)
       ELSE LET buf == ReadBuf(blocks, size, offset, len)
            IN  /\ out' = Answer(Len(buf), buf)
                /\ UNCHANGED <<kind, size, blocks>>

\* TruncateOp, were the size set and psql_truncate not called.
TruncateOp_SizeOnly(offset, failed) ==
    /\ req' = [op |-> "truncate", offset |-> offset]
    /\ kind = "reg"
    /\ size' = offset
    /\ out' = Answer(0, <<>>)
    /\ UNCHANGED <<kind, blocks>>

\* psql_truncate; meta.size = offset; psql_write_meta: the tail of
\* pgfuse_truncate and of pgfuse_ftruncate.
TruncateOp(offset, failed) ==
    /\ req' = [op |-> "truncate", offset |-> offset]
    /\ kind # "lnk"
    /\ IF kind = "none" THEN Rollback(ENOENT)
       ELSE IF failed THEN Rollback(EIO)
       ELSE /\ blocks' = Truncate(blocks, offset)
            /\ size' = offset
            /\ out' = Answer(0, <<>>)
            /\ UNCHANGED kind

\* len: the caller's buffer.  meta.size bytes are read into it, and
\* buf[meta.size] = '\0' closes them.
Readlink(len, failed) ==
    /\ req' = [op |-> "readlink", len |-> len]
    /\ IF kind # "lnk" THEN Rollback(ENOENT)
       ELSE IF len < size + 1 THEN Rollback(ENOMEM)
       ELSE IF failed THEN Rollback(EIO)
       ELSE /\ out' = Answer(0, Append(ReadBuf(blocks, size, 0, size), 0))
            /\ UNCHANGED <<kind, size, blocks>>

-----------------------------------------------------------------------------
(* The specification.                                                      *)

Init ==
    /\ kind = "none" /\ size = 0 /\ blocks = <<>>
    /\ req = [op |-> "none"]
    /\ out = Answer(0, <<>>)

Requests == {r \in (0..MaxSize) \X (0..MaxSize) : r[1] + r[2] <= MaxSize}

Next ==
    \E failed \in BOOLEAN :
        \/ Create(failed)
        \/ \E from \in Targets : Symlink(from, failed)
        \/ Unlink(failed)
        \/ \E offset \in 0..MaxSize, data \in Data :
               offset + Len(data) <= MaxSize /\ Write(offset, data, failed)
        \/ \E r \in Requests : Read(r[1], r[2], failed)
        \/ \E offset \in 0..MaxSize : TruncateOp(offset, failed)
        \/ \E len \in 0..(MaxLen + 1) : Readlink(len, failed)

Spec == Init /\ [][Next]_vars

-----------------------------------------------------------------------------
(* Properties.                                                             *)

\* The type invariant: the size is within its bound, every row is a block
\* of exactly BlockSize bytes, and the answer is a count or an error.
BlocksTypeOK ==
    /\ kind \in {"none", "reg", "lnk"}
    /\ size \in 0..MaxSize
    /\ DOMAIN blocks \subseteq BlockNos
    /\ \A b \in DOMAIN blocks : blocks[b] \in [Within -> Bytes]
    /\ out.res \in {ENOENT, EIO, ENOMEM, EEXIST} \cup (0..MaxSize)
    /\ out.data \in BoundedSeq(Bytes, MaxSize + 1)

\* Data invariants 4 and 5: no block lies past the size of the file, and
\* what the last block holds past the size is zeros, so that a truncate or
\* a write that moves the end up uncovers zeros and never the bytes of an
\* earlier, longer file.  pgfuse_truncate sets the size and psql_truncate
\* trims the block; pgfuse_write grows the size and psql_write_buf fills
\* the block.
NothingPastSize ==
    \A b \in DOMAIN blocks :
        /\ Start(b) < size
        /\ \A k \in Within : Start(b) + k - 1 >= size => blocks[b][k] = 0

\* The bytes of the file: the blocks side by side, cut at the size.
Content ==
    [i \in 1..size |-> Fetch(blocks, (i - 1) \div BlockSize)[((i - 1) % BlockSize) + 1]]

AF == INSTANCE AbstractFile WITH
    file  <- IF kind = "none" THEN [kind |-> "none"]
             ELSE [kind |-> kind, bytes |-> Content],
    call  <- req,
    reply <- [ok |-> out.res >= 0, n |-> Max({out.res, 0}), data |-> out.data]

\* The handlers and the block engine implement a file of bytes: a write
\* lays its bytes over the file and extends it, the gap reading as zeros; a
\* truncate cuts the file or extends it with zeros; a read returns the bytes
\* the file has in the range, none at or past the end; readlink returns the
\* target symlink stored, closed by a zero byte; and a call that answers an
\* error has changed nothing (psql_read_buf, psql_write_buf and
\* psql_truncate under pgfuse_read, pgfuse_write, pgfuse_truncate,
\* pgfuse_symlink and pgfuse_readlink).
RefinesAbstractFile == AF!Spec

=============================================================================
