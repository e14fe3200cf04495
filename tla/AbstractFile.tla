---------------------------- MODULE AbstractFile ----------------------------
(***************************************************************************)
(* What the file system promises of the bytes of one name (sections 4.3,   *)
(* 4.4 and 8 of the specification): a regular file is an array of bytes    *)
(* that write patches and extends, truncate cuts or extends with zeros and *)
(* read returns a slice of; a symbolic link is its target, which readlink  *)
(* returns.  A call that answers an error has changed nothing.             *)
(*                                                                         *)
(* Nothing here knows of blocks.  PgBlocks is shown to implement this      *)
(* specification under the mapping it defines.                             *)
(***************************************************************************)
EXTENDS Integers, Sequences, SequencesExt

CONSTANTS
    Bytes,      \* the values of a byte, 0 among them
    MaxSize     \* bound on the size of the file

VARIABLES
    file,       \* what the name holds
    call,       \* the last call as the caller made it: op, and offset, len or data
    reply       \* the answer to it

NoFile == [kind |-> "none"]
Targets == BoundedSeq(Bytes \ {0}, MaxSize) \ {<<>>}

\* The answers: a count and the bytes put into the caller's buffer.
Ok(n, data) == [ok |-> TRUE, n |-> n, data |-> data]
Error       == [ok |-> FALSE, n |-> 0, data |-> <<>>]

\* old, cut or extended with zeros to n bytes.
Resized(old, n) == [i \in 1..n |-> IF i <= Len(old) THEN old[i] ELSE 0]

\* old with data at offset, the gap between the two read as zeros.
Patched(old, offset, data) ==
    [i \in 1..Max({Len(old), offset + Len(data)}) |->
        IF i \in (offset + 1)..(offset + Len(data)) THEN data[i - offset]
        ELSE Resized(old, i)[i]]

\* The bytes of old from offset on, len of them at most.
Slice(old, offset, len) == SubSeq(old, offset + 1, Min({offset + len, Len(old)}))

-----------------------------------------------------------------------------
(* The effect and the answer of a call that succeeds.                      *)

Create ==
    /\ call' = [op |-> "create"] /\ file = NoFile
    /\ file' = [kind |-> "reg", bytes |-> <<>>]
    /\ reply' = Ok(0, <<>>)

Symlink ==
    /\ call'.op = "symlink" /\ file = NoFile
    /\ call'.data \in Targets
    /\ file' = [kind |-> "lnk", bytes |-> call'.data]
    /\ reply' = Ok(0, <<>>)

Unlink ==
    /\ call' = [op |-> "unlink"] /\ file # NoFile
    /\ file' = NoFile
    /\ reply' = Ok(0, <<>>)

Write ==
    /\ call'.op = "write" /\ file.kind = "reg"
    /\ call'.offset + Len(call'.data) <= MaxSize
    /\ file' = [file EXCEPT !.bytes = Patched(@, call'.offset, call'.data)]
    /\ reply' = Ok(Len(call'.data), <<>>)

Truncate ==
    /\ call'.op = "truncate" /\ file.kind = "reg"
    /\ file' = [file EXCEPT !.bytes = Resized(@, call'.offset)]
    /\ reply' = Ok(0, <<>>)

Read ==
    /\ call'.op = "read" /\ file.kind = "reg"
    /\ LET data == Slice(file.bytes, call'.offset, call'.len)
       IN  reply' = Ok(Len(data), data)
    /\ UNCHANGED file

\* The target, closed by a zero byte, when the caller's buffer holds both.
Readlink ==
    /\ call'.op = "readlink" /\ file.kind = "lnk"
    /\ call'.len > Len(file.bytes)
    /\ reply' = Ok(0, Append(file.bytes, 0))
    /\ UNCHANGED file

\* A call that answers an error has changed nothing.
Fail ==
    /\ reply' = Error
    /\ UNCHANGED file

Init ==
    /\ file = NoFile
    /\ call = [op |-> "none"]
    /\ reply = Ok(0, <<>>)

Next ==
    \/ Create \/ Symlink \/ Unlink
    \/ Write \/ Truncate \/ Read \/ Readlink
    \/ Fail

Spec == Init /\ [][Next]_<<file, call, reply>>

=============================================================================
