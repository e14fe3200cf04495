------------------------------ MODULE MCPgMount ------------------------------
(***************************************************************************)
(* PgMount for TLC: the command lines and the databases of a run.          *)
(***************************************************************************)
EXTENDS PgMount

\* A connection string, a mount point and one argument too many.
McPositional == {"dbname=test", "/mnt", "extra"}

\* A block size that fits an int, and one below zero.
McRequested == ("blocksize=2" :> 2) @@ ("blocksize=-2" :> -2)

\* -f is an option of FUSE that pgfuse knows nothing of.
McArguments ==
    McPositional \cup DOMAIN McRequested \cup {"-s", "-f", "ro", "-h", "-V", "-v"}

McArgv == BoundedSeq(McArguments, 3)

McServers ==
    [integer_datetimes : {"on", "off", Null}, block_size : {2}]
        \cup {[integer_datetimes |-> "on", block_size |-> 4]}

=============================================================================
