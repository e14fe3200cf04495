------------------------------ MODULE PgMount ------------------------------
(***************************************************************************)
(* From the command line to a mounted file system and back to an exit      *)
(* code: main, the option table and pgfuse_opt_proc, the preflight on a    *)
(* connection of its own, and the hooks pgfuse_init and pgfuse_destroy.    *)
(*                                                                         *)
(*   parse --> refused --> exited            -h, -V, a third argument      *)
(*   parse --> probe --> dated --> main      the preflight, each check     *)
(*               |         |        |        with its way out              *)
(*   main --> mounted --> serving --> destroyed --> exited                 *)
(*                                                                         *)
(* fuse_opt_parse, fuse_main and the database are not among the sources:   *)
(* of the first the model keeps how it feeds the table and the procedure,  *)
(* of the second that it mounts, runs the hooks and unmounts, of the       *)
(* third what the preflight asks it.                                       *)
(***************************************************************************)
EXTENDS Integers, Sequences, SequencesExt

CONSTANTS
    Argv,           \* the command lines, argv[0] left out
    Positional,     \* the arguments that are no options
    Requested,      \* Requested[a]: the number the option a = blocksize=<n> carries
    Servers,        \* what a database may answer the preflight
    DefaultBlockSize,
    IntWidth        \* bits of an int

VARIABLES
    pc,         \* where main is
    args,       \* the arguments fuse_opt_parse has not looked at yet
    outargs,    \* the arguments it keeps for fuse_main
    pgfuse,     \* PgFuseOptions
    server,     \* the database behind conninfo
    conn,       \* the connection of the preflight
    userdata,   \* PgFuseData, as the handlers get it
    link,       \* data->conn or data->pool
    mounted,    \* the mount point shows the file system
    code        \* the exit code of the process

vars == <<pc, args, outargs, pgfuse, server, conn, userdata, link, mounted, code>>

Null    == "NULL"
Running == -1
EXIT_SUCCESS == 0
EXIT_FAILURE == 1

\* memset( &pgfuse, 0, ... ), multi_threaded = 1, block_size = DEFAULT_BLOCK_SIZE
Defaults ==
    [print_help |-> FALSE, print_version |-> FALSE, verbose |-> FALSE,
     conninfo |-> Null, mountpoint |-> Null, read_only |-> FALSE,
     multi_threaded |-> TRUE, block_size |-> DefaultBlockSize]

\* What is left of PgFuseOptions in PgFuseData.
DataOf(o) ==
    [f \in {"conninfo", "mountpoint", "verbose", "read_only", "multi_threaded",
            "block_size"} |-> o[f]]

-----------------------------------------------------------------------------
(* The option table and the option procedure.                              *)

\* The options of pgfuse_opts that fuse_opt_parse stores by itself.
Templates == {"ro"} \cup DOMAIN Requested

\* Stored, were the number kept as it was written.
Stored_Signed(n) == n

\* "blocksize=%d" writes an int into a size_t that held the default.
Stored(n) == n % 2^IntWidth

Template(o, arg) ==
    IF arg = "ro" THEN [o EXCEPT !.read_only = TRUE]
    ELSE [o EXCEPT !.block_size = Stored(Requested[arg])]

\* The key fuse_opt_parse hands to the procedure with an argument.
KeyOf(arg) ==
    CASE arg \in {"-h", "--help"}     -> "KEY_HELP"
      [] arg \in {"-v", "--verbose"}  -> "KEY_VERBOSE"
      [] arg \in {"-V", "--version"}  -> "KEY_VERSION"
      [] arg \in Positional           -> "FUSE_OPT_KEY_NONOPT"
      [] OTHER                        -> "FUSE_OPT_KEY_OPT"

Answer(res, o) == [res |-> res, o |-> o]

\* KeyOpt, were -s an option of pgfuse alone.
KeyOpt_Discard(o, arg) ==
    IF arg = "-s" THEN Answer(0, [o EXCEPT !.multi_threaded = FALSE]) ELSE Answer(1, o)

\* case FUSE_OPT_KEY_OPT: -s is for pgfuse and for FUSE.
KeyOpt(o, arg) ==
    Answer(1, IF arg = "-s" THEN [o EXCEPT !.multi_threaded = FALSE] ELSE o)

\* pgfuse_opt_proc: 1 keeps the argument for FUSE, 0 drops it, -1 ends the
\* parsing.
OptProc(o, arg, key) ==
    CASE key = "FUSE_OPT_KEY_OPT" -> KeyOpt(o, arg)
      [] key = "FUSE_OPT_KEY_NONOPT" ->
            IF o.conninfo = Null THEN Answer(0, [o EXCEPT !.conninfo = arg])
            ELSE IF o.mountpoint = Null THEN Answer(1, [o EXCEPT !.mountpoint = arg])
            ELSE Answer(-1, o)
      [] key = "KEY_HELP"    -> Answer(-1, [o EXCEPT !.print_help = TRUE])
      [] key = "KEY_VERBOSE" -> Answer(0, [o EXCEPT !.verbose = TRUE])
      [] key = "KEY_VERSION" -> Answer(-1, [o EXCEPT !.print_version = TRUE])
      [] OTHER               -> Answer(-1, o)

\* fuse_opt_parse meets an option of the table that names a field.
StoreOption ==
    /\ pc = "parse" /\ args # <<>> /\ Head(args) \in Templates
    /\ pgfuse' = Template(pgfuse, Head(args))
    /\ args' = Tail(args)
    /\ UNCHANGED <<pc, outargs, server, conn, userdata, link, mounted, code>>

\* fuse_opt_parse calls the procedure with any other argument.
CallProc ==
    /\ pc = "parse" /\ args # <<>> /\ Head(args) \notin Templates
    /\ LET r == OptProc(pgfuse, Head(args), KeyOf(Head(args)))
       IN  /\ pgfuse' = r.o
           /\ outargs' = IF r.res = 1 THEN Append(outargs, Head(args)) ELSE outargs
           /\ pc' = IF r.res = -1 THEN "refused" ELSE "parse"
    /\ args' = Tail(args)
    /\ UNCHANGED <<server, conn, userdata, link, mounted, code>>

-----------------------------------------------------------------------------
(* main.                                                                   *)

Exit(c) == pc' = "exited" /\ code' = c

\* ExitCode, were every way out of main a success.
ExitCode_Success(o) == EXIT_SUCCESS

\* fuse_opt_parse answered -1: the help, the version, or a failure.
ExitCode(o) == IF o.print_help \/ o.print_version THEN EXIT_SUCCESS ELSE EXIT_FAILURE

ParseFailed ==
    /\ pc = "refused"
    /\ Exit(ExitCode(pgfuse))
    /\ UNCHANGED <<args, outargs, pgfuse, server, conn, userdata, link, mounted>>

MissingConninfo ==
    /\ pc = "parse" /\ args = <<>> /\ pgfuse.conninfo = Null
    /\ Exit(EXIT_FAILURE)
    /\ UNCHANGED <<args, outargs, pgfuse, server, conn, userdata, link, mounted>>

\* conn = PQconnectdb( pgfuse.conninfo ), and the way out when it failed.
Connect ==
    /\ pc = "parse" /\ args = <<>> /\ pgfuse.conninfo # Null
    /\ \/ conn' = "open" /\ pc' = "probe" /\ UNCHANGED code
       \/ conn' = "closed" /\ Exit(EXIT_FAILURE)
    /\ UNCHANGED <<args, outargs, pgfuse, server, userdata, link, mounted>>

\* PQfinish( conn ); return 1;
Bail ==
    /\ conn' = "closed" /\ Exit(1)
    /\ UNCHANGED <<args, outargs, pgfuse, server, link, mounted>>

\* PQparameterStatus( conn, "integer_datetimes" ) is there and is "on".
Datetimes ==
    /\ pc = "probe"
    /\ \/ /\ server.integer_datetimes = "on"
          /\ pc' = "dated"
          /\ UNCHANGED <<args, outargs, pgfuse, server, conn, userdata, link, mounted, code>>
       \/ server.integer_datetimes # "on" /\ Bail /\ UNCHANGED userdata

\* Agrees, were the block size of the command line taken as it is.
Agrees_Always(res, size) == TRUE

\* if( res != pgfuse.block_size ): an int against a size_t.
Agrees(res, size) == res = size

\* psql_get_block_size, the comparison, PQfinish( conn ) and the PgFuseData
\* that fuse_main gets.
BlockSize ==
    /\ pc = "dated"
    /\ \E res \in {-1, server.block_size} :
        \/ /\ res >= 0 /\ Agrees(res, pgfuse.block_size)
           /\ conn' = "closed" /\ pc' = "main"
           /\ userdata' = DataOf(pgfuse)
           /\ UNCHANGED <<args, outargs, pgfuse, server, link, mounted, code>>
        \/ (res < 0 \/ ~Agrees(res, pgfuse.block_size)) /\ Bail /\ UNCHANGED userdata

-----------------------------------------------------------------------------
(* fuse_main and the hooks.                                                *)

\* FUSE runs its loop on several threads unless it was given -s.
LoopThreaded == "-s" \notin ToSet(outargs)

\* fuse_main parses what was kept for it and mounts, or returns an error.
FuseMain ==
    /\ pc = "main"
    /\ \/ pgfuse.mountpoint # Null /\ mounted' = TRUE /\ pc' = "mounted" /\ UNCHANGED code
       \/ Exit(EXIT_FAILURE) /\ UNCHANGED mounted
    /\ UNCHANGED <<args, outargs, pgfuse, server, conn, userdata, link>>

\* pgfuse_init: the one connection or the pool, or exit( EXIT_FAILURE )
\* from inside the hook.
FuseInit ==
    /\ pc = "mounted"
    /\ \/ link' = (IF userdata.multi_threaded THEN "pool" ELSE "conn") /\ pc' = "serving"
          /\ UNCHANGED code
       \/ link' = "none" /\ Exit(EXIT_FAILURE)
    /\ UNCHANGED <<args, outargs, pgfuse, server, conn, userdata, mounted>>

\* pgfuse_destroy, when the file system is unmounted.
FuseDestroy ==
    /\ pc = "serving"
    /\ link' = "none" /\ mounted' = FALSE /\ pc' = "destroyed"
    /\ UNCHANGED <<args, outargs, pgfuse, server, conn, userdata, code>>

\* What fuse_main answers once the file system was mounted: 0 after an
\* unmount, another code when its loop failed.
LoopResults == {EXIT_SUCCESS, EXIT_FAILURE}

\* res = fuse_main( ... ); closelog( ); exit( res );
Leave ==
    /\ pc = "destroyed"
    /\ \E res \in LoopResults : Exit(res)
    /\ UNCHANGED <<args, outargs, pgfuse, server, conn, userdata, link, mounted>>

-----------------------------------------------------------------------------
(* The specification.                                                      *)

Init ==
    /\ pc = "parse"
    /\ args \in Argv
    /\ outargs = <<>>
    /\ pgfuse = Defaults
    /\ server \in Servers
    /\ conn = "none"
    /\ userdata = DataOf(Defaults)
    /\ link = "none"
    /\ mounted = FALSE
    /\ code = Running

Next ==
    \/ StoreOption \/ CallProc \/ ParseFailed \/ MissingConninfo
    \/ Connect \/ Datetimes \/ BlockSize
    \/ FuseMain \/ FuseInit \/ FuseDestroy \/ Leave

Spec == Init /\ [][Next]_vars

-----------------------------------------------------------------------------
(* Properties.                                                             *)

Sizes   == 0..(2^IntWidth - 1)
Strings == Positional \cup {Null}

\* The type invariant: every variable holds a value of its kind; the block
\* size is a size_t whatever number blocksize= carried.
MountTypeOK ==
    /\ pc \in {"parse", "refused", "probe", "dated", "main", "mounted", "serving",
               "destroyed", "exited"}
    /\ pgfuse \in [print_help : BOOLEAN, print_version : BOOLEAN, verbose : BOOLEAN,
                   conninfo : Strings, mountpoint : Strings, read_only : BOOLEAN,
                   multi_threaded : BOOLEAN, block_size : Sizes]
    /\ userdata \in [conninfo : Strings, mountpoint : Strings, verbose : BOOLEAN,
                     read_only : BOOLEAN, multi_threaded : BOOLEAN, block_size : Sizes]
    /\ server \in Servers
    /\ conn \in {"none", "open", "closed"}
    /\ link \in {"none", "conn", "pool"}
    /\ mounted \in BOOLEAN
    /\ code \in {Running, EXIT_SUCCESS, EXIT_FAILURE}
    /\ Len(args) + Len(outargs) <= Max({Len(a) : a \in Argv})

\* Data invariants 6 and 7 and the preflight: the file system is mounted only on
\* a database that stores timestamps as integers and whose block size is
\* the one the handlers work with, under a connection string, and the
\* connection of the preflight is closed by then (the checks of main
\* between PQconnectdb and fuse_main, and the PQfinish on each way out).
MountedOnCheckedDatabase ==
    /\ mounted =>
        /\ server.integer_datetimes = "on"
        /\ userdata.block_size = server.block_size
        /\ userdata.conninfo # Null /\ userdata.mountpoint # Null
    /\ pc \in {"main", "mounted", "serving", "destroyed", "exited"} => conn # "open"

\* The handlers run on one shared connection without a lock exactly when
\* FUSE runs its loop on one thread: -s reaches both pgfuse_opt_proc, which
\* clears multi_threaded, and fuse_main, which must still find it among
\* the arguments kept for it; pgfuse_init then opens the connection or the
\* pool that psql_acquire will look for.
ThreadingAgrees ==
    /\ pc \in {"main", "mounted", "serving"} => userdata.multi_threaded = LoopThreaded
    /\ pc = "serving" => link = (IF LoopThreaded THEN "pool" ELSE "conn")

\* Exit codes: the process ends with 0 only when fuse_main said so after
\* the file system was unmounted and its connections closed (exit( res )),
\* or when the help or the version was asked for, which always ends with 0
\* and never touches the database or the mount point; every failure of the
\* parsing, of the preflight or of pgfuse_init ends it with another code.
ExitCodeTellsOutcome ==
    [][pc' = "exited" =>
        LET asked == pc = "refused" /\ (pgfuse.print_help \/ pgfuse.print_version)
        IN  /\ code' = EXIT_SUCCESS => pc = "destroyed" \/ asked
            /\ asked => code' = EXIT_SUCCESS
            /\ code' = EXIT_SUCCESS => ~mounted' /\ link' = "none" /\ conn' # "open"]_vars

=============================================================================
