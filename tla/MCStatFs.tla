------------------------------ MODULE MCStatFs ------------------------------
(* Hosts for the runs of StatFs. *)
EXTENDS StatFs

\* /, /a, /a/b and /ab: a mount point, a directory below it, and a sibling
\* whose name begins with the name of the mount point.
McDirs == {<<"/">>, <<"/", "a">>, <<"/", "a", "/", "b">>, <<"/", "a", "b">>}

\* No tablespace, one, and two on different branches.
McTablespaces ==
    {{}, {<<"/", "a", "/", "b">>}, {<<"/", "a", "b">>},
     {<<"/", "a", "/", "b">>, <<"/", "a", "b">>}}

\* /, /a, /a/b and /c: no name begins another.
McPlainDirs == {<<"/">>, <<"/", "a">>, <<"/", "a", "/", "b">>, <<"/", "c">>}

McPlainTablespaces ==
    {{}, {<<"/", "a", "/", "b">>}, {<<"/", "c">>},
     {<<"/", "a", "/", "b">>, <<"/", "c">>}}

\* A small file system whose free and available counts differ, and one whose
\* free bytes exceed INT64_MAX of the model.
McFsStats ==
    {[f_bfree |-> 3, f_bavail |-> 2, f_frsize |-> 2],
     [f_bfree |-> 20, f_bavail |-> 20, f_frsize |-> 2]}
=============================================================================
