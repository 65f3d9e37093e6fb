-------------------------- MODULE MCRuntimeHistory --------------------------
(***************************************************************************)
(* A task table for model checking Runtime with its history: OB1, an       *)
(* urgent cyclic OB and a startup OB.                                      *)
(***************************************************************************)
EXTENDS RuntimeHistory

Three == {1, 2, 3}
Kinds == <<"main", "cyclic", "startup">>
Priorities == <<3, 5, 1>>
Periods == <<2, 3, 3>>
Watchdogs == <<3, 2, 2>>
OneEach == <<1, 1, 1>>
OnlyMain == {1}
Others == {2, 3}
AllCommands == {"LOAD", "RUN", "STOP", "RESET", "STEP", "SET", "STATUS", "QUIT"}
=============================================================================
