----------------------------- MODULE MCRuntime -----------------------------
(***************************************************************************)
(* A task table for model checking Runtime: OB1 and an urgent cyclic OB.   *)
(***************************************************************************)
EXTENDS Runtime

Two == {1, 2}
Kinds2 == <<"main", "cyclic">>
Priorities2 == <<1, 5>>
Periods2 == <<2, 2>>
Watchdogs2 == <<3, 2>>
OneEach2 == <<1, 1>>
NoTask == {}
CyclicCommands == {"LOAD", "RUN", "STOP"}
=============================================================================
