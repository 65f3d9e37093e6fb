------------------------------ MODULE MCStudio ------------------------------
(***************************************************************************)
(* Requests and projects for model checking Studio.                        *)
(***************************************************************************)
EXTENDS Studio, TLC

CONSTANTS c1, c2, p1, p2

Clients == {c1, c2}
Contents == {p1, p2}
OneContent == {p1}
AllCommands == {"LOAD", "CONTROL", "STATUS"}
LoadAndPoll == {"LOAD", "STATUS"}
Symmetric == Permutations(Clients) \cup Permutations(Contents)
=============================================================================
