---------------------------- MODULE MCTransport ----------------------------
(* A reply is read in two parts: a byte, then two. *)
EXTENDS Transport
Sizes == <<1, 3>>
=============================================================================
