---------------------------- MODULE DelayedCopy ----------------------------
(***************************************************************************)
(* Copies that follow their sources with a delay.  A source counts its     *)
(* changes, so that its value names its moment; a copy may skip values and *)
(* lag behind, but it neither goes back nor invents anything.  ModbusIo    *)
(* implements this for the input points.                                   *)
(***************************************************************************)
EXTENDS Naturals

CONSTANT Item

VARIABLES source, copy

Init == source = [i \in Item |-> 0] /\ copy = [i \in Item |-> 0]

\* Some of the sources change.
Change ==
  /\ source' \in [Item -> Nat]
  /\ \A i \in Item : source'[i] \in {source[i], source[i] + 1}
  /\ UNCHANGED copy

\* Some of the copies catch up, not necessarily with the present.
Refresh ==
  /\ copy' \in [Item -> Nat]
  /\ \A i \in Item : copy'[i] \in copy[i]..source[i]
  /\ UNCHANGED source

Next == Change \/ Refresh

Spec == Init /\ [][Next]_<<source, copy>>
=============================================================================
