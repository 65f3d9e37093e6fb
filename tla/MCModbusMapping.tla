-------------------------- MODULE MCModbusMapping --------------------------
(***************************************************************************)
(* Small address spaces and words for model checking ModbusMapping.        *)
(***************************************************************************)
EXTENDS ModbusMapping

AllKinds == {"byte", "int", "dint", "real"}
Edges == {-8, -2, 0, 1, 7, 9}
=============================================================================
