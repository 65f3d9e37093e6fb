----------------------------- MODULE MCModbusIo -----------------------------
(***************************************************************************)
(* Configurations for model checking ModbusIo.                             *)
(***************************************************************************)
EXTENDS ModbusIo

\* A unit on a serial line: a batch of two inputs, one like it, and a lone one.
InBatchOf == <<1, 1, 2, 3>>
InDeviceOf == <<1, 1, 1>>
InExtent == <<2, 2, 1>>
FunctionCode == [b \in Batch |-> IF b \in Writes THEN 16 ELSE 3]
OneExtent == [b \in Batch |-> 1]
NoImage == {[p \in Point |-> 0]}

\* A TCP device with a batch of two outputs.
OutBatchOf == <<1, 1>>
OutDeviceOf == <<1>>
OneBusOf == <<1>>
\* Programs that set the outputs to one of these pairs, never to 2 and 1.
OutPairs == {<<1, 1>>, <<1, 2>>, <<2, 2>>}

\* A TCP device with an input and a batch of two outputs, which programs set alike.
IoBatchOf == <<1, 2, 2>>
IoDeviceOf == <<1, 1>>
IoPairs == {<<0, 1, 1>>, <<0, 2, 2>>}
=============================================================================
