----------------------------- MODULE StLibrary -----------------------------
(***************************************************************************)
(* The standard function blocks, which every program is loaded with:       *)
(* src/include/softplc/st/standard_fbs.hpp, as the words of its text.      *)
(***************************************************************************)
EXTENDS Sequences

BoolVar(name) == <<name, ":", "BOOL", ";">>
TimeVar(name) == <<name, ":", "TIME", ";">>
CountVar(name) == <<name, ":", "DINT", ";">>
StandardBlock(name, inputs, outputs, vars, body) ==
  <<"FUNCTION_BLOCK", name, "VAR_INPUT">> \o inputs \o <<"END_VAR", "VAR_OUTPUT">> \o outputs \o <<"END_VAR">>
  \o (IF vars = <<>> THEN <<>> ELSE <<"VAR">> \o vars \o <<"END_VAR">>) \o body \o <<"END_FUNCTION_BLOCK">>
SetTo(name, value) == <<name, ":=", value, ";">>
IfElse(cond, body, else) ==
  <<"IF">> \o cond \o <<"THEN">> \o body \o (IF else = <<>> THEN <<>> ELSE <<"ELSE">> \o else) \o <<"END_IF", ";">>
QIf(cond) == IfElse(cond, SetTo("Q", "TRUE"), SetTo("Q", "FALSE"))
\* ET grows by the time since the last scan, up to PT.
Elapse == <<"ET", ":=", "ET", "+", "System", ".", "CycleTime", ";">> \o IfElse(<<"ET", ">", "PT">>, SetTo("ET", "PT"), <<>>)

TON == StandardBlock("TON", BoolVar("IN") \o TimeVar("PT"), BoolVar("Q") \o TimeVar("ET"), <<>>,
  IfElse(<<"IN">>, Elapse \o QIf(<<"ET", ">=", "PT">>), SetTo("ET", "T#0s") \o SetTo("Q", "FALSE")))
TOF == StandardBlock("TOF", BoolVar("IN") \o TimeVar("PT"), BoolVar("Q") \o TimeVar("ET"), <<>>,
  IfElse(<<"IN">>, SetTo("Q", "TRUE") \o SetTo("ET", "T#0s"),
     IfElse(<<"Q">>, Elapse \o IfElse(<<"ET", ">=", "PT">>, SetTo("Q", "FALSE"), <<>>), <<>>)))
CTU == StandardBlock("CTU", BoolVar("CU") \o BoolVar("R") \o CountVar("PV"), BoolVar("Q") \o CountVar("CV"), BoolVar("M"),
  IfElse(<<"R">>, SetTo("CV", "0") \o SetTo("M", "FALSE"),
     IfElse(<<"CU", "AND", "NOT", "M">>, <<"CV", ":=", "CV", "+", "1", ";">>, <<>>) \o SetTo("M", "CU"))
  \o QIf(<<"CV", ">=", "PV">>))
CTD == StandardBlock("CTD", BoolVar("CD") \o BoolVar("LD") \o CountVar("PV"), BoolVar("Q") \o CountVar("CV"), BoolVar("M"),
  IfElse(<<"LD">>, SetTo("CV", "PV") \o SetTo("M", "FALSE"),
     IfElse(<<"CD", "AND", "NOT", "M">>, IfElse(<<"CV", ">", "0">>, <<"CV", ":=", "CV", "-", "1", ";">>, <<>>), <<>>) \o SetTo("M", "CD"))
  \o QIf(<<"CV", "<=", "0">>))
StandardLibrary == TON \o TOF \o CTU \o CTD
=============================================================================
