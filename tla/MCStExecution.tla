-------------------------- MODULE MCStExecution --------------------------
(***************************************************************************)
(* The texts on which TLC checks StExecution, in families: expressions of  *)
(* two operators, pairs of statements in blocks that call one another,     *)
(* arithmetic at the edges of the types, and single programs, among them   *)
(* one that is loaded after a slip in its text.                            *)
(***************************************************************************)
EXTENDS StExecution

LeastDef == [BYTE |-> 0, INT |-> -8, DINT |-> -32, REAL |-> -60, LREAL |-> -1023, TIME |-> -100]
GreatestDef == [BYTE |-> 7, INT |-> 7, DINT |-> 31, REAL |-> 60, LREAL |-> 1023, TIME |-> 100]
\* A REAL has 4 binary digits and steps of 1/4, an LREAL has 10 digits and steps of 1/64.
SignificandDef == [REAL |-> 16, LREAL |-> 1024]
FinestDef == [REAL |-> 4, LREAL |-> 64]
SpacingsDef == [REAL |-> {1, 2, 4, 8, 16}, LREAL |-> {1, 2, 4, 8, 16, 32, 64}]

Number(kind, n, d) == [kind |-> kind, num |-> n, den |-> d]
LiteralsDef ==
  [w \in {ToString(n) : n \in 0..31} |-> Number("int", CHOOSE n \in 0..31 : ToString(n) = w, 1)]
  @@ [TRUE |-> Number("bool", 1, 1), FALSE |-> Number("bool", 0, 1)]
  @@ ("0.5" :> Number("real", 1, 2)) @@ ("7.5" :> Number("real", 15, 2)) @@ ("60.0" :> Number("real", 60, 1))
  @@ ("T#0s" :> Number("time", 0, 1)) @@ ("T#3ms" :> Number("time", 3, 1)) @@ ("'a'" :> Number("string", 1, 1))
InputsDef == {"%IX0", "%IX1", "%IB0", "%IW0", "%ID0", "%ID1"}
AddressesDef == InputsDef \cup {"%QX0", "%QX1", "%QW0"}
SamplesDef ==
  [BOOL |-> {Truth(FALSE), Truth(TRUE)}, BYTE |-> {Of("BYTE", 1), Of("BYTE", 7)},
   INT |-> {Of("INT", -8), Of("INT", -1), Of("INT", 3), Of("INT", 7)}, DINT |-> {Of("DINT", -32), Of("DINT", 7)},
   REAL |-> {Fraction("REAL", -1, 2), Of("REAL", 30), Of("REAL", 60)}]

-----------------------------------------------------------------------------
(* Expressions of two operators over a BOOL and an INT.                    *)

Operators == Arithmetic \cup Comparison \cup Logical
b == IdentifierExpr(<<"b">>)
i == IdentifierExpr(<<"i">>)
Two == LiteralExpr(Of("DINT", 2))
Leaves == {<<i, Two, i>>, <<b, b, b>>, <<i, Two, b>>}
Expressions ==
  UNION {{BinaryExpr(o, BinaryExpr(p, x[1], x[2]), x[3]), BinaryExpr(o, x[1], BinaryExpr(p, x[2], x[3])),
          UnaryExpr("-", BinaryExpr(o, x[1], x[2])), BinaryExpr(o, UnaryExpr("NOT", x[1]), BinaryExpr(p, UnaryExpr("-",
              x[2]), x[3]))}
         : o \in Operators, p \in Operators, x \in Leaves}
TypeFor(e) == IF e.kind = "Binary" /\ e.op \notin Arithmetic THEN "BOOL" ELSE "INT"
ExpressionTexts ==
  {<<"PROGRAM", "Main", "VAR", "b", ":", "BOOL", ":=", "TRUE", ";", "i", ":", "INT", ":=", "3", ";", "z",
      ":">> \o <<TypeFor(e)>> \o <<";", "END_VAR", "z", ":=">>
   \o Expression(e) \o <<";", "END_PROGRAM">> : e \in Expressions}

-----------------------------------------------------------------------------
(* Blocks that call blocks: a function F, a block N with memory, and a     *)
(* block B that uses both, each with two of its statements.                *)

FunctionStatements ==
  {<<"y", ":=", "a", "+", "y", ";">>,
   <<"y", ":=", "t", "+", "1", ";">>,
   <<"t", ":=", "a", ";">>,
   <<"IF", "a", ">", "g", "THEN", "y", ":=", "1", ";", "END_IF", ";">>}
BlockStatements ==
  {<<"s", ":=", "s", "+", "a", ";">>,
   <<"t", ":=", "t", "+", "1", ";">>,
   <<"y", ":=", "s", "+", "t", ";">>,
   <<"F", "(", "a", ":=", "a", ",", "y", "=>", "s", ")", ";">>,
   <<"n", "(", "a", ":=", "a", ",", "y", "=>", "t", ")", ";">>,
   <<"K", "(", "a", ":=", "1", ",", "y", "=>", "y", ")", ";">>,
   <<"y", ":=", "n", ".", "s", "+", "K", ".", "s", ";">>}
ProgramStatements ==
  {<<"p", "(", "a", ":=", "x", ",", "y", "=>", "g", ")", ";">>,
   <<"q", "(", "a", ":=", "g", ")", ";", "g", ":=", "p", ".", "y", ";">>,
   <<"F", "(", "a", ":=", "x", ",", "y", "=>", "g", ")", ";">>,
   <<"K", "(", "a", ":=", "g", ",", "y", "=>", "x2", ")", ";">>,
   <<"D", ".", "v", ":=", "q", ".", "n", ".", "s", ";">>}
Pairs(S) == {s \o t : s, t \in S}
BlockText(f, c, m) ==
  <<"FUNCTION", "F", "VAR_INPUT", "a", ":", "INT", ";", "END_VAR", "VAR_OUTPUT", "y", ":", "INT", ";", "END_VAR",
      "VAR_TEMP", "t", ":", "INT", ":=", "2", ";", "END_VAR">> \o f \o <<"END_FUNCTION">>
  \o <<"FUNCTION_BLOCK", "N", "VAR_INPUT", "a", ":", "INT", ";", "END_VAR", "VAR_OUTPUT", "y", ":", "INT", ";", "END_VAR",
      "VAR", "s", ":", "INT", ";", "END_VAR", "s", ":=", "s", "+", "a", ";", "y", ":=", "s", ";", "END_FUNCTION_BLOCK">>
  \o <<"FUNCTION_BLOCK", "B", "VAR_INPUT", "a", ":", "INT", ";", "END_VAR", "VAR_OUTPUT", "y", ":", "INT", ";", "END_VAR",
      "VAR", "s", ":", "INT", ":=", "1", ";", "n", ":", "N", ";", "END_VAR", "VAR_TEMP", "t", ":", "INT", ";",
      "END_VAR">> \o c \o <<"END_FUNCTION_BLOCK">>
  \o <<"DATA_BLOCK", "D", "VAR", "v", ":", "INT", ";", "END_VAR", "END_DATA_BLOCK">>
  \o <<"PROGRAM", "Main", "VAR", "x", "AT", "%IB0", ":", "BYTE", ";", "g", "AT", "%QW0", ":", "INT", ":=", "1", ";", "x2",
      ":", "DINT", ";", "K", ":", "N", ";", "p", ":", "B", ";", "q", ":", "B", ";", "END_VAR">> \o m \o <<"END_PROGRAM">>
OneFunction == <<"t", ":=", "a", ";", "y", ":=", "t", "+", "y", ";">>
TwoCalls == <<"F", "(", "a", ":=", "x", ",", "y", "=>", "g", ")", ";", "p", "(", "a", ":=", "g", ",", "y", "=>", "g", ")", ";">>
FunctionCall == <<"F", "(", "a", ":=", "a", ",", "y", "=>", "s", ")", ";", "y", ":=", "s", ";">>
BlockTexts ==
  {BlockText(f, FunctionCall, TwoCalls) : f \in Pairs(FunctionStatements)}
  \cup {BlockText(OneFunction, c, m) : c \in Pairs(BlockStatements), m \in Pairs(ProgramStatements)}

-----------------------------------------------------------------------------
(* Arithmetic: z := x op y for every choice of types, x an input, y one of *)
(* a few initial values.                                                   *)

Numeric == {"BYTE", "INT", "DINT", "REAL"}
AddressFor == [BYTE |-> "%IB0", INT |-> "%IW0", DINT |-> "%ID0", REAL |-> "%ID1"]
Starts == [BYTE |-> {<<"0">>, <<"3">>, <<"7">>}, INT |-> {<<"-", "8">>, <<"-", "3">>, <<"0">>, <<"2">>},
           DINT |-> {<<"-", "31">>, <<"-", "1">>, <<"31">>}, REAL |-> {<<"-", "0.5">>, <<"7.5">>, <<"60.0">>}]
ArithmeticTexts ==
  UNION {{<<"PROGRAM", "Main", "VAR", "x", "AT", AddressFor[t], ":", t, ";", "y", ":", u, ":=">> \o start
          \o <<";", "z", ":", v, ";", "END_VAR", "z", ":=", "x", op, "y", ";", "END_PROGRAM">>
          : start \in Starts[u], op \in Arithmetic, t \in Numeric, v \in Numeric} : u \in Numeric}

-----------------------------------------------------------------------------
(* Single programs.                                                        *)

\* A program with two switches and a lamp.
Main(decls, body) ==
  <<"PROGRAM", "Main", "VAR", "x", "AT", "%IX0", ":", "BOOL", ";", "y", "AT", "%IX1", ":", "BOOL", ";", "o", "AT", "%QX0",
      ":", "BOOL", ";">> \o decls
  \o <<"END_VAR">> \o body \o <<"END_PROGRAM">>
Works ==
  {Main(<<"i", ":", "INT", ";">>, <<"RUNG", "x", "AND", "NOT", "y", "=>", "o", ";", "RUNG", "y", "=>", "SET", "o", ",",
      "RESET", "o", ";">>),
   Main(<<"i", ":", "INT", ";">>, <<"RUNG", "x", "=>", "SET", "o", ";", "RUNG", "y", "=>", "RESET", "o", ",", "o", ";">>),
   Main(<<"i", ":", "INT", ";">>, <<"IF", "x", "THEN", "i", ":=", "i", "+", "1", ";", "ELSIF", "y", "THEN", "i", ":=", "-",
       "i", ";", "ELSE", "i", ":=", "2", ";", "END_IF", ";", "WHILE", "i", ">", "1", "DO", "i", ":=", "i", "-", "1", ";",
       ";", "END_WHILE", ";">>),
   Main(<<"i", ":", "INT", ";">>, <<"WHILE", "x", "DO", "i", ":=", "i", "+", "1", ";", "i", ":=", "0", ";", "END_WHILE", ";">>),
   Main(<<"i", ":", "INT", ";">>, <<"WHILE", "i", "<", "3", "DO", "i", ":=", "i", "+", "1", ";", "END_WHILE", ";", "i",
       ":=", "0", ";", "WHILE", "x", "AND", "i", "<", "4", "DO", "i", ":=", "i", "+", "1", ";", "END_WHILE", ";">>),
   Main(<<"t", ":", "TON", ";", "u", ":", "TOF", ";">>, <<"t", "(", "IN", ":=", "x", ",", "PT", ":=", "T#3ms", ")", ";",
       "u", "(", "IN", ":=", "x", ",", "PT", ":=", "T#3ms", ")", ";">>),
   Main(<<"i", ":", "INT", ";", "c", ":", "CTU", ";", "d", ":", "CTD", ";">>, <<"c", "(", "CU", ":=", "x", ",", "R", ":=",
       "y", ",", "PV", ":=", "2", ",", "Q", "=>", "o", ")", ";", "d", "(", "CD", ":=", "x", ",", "LD", ":=", "y", ",",
       "PV", ":=", "2", ")", ";", "i", ":=", "c", ".", "CV", ";">>),
   <<"FUNCTION", "F", "VAR_INPUT", "a", ":", "INT", ";", "END_VAR", "VAR_OUTPUT", "y", ":", "INT", ";", "END_VAR", "y",
       ":=", "a", "+", "1", ";", "END_FUNCTION">> \o Main(<<"i", ":", "INT", ";">>, <<"WHILE", "i", "<", "3", "DO", "F",
       "(", "a", ":=", "i", ",", "y", "=>", "i", ")", ";", "END_WHILE", ";", "IF", "x", "THEN", "F", "(", "a", ":=", "i",
       ",", "y", "=>", "i", ")", ";", "END_IF", ";", "i", ":=", "i", "-", "3", ";">>),
   Main(<<"i", ":", "INT", ";", "a", ":", "STRING", ":=", "'a'", ";", "t", ":", "TIME", ":=", "T#3ms", ";", "r", ":",
       "LREAL", ":=", "-", "0.5", ";">>, <<"o", ":=", "a", "<", "'a'", "OR", "t", "-", "T#3ms", "=", "T#0s", "XOR", "r",
       "<=", "7.5", ";">>)}
Refused ==
  {<<"FUNCTION", "F", "VAR_INPUT", "a", ":", "INT", ";", "END_VAR", "END_FUNCTION">>,
   <<"FUNCTION_BLOCK", "A", "VAR", "a", ":", "A", ";", "END_VAR", "END_FUNCTION_BLOCK">> \o Main(<<"a", ":", "A", ";">>, <<>>),
   <<"FUNCTION_BLOCK", "A", "VAR", "c", ":", "C", ";", "END_VAR", "END_FUNCTION_BLOCK", "FUNCTION_BLOCK", "C", "VAR", "a",
       ":", "A", ";", "END_VAR", "END_FUNCTION_BLOCK">> \o Main(<<"a", ":", "A", ";">>, <<>>),
   <<"FUNCTION", "F", "VAR_OUTPUT", "y", ":", "INT", ";", "END_VAR", "F", "(", "y", "=>", "y", ")", ";",
       "END_FUNCTION">> \o Main(<<"i", ":", "INT", ";">>, <<"F", "(", "y", "=>", "i", ")", ";">>),
   <<"FUNCTION", "F", "VAR_OUTPUT", "y", ":", "INT", ";", "END_VAR", "G", "(", "y", "=>", "y", ")", ";", "END_FUNCTION",
       "FUNCTION", "G", "VAR_OUTPUT", "y", ":", "INT", ";", "END_VAR", "F", "(", "y", "=>", "y", ")", ";",
       "END_FUNCTION">> \o Main(<<"i", ":", "INT", ";">>, <<"F", "(", "y", "=>", "i", ")", ";">>),
   Main(<<"i", ":", "INT", ";">>, <<"i", ":=", "j", ";">>),
   Main(<<"i", ":", "INT", ";", "t", ":", "TON", ";">>, <<"o", ":=", "t", ".", "R", ";">>),
   <<"FUNCTION", "F", "VAR_INPUT", "a", ":", "INT", ";", "END_VAR", "VAR_OUTPUT", "y", ":", "INT", ";", "END_VAR", "y",
       ":=", "a", ";", "END_FUNCTION">> \o Main(<<"i", ":", "INT", ";">>, <<"F", "(", "y", "=>", "i", ")", ";">>),
   Main(<<"i", ":", "INT", ";", "t", ":", "TON", ";">>, <<"t", "(", "IN", "=>", "o", ")", ";">>),
   Main(<<"i", ":", "INT", ";">>, <<"RUNG", "x", "=>", "i", ";">>),
   Main(<<"i", ":", "INT", ";">>, <<"TON", "(", "IN", ":=", "x", ")", ";">>),
   <<"FUNCTION", "TON", "VAR_INPUT", "a", ":", "INT", ";", "END_VAR", "END_FUNCTION">> \o Main(<<"i", ":", "INT", ";">>, <<>>),
   Main(<<"i", "AT", "%QX0", ":", "INT", ";">>, <<>>),
   Main(<<"x", ":", "INT", ";">>, <<>>),
   <<"FUNCTION_BLOCK", "A", "VAR_INPUT", "a", ":", "INT", ";", "END_VAR", "k", "(", "a", ":=", "1", ")", ";",
       "END_FUNCTION_BLOCK">> \o Main(<<"a", ":", "A", ";", "k", ":", "A", ";">>, <<>>),
   <<"FUNCTION_BLOCK", "A", "VAR_INPUT", "a", ":", "INT", ";", "END_VAR", "k", "(", "a", ":=", "1", ")", ";",
       "END_FUNCTION_BLOCK">> \o Main(<<"k", ":", "A", ";">>, <<>>),
   Main(<<"i", ":", "XYZ", ";">>, <<>>),
   Main(<<"i", ":", "INT", ";">>, <<"i", ":=", "Main", "(", ")", ";">>)}
Slip ==
  <<"FUNCTION", "F", "VAR_INPUT", "a", ":", "INT", ";", "END_VAR", "VAR_OUTPUT", "y", ":", "INT", ";", "END_VAR", "IF",
      "a", ">=", "2", "THEN", "y", ":=", "(", "a", "+", "1", ")", "*", "2", ";", "ELSE", "y", ":=", "-", "1", ";",
      "END_IF", ";", "END_FUNCTION", "DATA_BLOCK", "D", "VAR", "v", ":", "INT", ":=", "-", "3", ";", "END_VAR",
      "END_DATA_BLOCK", "PROGRAM", "Main", "VAR", "x", "AT", "%IX0", ":", "BOOL", ";", "o", "AT", "%QX0", ":", "BOOL", ";",
      "t", ":", "TON", ";", "END_VAR", "F", "(", "a", ":=", "D", ".", "v", ",", "y", "=>", "D", ".", "v", ")", ";",
      "WHILE", "D", ".", "v", ">", "7", "DO", "D", ".", "v", ":=", "D", ".", "v", "-", "2", ";", "END_WHILE", ";", "t",
      "(", "IN", ":=", "x", ",", "PT", ":=", "T#3ms", ",", "Q", "=>", "o", ")", ";", "RUNG", "x", "OR", "t", ".", "Q",
      "=>", "SET", "o", ",", "o", ";", "END_PROGRAM">>

SourcesDef == ExpressionTexts \cup BlockTexts \cup ArithmeticTexts \cup Works \cup Refused \cup {Slip}
DraftsDef == {Slip}
=============================================================================
