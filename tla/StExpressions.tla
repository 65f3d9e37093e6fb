---------------------------- MODULE StExpressions ----------------------------
(***************************************************************************)
(* Expressions and assignments of Structured Text, one node at a time: how *)
(* src/src/st/interpreter.cpp evaluates a node from the values of its      *)
(* operands, and how the type check of src/apps/plc_codegen/main.cpp types *)
(* it from their types.  StProgram applies both along whole trees.         *)
(***************************************************************************)
EXTENDS StValues

Operands(e) ==
  CASE e.kind = "Unary" -> {e.operand} [] e.kind = "Binary" -> {e.lhs, e.rhs} [] OTHER -> {}

\* Both operands are evaluated, also those of AND and OR.
Unary(op, v) == IF IsError(v) THEN v ELSE EvalUnary(op, v)
Binary(op, l, r) ==
  CASE IsError(l) -> l
    [] ~IsError(l) /\ IsError(r) -> r
    [] OTHER -> CASE op \in Arithmetic -> EvalArithmetic(op, l, r)
                  [] op \in Comparison -> EvalComparison(op, l, r)
                  [] op \in Logical -> EvalLogical(op, l, r)
\* The value of e over the values of the tags, given those of its operands.
ValueOf(e, value, of) ==
  CASE e.kind = "Literal" -> e.value
    [] e.kind = "Identifier" -> value[e.tag]
    [] e.kind = "Unary" -> Unary(e.op, of[e.operand])
    [] e.kind = "Binary" -> Binary(e.op, of[e.lhs], of[e.rhs])

\* What an assignment of v writes into a tag of type t, or why it fails.
Assigned(v, t) == IF IsError(v) THEN v ELSE CoerceToType(v, t)
Raise(m, e) == [m EXCEPT !.error = e]
Store(P, m, tag, v) ==
  LET w == Assigned(v, P.tags[tag].type)
  IN IF IsError(w) THEN Raise(m, w.type) ELSE [m EXCEPT !.value[tag] = w]

-----------------------------------------------------------------------------
(* The type check of the generator; "none" is a type it refuses.           *)

\* Mutant: any two values of one type can be compared.
BinaryTypeLax(op, a, b) ==
  CASE op \in Logical -> IF a = "BOOL" /\ b = "BOOL" THEN "BOOL" ELSE "none"
    [] op \in Comparison -> IF a = b /\ a # "none" THEN "BOOL" ELSE "none"
    [] op \in Arithmetic -> IF a = b /\ a # "none" /\ IsNumeric(a) THEN a ELSE "none"
BinaryType(op, a, b) ==
  LET numeric == a # "none" /\ b # "none" /\ IsNumeric(a) /\ IsNumeric(b)
  IN CASE op \in Logical -> IF a = "BOOL" /\ b = "BOOL" THEN "BOOL" ELSE "none"
       [] op \in Comparison -> IF \/ numeric
                                  \/ a = b /\ a \in {"TIME", "STRING"}
                                  \/ a = b /\ a = "BOOL" /\ op \in {"=", "<>"} THEN "BOOL" ELSE "none"
       [] op \in Arithmetic -> IF a = "TIME" /\ b = "TIME" /\ op \in {"+", "-"} THEN "TIME"
                               ELSE IF numeric THEN NumericResultType(a, b) ELSE "none"
UnaryType(op, t) ==
  IF \/ op = "NOT" /\ t = "BOOL"
     \/ op = "-" /\ t \in {"TIME"} \cup Floats \cup Whole THEN t ELSE "none"
\* The type of e over typed tags, given the types of its operands.
TypeOf(e, tags, of) ==
  CASE e.kind = "Literal" -> e.value.type
    [] e.kind = "Identifier" -> tags[e.tag].type
    [] e.kind = "Unary" -> UnaryType(e.op, of[e.operand])
    [] e.kind = "Binary" -> BinaryType(e.op, of[e.lhs], of[e.rhs])
Assignable(P, tag, t) == t # "none" /\ (P.tags[tag].type = t \/ (IsNumeric(P.tags[tag].type) /\ IsNumeric(t)))

-----------------------------------------------------------------------------
(* What evaluation and assignment promise.                                 *)

Within(q, t) == Least[t] * q.den <= q.num /\ q.num <= Greatest[t] * q.den
\* A value of its type, in the range of the type.
IsValue(v) ==
  /\ v \in [type : Types, num : Int, den : Nat \ {0}]
  /\ v.type \notin Floats => v.den = 1
  /\ v.type = "BOOL" => v.num \in {0, 1}
  /\ v.type \notin {"BOOL", "STRING"} => Within(v, v.type)
WellTyped(tags, value) == \A i \in DOMAIN tags : IsValue(value[i]) /\ value[i].type = tags[i].type

\* The exact result of a sum, difference, product or quotient.
Operation(op, l, r) ==
  CASE op = "+" -> Fraction("LREAL", l.num * r.den + r.num * l.den, l.den * r.den)
    [] op = "-" -> Fraction("LREAL", l.num * r.den - r.num * l.den, l.den * r.den)
    [] op = "*" -> Fraction("LREAL", l.num * r.num, l.den * r.den)
    [] op = "/" -> Fraction("LREAL", l.num * r.den, l.den * r.num)
\* q without its fraction.
Whole0(q) == CHOOSE n \in -Magnitude(q.num)..Magnitude(q.num) :
               Magnitude(n) * q.den <= Magnitude(q.num) /\ Magnitude(q.num) < (Magnitude(n) + 1) * q.den /\ n * q.num >= 0
Wider(a, b) ==
  IF {a, b} \subseteq Whole
  THEN IF "DINT" \in {a, b} THEN "DINT" ELSE IF "INT" \in {a, b} THEN "INT" ELSE "BYTE"
  ELSE IF "LREAL" \in {a, b} THEN "LREAL" ELSE "REAL"
Less(a, b) == a.num * b.den < b.num * a.den
\* The numbers of a format and those just beyond its range.
Numbers(t) == {Fraction(t, i * k * s, Finest[t]) : i \in {-1, 1}, k \in 0..Significand[t], s \in Spacings[t]}
\* What q may become in a type: q without its fraction, or a number of the format with no other
\* from q up or down to it, which is q if q is one of them; or it is out of range.
Converted(q, t) ==
  LET numbers == Numbers(t)
  IN IF t \in Whole THEN {IF Within(q, t) THEN Of(t, Whole0(q)) ELSE Failed("overflow")}
     ELSE {f \in numbers : /\ Within(f, t)
                            /\ \A x \in numbers : (~Less(x, q) => ~Less(x, f)) /\ (~Less(q, x) => ~Less(f, x))}
          \cup IF Within(q, t) THEN {} ELSE {Failed("overflow")}
\* w is the result of an operation, converted to the wider type of the operands and then to
\* that of the target, or it is refused because one of them cannot hold it.
RightOrRefused(op, l, r, target, w) ==
  IF op = "/" /\ r.num = 0 THEN w = Failed("division by zero")
  ELSE \E v \in Converted(Operation(op, l, r), Wider(l.type, r.type)) :
         IF IsError(v) THEN w = v ELSE w \in Converted(v, target)
=============================================================================
