---------------------------- MODULE StExecution ----------------------------
(***************************************************************************)
(* What parsing, binding and running a source must achieve together.       *)
(***************************************************************************)
EXTENDS StProgram

\* The words of a tree, with no more parentheses than the precedences need.
WordOf(v) == CHOOSE w \in DOMAIN Literals : LiteralOf(w) = v
\* The words Part gives for the places 1..n, one after the other.
Joined(Part(_), n) == LET upTo[k \in 0..n] == IF k = 0 THEN <<>> ELSE upTo[k - 1] \o Part(k) IN upTo[n]
Dotted(name) == Joined(LAMBDA k : IF k = 1 THEN <<name[k]>> ELSE <<".", name[k]>>, Len(name))
Commas(Part(_), n) == Joined(LAMBDA k : IF k = 1 THEN Part(k) ELSE <<",">> \o Part(k), n)
LevelOf(op) == CHOOSE k \in DOMAIN Levels : op \in Levels[k]
RECURSIVE WordsOf(_, _), Text(_)
WordsOf(e, k) ==
  CASE e.kind = "Literal" -> <<WordOf(e.value)>>
    [] e.kind = "Identifier" -> Dotted(e.name)
    [] e.kind = "Unary" -> <<e.op>> \o WordsOf(e.operand, Len(Levels) + 1)
    [] e.kind = "Binary" ->
         LET j == LevelOf(e.op)
             words == WordsOf(e.lhs, j) \o <<e.op>> \o WordsOf(e.rhs, j + 1)
         IN IF j < k THEN <<"(">> \o words \o <<")">> ELSE words
Expression(e) == WordsOf(e, 1)
ArgText(a) == IF IsOutput(a) THEN <<a.param, "=>">> \o Dotted(a.output) ELSE <<a.param, ":=">> \o Expression(a.input)
CoilText(o) == (IF o.kind = "Direct" THEN <<>> ELSE <<o.kind>>) \o Dotted(o.target)
BranchText(branches) ==
  Joined(LAMBDA k : <<IF k = 1 THEN "IF" ELSE "ELSIF">> \o Expression(branches[k].cond) \o <<"THEN">> \o Text(branches[k].body),
         Len(branches))
StatementText(s) ==
  CASE s.kind = "Assign" -> Dotted(s.target) \o <<":=">> \o Expression(s.value)
    [] s.kind = "If" -> BranchText(s.branches) \o (IF s.elseBody = <<>> THEN <<>> ELSE <<"ELSE">> \o Text(s.elseBody)) \o <<"END_IF">>
    [] s.kind = "While" -> <<"WHILE">> \o Expression(s.cond) \o <<"DO">> \o Text(s.body) \o <<"END_WHILE">>
    [] s.kind = "Call" -> Dotted(s.callee) \o <<"(">> \o Commas(LAMBDA k : ArgText(s.args[k]), Len(s.args)) \o <<")">>
    [] s.kind = "Rung" -> <<"RUNG">> \o Expression(s.cond) \o <<"=>">> \o Commas(LAMBDA k : CoilText(s.outputs[k]), Len(s.outputs))
Text(stmts) == Joined(LAMBDA k : StatementText(stmts[k]), Len(stmts))
InitialText(v) ==
  LET kinds == IF v.type \in Whole \cup Floats THEN {"int", "real"} ELSE {k \in DOMAIN LiteralTypes : LiteralTypes[k] = v.type}
      word == CHOOSE w \in LiteralWords : /\ Literals[w].kind \in kinds
                                          /\ Literals[w].num = Magnitude(v.num) /\ Literals[w].den = v.den
  IN CASE v = NoValue -> <<>> [] v # NoValue /\ v.num < 0 -> <<":=", "-", word>> [] OTHER -> <<":=", word>>
DeclText(d) == <<d.name>> \o (IF d.address = "none" THEN <<>> ELSE <<"AT", d.address>>) \o <<":">>
               \o (IF d.instanceOf = "none" THEN <<d.type>> \o InitialText(d.initial) ELSE <<d.instanceOf>>)
DeclsText(ds) ==
  Joined(LAMBDA k : (IF k = 1 \/ ds[k - 1].kind # ds[k].kind THEN <<ds[k].kind>> ELSE <<>>) \o DeclText(ds[k])
                    \o (IF k = Len(ds) \/ ds[k + 1].kind # ds[k].kind THEN <<"END_VAR">> ELSE <<>>), Len(ds))
UnitText(u) == <<u.unit, u.name>> \o DeclsText(u.decls) \o Text(u.body) \o <<EndOf(u.unit)>>
OwnPous == SubSeq(unit.pous, 1, Len(unit.pous) - Len(library))
SourceText == Joined(LAMBDA k : UnitText(OwnPous[k]), Len(OwnPous))
              \o Joined(LAMBDA k : UnitText(unit.dataBlocks[k]), Len(unit.dataBlocks)) \o UnitText(unit.program)
WithoutSemicolons(ws) == SelectSeq(ws, LAMBDA w : w # ";")

\* parser.cpp: what the parser accepts says what was written.  Printed with the parentheses
\* that the documented precedences need, its tree gives back every word of the source: no
\* word is skipped, no operand goes to another operator, also after a slip in the text.
NothingMisread ==
  stage \in {"not bound", "loaded"} /\ scans = 0 => WithoutSemicolons(SourceText) = WithoutSemicolons(source)

-----------------------------------------------------------------------------
RECURSIVE ExprTags(_), AllStatements(_)
ExprTags(e) == CASE e.kind = "Literal" -> {} [] e.kind = "Identifier" -> {e.tag}
                 [] e.kind = "Unary" -> ExprTags(e.operand) [] e.kind = "Binary" -> ExprTags(e.lhs) \cup ExprTags(e.rhs)
AllStatements(stmts) ==
  UNION {LET s == stmts[i]
         IN {s} \cup (CASE s.kind = "If" -> AllStatements(s.elseBody) \cup UNION {AllStatements(s.branches[j].body) : j \in DOMAIN s.branches}
                        [] s.kind = "While" -> AllStatements(s.body)
                        [] OTHER -> {}) : i \in DOMAIN stmts}
StatementTags(s) ==
  CASE s.kind = "Assign" -> {s.target} \cup ExprTags(s.value)
    [] s.kind = "If" -> UNION {ExprTags(s.branches[j].cond) : j \in DOMAIN s.branches}
    [] s.kind = "While" -> ExprTags(s.cond)
    [] s.kind = "Rung" -> ExprTags(s.cond) \cup {s.outputs[j].target : j \in DOMAIN s.outputs}
    [] s.kind = "Call" -> UNION {{s.args[j].param} \cup (IF IsOutput(s.args[j]) THEN {s.args[j].output}
                                                         ELSE ExprTags(s.args[j].input)) : j \in DOMAIN s.args}
\* pou_binder.cpp: a program that binds is closed.  Every name in it is a tag, every call
\* runs a frame that was complete before the caller's, so that calls end and cannot recurse.
Closed ==
  stage = "loaded" =>
    LET Good(stmts, below) == \A s \in AllStatements(stmts) :
          /\ StatementTags(s) \subseteq DOMAIN program.tags
          /\ s.kind = "Call" => s.frame \in 1..below
    IN /\ \A f \in DOMAIN program.frames : Good(program.frames[f].body, f - 1)
       /\ Good(program.body, Len(program.frames))

\* plc_codegen/main.cpp, value_ops.hpp: a program the generator accepts never meets a value of
\* a wrong type, whichever engine runs it, and no tag ever holds a value of another type or
\* outside the range of its own.
TypeSound ==
  stage = "loaded" =>
    /\ generated => interpreted.error # "type mismatch" /\ compiled.error # "type mismatch"
    /\ WellTyped(program.tags, interpreted.value) /\ WellTyped(program.tags, compiled.value)

\* plc_codegen/main.cpp: a compiled program asks whether to stop before it has run more
\* statements than its text has, however often it loops and calls.
RECURSIVE Size(_)
Size(stmts) ==
  FoldLeft(LAMBDA n, s : n + 1 + (CASE s.kind = "If" -> Size(s.elseBody) + FoldLeft(LAMBDA k, b : k + Size(b.body), 0, s.branches)
                                    [] s.kind = "While" -> Size(s.body)
                                    [] OTHER -> 0), 0, stmts)
StopsSoon ==
  compiled.gap <= FoldLeft(LAMBDA n, f : n + Size(f.body), Size(program.body), program.frames)

\* value_ops.hpp: a sum, difference, product or quotient is right or refused, although all of
\* it is computed in doubles, with a cast or a rounding per step.  Of whole types the number
\* assigned is the exact one without its fraction; a REAL or LREAL is a number of the format
\* with none between it and the exact one.  It is refused only when the operands' wider type
\* or the target cannot hold it.
NumbersRight ==
  stage = "loaded" /\ scans > 0 =>
    \A i \in DOMAIN program.body : LET s == program.body[i] IN
      (/\ Len(program.body) = 1 /\ s.kind = "Assign" /\ s.value.kind = "Binary" /\ s.value.op \in Arithmetic
       /\ s.value.lhs.kind = "Identifier" /\ s.value.rhs.kind = "Identifier"
       /\ s.target \notin {s.value.lhs.tag, s.value.rhs.tag}
       /\ {program.tags[s.target].type, interpreted.value[s.value.lhs.tag].type,
           interpreted.value[s.value.rhs.tag].type} \subseteq Whole \cup Floats) =>
      RightOrRefused(s.value.op, interpreted.value[s.value.lhs.tag], interpreted.value[s.value.rhs.tag],
        program.tags[s.target].type,
        IF interpreted.error = "none" THEN interpreted.value[s.target] ELSE Failed(interpreted.error))

-----------------------------------------------------------------------------
\* What an engine shows of its tags: the variables of the source under their names.
EnvOf(m, shown) ==
  LET tags == program.tags
      named == {i \in DOMAIN tags : tags[i].name[1] # "$fc"}
  IN IF ~shown THEN <<>>
     ELSE [n \in {tags[i].name : i \in named} |-> m.value[CHOOSE i \in named : tags[i].name = n]]

\* interpreter.cpp, pou_binder.cpp: the interpreter, which runs copies of bodies over a flat
\* store of tags, does what the source means: instances and calls share nothing, variables
\* are kept or start afresh as declared, and names reach what they should.
Interpreted == INSTANCE StReference WITH ready <- (stage = "loaded"),
  env <- EnvOf(interpreted, stage = "loaded"), error <- interpreted.error
InterpreterMeetsReference == Interpreted!SpecR

\* plc_codegen/main.cpp: so does the compiled program, for every program the generator accepts.
Compiled == INSTANCE StReference WITH ready <- generated,
  env <- EnvOf(compiled, generated), error <- compiled.error
GeneratedMeetsReference == Compiled!SpecR
=============================================================================
