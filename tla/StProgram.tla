----------------------------- MODULE StProgram -----------------------------
(***************************************************************************)
(* A source is edited, loaded and scanned.  StProgram::load parses it and  *)
(* binds it together with the library of standard blocks; then two engines *)
(* run what was bound, scan by scan with the same inputs: the interpreter, *)
(* src/src/st/interpreter.cpp, and the program that                        *)
(* src/apps/plc_codegen/main.cpp generates from the same frames after      *)
(* checking the types.  An engine's memory is [value, error, idle, gap]:   *)
(* a value per tag, the exception that ended a scan, the statements run    *)
(* since the last checkpoint and the most there ever were.                 *)
(***************************************************************************)
EXTENDS StBinder, StExpressions, StLibrary

CONSTANTS
  Sources,       \* texts to begin with, as sequences of words
  LoopLimit,     \* iterations a WHILE may make: 1000000
  InputAddresses, Samples,   \* addresses that are inputs, and what they can read, per type
  CycleTimes,    \* times a cycle may take
  Drafts,        \* texts whose author makes a slip before loading them
  MaxScans

VARIABLES
  library,       \* the standard blocks, parsed
  source,        \* the text
  stage,         \* "source", "not parsed", "not bound" or "loaded"
  unit, program, \* what was parsed and what was bound
  generated,     \* whether the generator accepted the program
  interpreted, compiled,     \* the memories of the two engines
  scans
vars == <<library, source, stage, unit, program, generated, interpreted, compiled, scans>>

-----------------------------------------------------------------------------
(* Execution.                                                              *)

Fresh(tags) == [value |-> [i \in DOMAIN tags |-> tags[i].initial], error |-> "none", idle |-> 0, gap |-> 0]
Reset(m, frame) == FoldLeft(LAMBDA n, r : [n EXCEPT !.value[r.tag] = r.value], m, frame.resets)

RECURSIVE Evaluate(_, _)
Evaluate(e, m) == ValueOf(e, m.value, [x \in Operands(e) |-> Evaluate(x, m)])
Condition(e, m) == LET v == Evaluate(e, m) IN IF IsError(v) \/ v.type = "BOOL" THEN v ELSE Failed("type mismatch")

RECURSIVE ExecBlock(_, _, _, _), ExecIf(_, _, _, _), ExecWhile(_, _, _, _), GeneratedWhile(_, _, _, _)
ExecIf(P, how, s, m) ==
  LET cond == Condition(Head(s.branches).cond, m)
  IN CASE s.branches = <<>> -> ExecBlock(P, how, s.elseBody, m)
       [] OTHER -> IF IsError(cond) THEN Raise(m, cond.type)
                   ELSE IF IsTrue(cond) THEN ExecBlock(P, how, Head(s.branches).body, m)
                   ELSE ExecIf(P, how, [s EXCEPT !.branches = Tail(@)], m)
\* The interpreter counts an iteration after its body ...
ExecWhile(P, s, m, iterations) ==
  LET cond == Condition(s.cond, m)
      after == ExecBlock(P, "interpreted", s.body, m)
  IN IF IsError(cond) THEN Raise(m, cond.type)
     ELSE IF ~IsTrue(cond) THEN m
     ELSE IF after.error # "none" THEN after
     ELSE IF iterations + 1 > LoopLimit THEN Raise(after, "loop limit")
     ELSE ExecWhile(P, s, after, iterations + 1)
\* ... and compiled code before it, where it also asks whether to stop.
\* Mutant: it never asks.
NoCheckpoint(m) == m
Checkpoint(m) == [m EXCEPT !.idle = 0]
GeneratedWhile(P, s, m, iterations) ==
  LET cond == Condition(s.cond, m)
      after == ExecBlock(P, "compiled", s.body, Checkpoint(m))
  IN IF IsError(cond) THEN Raise(m, cond.type)
     ELSE IF ~IsTrue(cond) THEN m
     ELSE IF iterations + 1 > LoopLimit THEN Raise(m, "loop limit")
     ELSE IF after.error # "none" THEN after
     ELSE GeneratedWhile(P, s, after, iterations + 1)

Inputs(s) == SelectSeq(s.args, LAMBDA a : ~IsOutput(a))
Outputs(s) == SelectSeq(s.args, LAMBDA a : IsOutput(a))
Unless(m, next) == IF m.error # "none" THEN m ELSE next
CopyOutputs(P, s, m) == FoldLeft(LAMBDA n, a : Unless(n, Store(P, n, a.output, n.value[a.param])), m, Outputs(s))
\* The interpreter resets the frame, then evaluates and writes the inputs one after the other.
ExecCall(P, s, m) ==
  LET given == FoldLeft(LAMBDA n, a : Unless(n, Store(P, n, a.param, Evaluate(a.input, n))),
                        Reset(m, P.frames[s.frame]), Inputs(s))
  IN CopyOutputs(P, s, Unless(given, ExecBlock(P, "interpreted", P.frames[s.frame].body, given)))
\* Compiled code evaluates all inputs, then writes them; the frame resets itself when it runs.
\* Mutant: it does not.
GeneratedFrameKept(P, f, m) == ExecBlock(P, "compiled", P.frames[f].body, Checkpoint(m))
GeneratedFrame(P, f, m) == ExecBlock(P, "compiled", P.frames[f].body, Reset(Checkpoint(m), P.frames[f]))
GeneratedCall(P, s, m) ==
  LET args == Inputs(s)
      values == [i \in DOMAIN args |-> Evaluate(args[i].input, m)]
      failed == {i \in DOMAIN args : IsError(values[i])}
      given == FoldLeft(LAMBDA n, i : Unless(n, Store(P, n, args[i].param, values[i])), m, [i \in DOMAIN args |-> i])
  IN IF failed # {} THEN Raise(m, values[CHOOSE i \in failed : \A j \in failed : i <= j].type)
     ELSE CopyOutputs(P, s, Unless(given, GeneratedFrame(P, s.frame, given)))

Drive(m, o, powered) ==
  CASE o.kind = "Direct" -> [m EXCEPT !.value[o.target] = Truth(powered)]
    [] o.kind # "Direct" /\ powered -> [m EXCEPT !.value[o.target] = Truth(o.kind = "SET")]
    [] OTHER -> m
ExecRung(s, m) ==
  LET cond == Condition(s.cond, m)
  IN IF IsError(cond) THEN Raise(m, cond.type)
     ELSE FoldLeft(LAMBDA n, o : Drive(n, o, IsTrue(cond)), m, s.outputs)

Counted(m) == [m EXCEPT !.idle = @ + 1, !.gap = IF m.idle + 1 > @ THEN m.idle + 1 ELSE @]
ExecStmt(P, how, s, m) ==
  CASE s.kind = "Assign" -> Store(P, m, s.target, Evaluate(s.value, m))
    [] s.kind = "If" -> ExecIf(P, how, s, m)
    [] s.kind = "While" -> IF how = "interpreted" THEN ExecWhile(P, s, m, 0) ELSE GeneratedWhile(P, s, m, 0)
    [] s.kind = "Call" -> IF how = "interpreted" THEN ExecCall(P, s, m) ELSE GeneratedCall(P, s, m)
    [] s.kind = "Rung" -> ExecRung(s, m)
ExecBlock(P, how, stmts, m) == FoldLeft(LAMBDA n, s : Unless(n, ExecStmt(P, how, s, Counted(n))), m, stmts)

-----------------------------------------------------------------------------
(* The type check of the generator.                                        *)

RECURSIVE StaticType(_, _), Generates(_, _)
StaticType(P, e) == TypeOf(e, P.tags, [x \in Operands(e) |-> StaticType(P, x)])

GeneratesCall(P, s) ==
  \A i \in DOMAIN s.args : LET a == s.args[i] IN
    IF IsOutput(a) THEN Assignable(P, a.output, P.tags[a.param].type) ELSE Assignable(P, a.param, StaticType(P, a.input))
Generates(P, stmts) ==
  \A i \in DOMAIN stmts : LET s == stmts[i] IN
    CASE s.kind = "Assign" -> Assignable(P, s.target, StaticType(P, s.value))
      [] s.kind = "If" -> /\ \A j \in DOMAIN s.branches : /\ StaticType(P, s.branches[j].cond) = "BOOL"
                                                         /\ Generates(P, s.branches[j].body)
                          /\ Generates(P, s.elseBody)
      [] s.kind = "While" -> StaticType(P, s.cond) = "BOOL" /\ Generates(P, s.body)
      [] s.kind = "Call" -> GeneratesCall(P, s)
      [] s.kind = "Rung" -> StaticType(P, s.cond) = "BOOL"
IsGenerated(P) ==
  /\ \A f \in DOMAIN P.frames : Generates(P, P.frames[f].body)
  /\ Generates(P, P.body)
  /\ \A i \in DOMAIN P.tags : P.tags[i].initial.type = P.tags[i].type

-----------------------------------------------------------------------------
Init ==
  /\ library = ParsePouLibrary(StandardLibrary)
  /\ source \in Sources /\ stage = "source"
  /\ unit = <<>> /\ program = NoProgram /\ generated = FALSE
  /\ interpreted = Fresh(<<>>) /\ compiled = Fresh(<<>>) /\ scans = 0

\* The author of the text deletes a word, repeats it or moves it behind the next one.
Edited(ws, i, how) ==
  CASE how = "delete" -> RemoveAt(ws, i)
    [] how = "repeat" -> InsertAt(ws, i, ws[i])
    [] how = "move" -> IF i = Len(ws) THEN ws ELSE [ws EXCEPT ![i] = ws[i + 1], ![i + 1] = ws[i]]
Edit(i, how) ==
  /\ stage = "source" /\ source \in Drafts
  /\ source' = Edited(source, i, how)
  /\ UNCHANGED <<library, stage, unit, program, generated, interpreted, compiled, scans>>

\* With a source that parses, the library of standard blocks is bound.
Merged(parsed) == IF parsed.at = 0 THEN <<>> ELSE [parsed.ast EXCEPT !.pous = @ \o library]
Load ==
  /\ stage = "source"
  /\ unit' = Merged(ParseCompilationUnit(source))
  /\ program' = IF unit' = <<>> THEN NoProgram ELSE Bind(unit')
  /\ stage' = CASE unit' = <<>> -> "not parsed"
                [] unit' # <<>> /\ ~program'.ok -> "not bound"
                [] program'.ok -> "loaded"
  /\ generated' = (program'.ok /\ IsGenerated(program'))
  /\ interpreted' = Fresh(program'.tags) /\ compiled' = Fresh(program'.tags)
  /\ UNCHANGED <<library, source, scans>>

\* The inputs and the measured cycle time are written, then the program runs.
IsInput(P, i) == P.tags[i].address \in InputAddresses
InputSets(P) ==
  {f \in [{i \in DOMAIN P.tags : IsInput(P, i)} -> UNION {Samples[t] : t \in DOMAIN Samples}] :
     \A i \in DOMAIN f : f[i].type = P.tags[i].type}
Sampled(P, m, in, dt) ==
  [m EXCEPT !.value = [i \in DOMAIN @ |-> IF i \in DOMAIN in THEN in[i]
                                          ELSE IF P.tags[i].name = CycleTime THEN Of("TIME", dt) ELSE @[i]]]
Scan(in, dt) ==
  /\ stage = "loaded" /\ scans < MaxScans /\ interpreted.error = "none"
  /\ interpreted' = ExecBlock(program, "interpreted", program.body, Sampled(program, interpreted, in, dt))
  /\ compiled' = IF generated THEN Unless(compiled, ExecBlock(program, "compiled", program.body,
                                                              Checkpoint(Sampled(program, compiled, in, dt))))
                 ELSE compiled
  /\ scans' = scans + 1
  /\ UNCHANGED <<library, source, stage, unit, program, generated>>

Next ==
  \/ \E i \in DOMAIN source, how \in {"delete", "repeat", "move"} : Edit(i, how)
  \/ Load
  \/ \E in \in InputSets(program), dt \in CycleTimes : Scan(in, dt)

Spec == Init /\ [][Next]_vars
=============================================================================
