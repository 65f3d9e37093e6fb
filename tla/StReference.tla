----------------------------- MODULE StReference -----------------------------
(***************************************************************************)
(* What running a loaded source means, in terms of the source alone: no    *)
(* tags, frames or copies of bodies.  Every instance of a block has        *)
(* variables of its own, found under its path; a block's temporary         *)
(* variables start afresh with each call, and a function has no memory at  *)
(* all.  A name means a variable of the running instance or else one of    *)
(* the whole program.  The values of variables after a scan that ended in  *)
(* an error, or of a program that passes a block its own variables, are    *)
(* left open.                                                              *)
(***************************************************************************)
EXTENDS StParser, TLC, SequencesExt

CONSTANTS LoopLimit, InputAddresses, CycleTimes
VARIABLES unit, ready, env, error
refVars == <<unit, ready, env, error>>

PouOf(u, name) == u.pous[CHOOSE i \in DOMAIN u.pous : u.pous[i].name = name]
IsInstance(decls, name) == \E i \in DOMAIN decls : decls[i].name = name /\ decls[i].instanceOf # "none"
TypeOfInstance(decls, name) == decls[CHOOSE i \in DOMAIN decls : decls[i].name = name].instanceOf

\* The variables declared by decls for the instance at a path: path -> declaration.
RECURSIVE Variables(_, _, _)
Variables(u, decls, at) ==
  FoldLeft(LAMBDA f, d : (IF d.instanceOf = "none" THEN Append(at, d.name) :> d
                          ELSE Variables(u, PouOf(u, d.instanceOf).decls, Append(at, d.name))) @@ f,
           <<>>, decls)
Global(u) ==
  FoldLeft(LAMBDA f, db : Variables(u, db.decls, <<db.name>>) @@ f,
           (<<"System", "CycleTime">> :> [address |-> "none", type |-> "TIME", initial |-> NoValue]) @@ Variables(u, u.program.decls, <<>>),
           u.dataBlocks)
First(d) == IF d.initial = NoValue THEN DefaultOf(d.type) ELSE d.initial
Initial(vs) == [p \in DOMAIN vs |-> First(vs[p])]

Place(e, at, name) == IF at \o name \in DOMAIN e THEN at \o name ELSE name
\* A run is [env, error]; an assignment converts to the type of the variable.
Put(r, p, v) ==
  LET w == IF IsError(v) THEN v ELSE CoerceToType(v, r.env[p].type)
  IN IF IsError(w) THEN [r EXCEPT !.error = w.type] ELSE [r EXCEPT !.env[p] = w]
Then(r, next) == IF r.error # "none" THEN r ELSE next

RECURSIVE Meaning(_, _, _)
Combined(op, l, r) ==
  CASE IsError(l) -> l [] ~IsError(l) /\ IsError(r) -> r
    [] OTHER -> CASE op \in Arithmetic -> EvalArithmetic(op, l, r) [] op \in Comparison -> EvalComparison(op, l, r)
                  [] op \in Logical -> EvalLogical(op, l, r)
Meaning(e, env_, at) ==
  CASE e.kind = "Literal" -> e.value
    [] e.kind = "Identifier" -> env_[Place(env_, at, e.name)]
    [] e.kind = "Unary" -> LET v == Meaning(e.operand, env_, at) IN IF IsError(v) THEN v ELSE EvalUnary(e.op, v)
    [] e.kind = "Binary" -> Combined(e.op, Meaning(e.lhs, env_, at), Meaning(e.rhs, env_, at))
Power(e, r, at) == LET v == Meaning(e, r.env, at) IN IF IsError(v) \/ v.type = "BOOL" THEN v ELSE Failed("type mismatch")

RECURSIVE Body(_, _, _, _, _), Loop(_, _, _, _, _, _)
\* The first branch whose condition holds, or the ELSE part.
Chosen(u, decls, at, s, r) ==
  LET value == [i \in DOMAIN s.branches |-> Power(s.branches[i].cond, r, at)]
      stops == {i \in DOMAIN s.branches : IsError(value[i]) \/ IsTrue(value[i])}
      first == CHOOSE i \in stops : \A j \in stops : i <= j
  IN IF stops = {} THEN Body(u, decls, at, s.elseBody, r)
     ELSE IF IsError(value[first]) THEN [r EXCEPT !.error = value[first].type]
     ELSE Body(u, decls, at, s.branches[first].body, r)
Loop(u, decls, at, s, r, n) ==
  LET cond == Power(s.cond, r, at)
      after == Body(u, decls, at, s.body, r)
  IN IF IsError(cond) THEN [r EXCEPT !.error = cond.type]
     ELSE IF ~IsTrue(cond) THEN r
     ELSE Then(after, IF n = LoopLimit THEN [after EXCEPT !.error = "loop limit"] ELSE Loop(u, decls, at, s, after, n + 1))

\* Inputs are passed all at once; then the block runs at its place, then its outputs are copied.
Called(u, decls, at, s, r) ==
  LET name == s.callee[1]
      own == IsInstance(decls, name)
      shared == IsInstance(u.program.decls, name)
      pou == PouOf(u, IF own THEN TypeOfInstance(decls, name)
                      ELSE IF shared THEN TypeOfInstance(u.program.decls, name) ELSE name)
      place == CASE own -> Append(at, name) [] ~own /\ shared -> <<name>> [] OTHER -> at \o <<name, "call">>
      entered == IF own \/ shared THEN r.env ELSE Initial(Variables(u, pou.decls, place)) @@ r.env
      Resets(d) == d.instanceOf = "none" /\ (d.kind = "VAR_TEMP" \/ <<pou.unit, d.kind>> = <<"FUNCTION", "VAR_OUTPUT">>)
      inputs == SelectSeq(s.args, LAMBDA a : "input" \in DOMAIN a)
      outputs == SelectSeq(s.args, LAMBDA a : "output" \in DOMAIN a)
      reset == [r EXCEPT !.env = FoldLeft(LAMBDA e, d : IF Resets(d) THEN [e EXCEPT ![Append(place, d.name)] = First(d)] ELSE e,
                                          entered, pou.decls)]
      given == FoldLeft(LAMBDA q, a : Then(q, Put(q, Append(place, a.param), Meaning(a.input, r.env, at))), reset, inputs)
      done == Then(given, Body(u, pou.decls, place, pou.body, given))
      copied == FoldLeft(LAMBDA q, a : Then(q, Put(q, Place(r.env, at, a.output), q.env[Append(place, a.param)])), done, outputs)
  IN [copied EXCEPT !.env = [p \in DOMAIN r.env |-> @[p]]]

Coils(s, r, at) ==
  LET cond == Power(s.cond, r, at)
      On(e, o) == IF o.kind = "Direct" \/ IsTrue(cond)
                  THEN [e EXCEPT ![Place(e, at, o.target)] = IF o.kind = "RESET" THEN Truth(FALSE) ELSE cond] ELSE e
  IN IF IsError(cond) THEN [r EXCEPT !.error = cond.type] ELSE [r EXCEPT !.env = FoldLeft(On, @, s.outputs)]
Body(u, decls, at, stmts, r) ==
  FoldLeft(LAMBDA q, s : Then(q, CASE s.kind = "Assign" -> Put(q, Place(q.env, at, s.target), Meaning(s.value, q.env, at))
                                   [] s.kind = "If" -> Chosen(u, decls, at, s, q)
                                   [] s.kind = "While" -> Loop(u, decls, at, s, q, 0)
                                   [] s.kind = "Call" -> Called(u, decls, at, s, q)
                                   [] s.kind = "Rung" -> Coils(s, q, at)), r, stmts)

\* A call that passes a block what belongs to the block.
RECURSIVE Reads(_), PassesOwn(_)
Reads(e) == CASE e.kind = "Literal" -> {} [] e.kind = "Identifier" -> {e.name}
              [] e.kind = "Unary" -> Reads(e.operand) [] e.kind = "Binary" -> Reads(e.lhs) \cup Reads(e.rhs)
PassesOwn(stmts) ==
  \E i \in DOMAIN stmts : LET s == stmts[i] IN
    CASE s.kind = "Call" -> \E j \in DOMAIN s.args : "input" \in DOMAIN s.args[j] /\
                              \E n \in Reads(s.args[j].input) : \E k \in DOMAIN n : n[k] = s.callee[1]
      [] s.kind = "If" -> PassesOwn(s.elseBody) \/ \E j \in DOMAIN s.branches : PassesOwn(s.branches[j].body)
      [] s.kind = "While" -> PassesOwn(s.body)
      [] OTHER -> FALSE
IsPlain(u) == ~PassesOwn(u.program.body) /\ \A i \in DOMAIN u.pous : ~PassesOwn(u.pous[i].body)

-----------------------------------------------------------------------------
InitR == ~ready /\ unit = <<>> /\ error = "none" /\ env = <<>>
LoadR ==
  /\ ~ready /\ error' = "none"
  /\ IF ready' THEN env' = Initial(Global(unit')) ELSE env' = <<>>
ScanR ==
  /\ ready /\ error = "none" /\ UNCHANGED <<unit, ready>>
  /\ LET inputs == {p \in DOMAIN env : Global(unit)[p].address \in InputAddresses}
         read == [p \in inputs |-> env'[p]]      \* a program does not write its inputs
     IN \E dt \in CycleTimes :
          LET start == (<<"System", "CycleTime">> :> Of("TIME", dt)) @@ read @@ env
              end == Body(unit, unit.program.decls, <<>>, unit.program.body, [env |-> start, error |-> "none"])
          IN IsPlain(unit) => error' = end.error /\ (end.error = "none" => env' = end.env)
SpecR == InitR /\ [][LoadR \/ ScanR]_refVars
=============================================================================
