------------------------------ MODULE StBinder ------------------------------
(***************************************************************************)
(* From a parsed source to a program whose names are tags and whose blocks *)
(* are frames: src/src/st/pou_binder.cpp over src/src/tags/tag_store.cpp.  *)
(* A tag is its place in the tag store, 0 the id of none; a frame is its   *)
(* place in the program.  The context of a binding, BinderContext, is      *)
(* passed on from step to step; ok is FALSE once one has thrown.           *)
(***************************************************************************)
EXTENDS StParser, TLC, SequencesExt

InitialOf(decl) == IF decl.initial = NoValue THEN DefaultOf(decl.type) ELSE decl.initial

\* TagStore::declare: names and addresses are unique.
Declare(c, decl, name) ==
  IF \E i \in DOMAIN c.tags : \/ c.tags[i].name = name
                              \/ decl.address # "none" /\ c.tags[i].address = decl.address
  THEN [c EXCEPT !.ok = FALSE]
  ELSE [c EXCEPT !.tags = Append(@, [name |-> name, type |-> decl.type, address |-> decl.address,
                                     initial |-> InitialOf(decl)])]
FindTag(c, name) == IF \E i \in DOMAIN c.tags : c.tags[i].name = name
                    THEN CHOOSE i \in DOMAIN c.tags : c.tags[i].name = name ELSE 0
ResolveName(c, scope, name) == IF name \in DOMAIN scope THEN scope[name] ELSE FindTag(c, name)

RECURSIVE BindExpr(_, _, _)
BindExpr(c, scope, e) ==
  CASE e.kind = "Literal" -> [ok |-> TRUE, ast |-> e]
    [] e.kind = "Identifier" -> LET tag == ResolveName(c, scope, e.name)
                                IN [ok |-> tag # 0, ast |-> [kind |-> "Identifier", name |-> e.name, tag |-> tag]]
    [] e.kind = "Unary" -> LET x == BindExpr(c, scope, e.operand)
                           IN [ok |-> x.ok, ast |-> UnaryExpr(e.op, x.ast)]
    [] e.kind = "Binary" -> LET l == BindExpr(c, scope, e.lhs)
                                r == BindExpr(c, scope, e.rhs)
                            IN [ok |-> l.ok /\ r.ok, ast |-> BinaryExpr(e.op, l.ast, r.ast)]

\* The context after a step that succeeds only if ok.
Checked(c, ok) == [c EXCEPT !.ok = @ /\ ok]
\* What is bound after r, unless r has failed; and a tree made of r's tree.
OnOk(r, Next(_)) == IF ~r.c.ok THEN r ELSE Next(r)
Bound(r, Make(_)) == OnOk(r, LAMBDA x : [c |-> x.c, ast |-> Make(x.ast)])
FoldBind(Step(_, _), c, items) ==
  FoldLeft(LAMBDA acc, x : OnOk(acc, LAMBDA a : Bound(Step(a.c, x), LAMBDA ast : Append(a.ast, ast))),
           [c |-> c, ast |-> <<>>], items)

RECURSIVE ExpandPou(_, _, _), BindStmt(_, _, _, _)
BindBlock(c, scope, callables, stmts) == FoldBind(LAMBDA d, s : BindStmt(d, scope, callables, s), c, stmts)

Frame(scopeName, body, resets) == [scope |-> scopeName, body |-> body, resets |-> resets]

\* A block that is being expanded may not be entered again.
Entered(c, name) == [c EXCEPT !.expanding = Append(@, name)]
Left(c) == [c EXCEPT !.expanding = Front(@)]
IsExpanding(c, name) == \E i \in DOMAIN c.expanding : c.expanding[i] = name
IsPou(c, name) == name \in DOMAIN c.registry

DeclareInstance(acc, decl, prefix) ==
  LET c == acc.c
      pou == c.registry[decl.instanceOf]
  IN IF ~IsPou(c, decl.instanceOf) \/ IsExpanding(c, decl.instanceOf) THEN [acc EXCEPT !.c.ok = FALSE]
     ELSE OnOk(ExpandPou(Entered(c, decl.instanceOf), pou, Append(prefix, decl.name)), LAMBDA inner :
            LET callable == [pou |-> pou, frame |-> inner.frame, scope |-> inner.scope]
                left == Left(inner.c)
            IN [c |-> IF prefix = <<>> THEN [left EXCEPT !.globals = (decl.name :> callable) @@ @] ELSE left,
                scope |-> [n \in {<<decl.name>> \o m : m \in DOMAIN inner.scope} |-> inner.scope[Tail(n)]] @@ acc.scope,
                callables |-> (decl.name :> callable) @@ acc.callables])
DeclareVar(acc, decl, prefix) ==
  LET c == Declare(acc.c, decl, Append(prefix, decl.name))
  IN [acc EXCEPT !.c = c, !.scope = (<<decl.name>> :> Len(c.tags)) @@ @]
DeclareVars(c, decls, prefix) ==
  FoldLeft(LAMBDA acc, decl : CASE ~acc.c.ok -> acc
                                [] acc.c.ok /\ decl.instanceOf = "none" -> DeclareVar(acc, decl, prefix)
                                [] OTHER -> DeclareInstance(acc, decl, prefix),
           [c |-> c, scope |-> <<>>, callables |-> <<>>], decls)

\* What starts afresh with every call.
\* Mutant: the outputs of a function are kept from call to call.
TemporaryOnly(pou) == SelectSeq(pou.decls, LAMBDA x : x.instanceOf = "none" /\ x.kind = "VAR_TEMP")
Temporary(pou) ==
  SelectSeq(pou.decls, LAMBDA x : /\ x.instanceOf = "none"
                                  /\ x.kind = "VAR_TEMP" \/ (pou.unit = "FUNCTION" /\ x.kind = "VAR_OUTPUT"))
\* Mutant: the place is taken after the frame has been added.
NextFrameLate(c) == Len(c.frames) + 2
NextFrame(c) == Len(c.frames) + 1
\* Declarations, body, then the frame: a frame stands behind those of everything it calls.
ExpandPou(c, pou, prefix) ==
  OnOk(DeclareVars(c, pou.decls, prefix), LAMBDA d :
    OnOk(BindBlock(d.c, d.scope, d.callables, pou.body), LAMBDA b :
      LET temporary == Temporary(pou)
          resets == [i \in DOMAIN temporary |-> [tag |-> d.scope[<<temporary[i].name>>], value |-> InitialOf(temporary[i])]]
      IN [c |-> [b.c EXCEPT !.frames = Append(@, Frame(prefix, b.ast, resets))], frame |-> NextFrame(b.c), scope |-> d.scope]))

\* What a call runs: an instance of the block, one of the program, or a fresh copy of a function.
Callee(c, callables, name) ==
  LET pou == c.registry[name]
      Known(x) == [c |-> c, pou |-> x.pou, frame |-> x.frame, scope |-> x.scope]
      Copied(copy) == [c |-> Left(copy.c), pou |-> pou, frame |-> copy.frame, scope |-> copy.scope]
  IN CASE name \in DOMAIN callables -> Known(callables[name])
       [] name \notin DOMAIN callables /\ name \in DOMAIN c.globals -> Known(c.globals[name])
       [] OTHER -> IF ~IsPou(c, name) \/ IsExpanding(c, name) THEN [c |-> Checked(c, FALSE)]
                   ELSE IF pou.unit # "FUNCTION" THEN [c |-> Checked(c, FALSE)]
                   ELSE OnOk(ExpandPou([Entered(c, name) EXCEPT !.calls = @ + 1], pou, <<"$fc", name, ToString(c.calls)>>), Copied)

BindArg(c, scope, callee, arg) ==
  LET kind == IF IsOutput(arg) THEN "VAR_OUTPUT" ELSE "VAR_INPUT"
      param == \E i \in DOMAIN callee.pou.decls : callee.pou.decls[i].name = arg.param /\ callee.pou.decls[i].kind = kind
      target == ResolveName(c, scope, arg.output)
      input == BindExpr(c, scope, arg.input)
  IN IF ~param THEN [c |-> Checked(c, FALSE), ast |-> arg]
     ELSE IF IsOutput(arg) THEN [c |-> Checked(c, target # 0), ast |-> OutputArg(callee.scope[<<arg.param>>], target)]
     ELSE [c |-> Checked(c, input.ok), ast |-> InputArg(callee.scope[<<arg.param>>], input.ast)]
BindCall(c, scope, callables, s) ==
  LET Missing(pou) == /\ pou.unit = "FUNCTION"
                      /\ \E i \in DOMAIN pou.decls :
                           /\ pou.decls[i].kind = "VAR_INPUT"
                           /\ \A j \in DOMAIN s.args : IsOutput(s.args[j]) \/ s.args[j].param # pou.decls[i].name
  IN IF Len(s.callee) # 1 THEN [c |-> Checked(c, FALSE)]
     ELSE OnOk(Callee(c, callables, s.callee[1]), LAMBDA callee :
            OnOk(FoldBind(LAMBDA d, a : BindArg(d, scope, callee, a), callee.c, s.args), LAMBDA args :
              [c |-> Checked(args.c, ~Missing(callee.pou)),
               ast |-> [kind |-> "Call", callee |-> s.callee, frame |-> callee.frame, args |-> args.ast]]))

BindBranch(c, scope, callables, branch) ==
  LET cond == BindExpr(c, scope, branch.cond)
  IN Bound(BindBlock(Checked(c, cond.ok), scope, callables, branch.body), LAMBDA body : IfBranch(cond.ast, body))
BindIf(c, scope, callables, s) ==
  OnOk(FoldBind(LAMBDA d, b : BindBranch(d, scope, callables, b), c, s.branches), LAMBDA branches :
    Bound(BindBlock(branches.c, scope, callables, s.elseBody), LAMBDA else : IfStmt(branches.ast, else)))
BindRung(c, scope, s) ==
  LET cond == BindExpr(c, scope, s.cond)
      Target(o) == ResolveName(c, scope, o.target)
      IsCoil(o) == Target(o) # 0 /\ c.tags[Target(o)].type = "BOOL"
  IN [c |-> Checked(c, cond.ok /\ \A i \in DOMAIN s.outputs : IsCoil(s.outputs[i])),
      ast |-> RungStmt(cond.ast, [i \in DOMAIN s.outputs |-> RungOutput(s.outputs[i].kind, Target(s.outputs[i]))])]
BindStmt(c, scope, callables, s) ==
  CASE s.kind = "Assign" -> LET target == ResolveName(c, scope, s.target)
                                value == BindExpr(c, scope, s.value)
                            IN [c |-> Checked(c, target # 0 /\ value.ok),
                                ast |-> AssignStmt(target, value.ast)]
    [] s.kind = "If" -> BindIf(c, scope, callables, s)
    [] s.kind = "While" -> Bound(BindBranch(c, scope, callables, [cond |-> s.cond, body |-> s.body]),
                                 LAMBDA loop : WhileStmt(loop.cond, loop.body))
    [] s.kind = "Call" -> BindCall(c, scope, callables, s)
    [] s.kind = "Rung" -> BindRung(c, scope, s)

CycleTime == <<"System", "CycleTime">>
CycleTimeDecl == [name |-> "CycleTime", address |-> "none", type |-> "TIME", initial |-> DefaultOf("TIME")]
FreshContext(pous) ==
  [tags |-> <<>>, frames |-> <<>>, expanding |-> <<>>, calls |-> 0, globals |-> <<>>,
   registry |-> [n \in {pous[i].name : i \in DOMAIN pous} |-> pous[CHOOSE i \in DOMAIN pous : pous[i].name = n]],
   ok |-> \A i, j \in DOMAIN pous : pous[i].name = pous[j].name => i = j]
DeclareDataBlock(c, db) == FoldLeft(LAMBDA d, decl : IF d.ok THEN Declare(d, decl, <<db.name, decl.name>>) ELSE d, c, db.decls)

\* bindCompilationUnit: [ok, tags, frames, body], where ok is FALSE when it throws.
NoProgram == [ok |-> FALSE, tags |-> <<>>, frames |-> <<>>, body |-> <<>>]
ProgramOf(r) == IF r.c.ok THEN [ok |-> TRUE, tags |-> r.c.tags, frames |-> r.c.frames, body |-> r.ast] ELSE NoProgram
Bind(unit) ==
  LET globals == FoldLeft(DeclareDataBlock, Declare(FreshContext(unit.pous), CycleTimeDecl, CycleTime), unit.dataBlocks)
  IN ProgramOf(OnOk(DeclareVars(globals, unit.program.decls, <<>>), LAMBDA d :
                 BindBlock(d.c, d.scope, d.callables, unit.program.body)))
=============================================================================
