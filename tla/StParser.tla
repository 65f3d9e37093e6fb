------------------------------ MODULE StParser ------------------------------
(***************************************************************************)
(* The recursive descent of src/src/st/parser.cpp.  A text is a sequence   *)
(* of words, of which the lexer makes tokens.  A parse function takes the  *)
(* tokens and the place it starts at and returns [at, ast]: the place      *)
(* after what it read and the tree, or place 0 when it throws.  No token   *)
(* stands at place 0, so that whatever is tried after an error fails too.  *)
(* A name is the sequence of its parts.                                    *)
(***************************************************************************)
EXTENDS StValues, Sequences

CONSTANTS
  Literals,      \* literal words: [kind, num, den]
  Addresses      \* words that are direct addresses

VarBlockWords == {"VAR", "VAR_INPUT", "VAR_OUTPUT", "VAR_TEMP"}
Keywords == Types \cup VarBlockWords \cup Logical \cup
  {"FUNCTION_BLOCK", "END_FUNCTION_BLOCK", "FUNCTION", "END_FUNCTION", "DATA_BLOCK", "END_DATA_BLOCK",
   "PROGRAM", "END_PROGRAM", "END_VAR", "AT", "IF", "THEN", "ELSIF", "ELSE", "END_IF", "WHILE", "DO",
   "END_WHILE", "RUNG", "SET", "RESET", "NOT"}
Symbols == Arithmetic \cup Comparison \cup {":=", ":", ";", "(", ")", "=>", ".", ","}
Fixed == Keywords \cup Symbols
LiteralWords == DOMAIN Literals

\* What the lexer makes of a word, and of a text: its tokens, the end of the file last.
TokenOf(w) ==
  [text |-> w,
   kind |-> CASE w \in Fixed -> w
              [] w \in LiteralWords -> Literals[w].kind
              [] w \in Addresses -> "address"
              [] OTHER -> "identifier"]
Lexed(text) == [i \in DOMAIN text |-> TokenOf(text[i])] \o <<[text |-> "", kind |-> "end of file"]>>
Token(ws, p) == IF p = 0 THEN "error" ELSE ws[p].kind

Error == [at |-> 0, ast |-> <<>>]
Expect(ws, p, token) == IF Token(ws, p) = token THEN p + 1 ELSE 0
Match(ws, p, token) == IF Token(ws, p) = token THEN p + 1 ELSE p
Parsed(p, ast) == IF p = 0 THEN Error ELSE [at |-> p, ast |-> ast]
\* What is parsed after r, unless r is an error.
After(r, Next(_)) == IF r.at = 0 THEN Error ELSE Next(r)
\* An operation on the tree of r.
Made(r, Make(_)) == After(r, LAMBDA x : Parsed(x.at, Make(x.ast)))

RECURSIVE ParseDotted(_, _)
ParseDotted(ws, p) ==
  CASE Token(ws, p) # "identifier" -> Error
    [] Token(ws, p) = "identifier" /\ Token(ws, p + 1) # "." -> Parsed(p + 1, <<ws[p].text>>)
    [] OTHER -> Made(ParseDotted(ws, p + 2), LAMBDA rest : <<ws[p].text>> \o rest)

-----------------------------------------------------------------------------
(* Expressions: a level for every precedence, the loosest first.           *)

Levels == <<{"OR"}, {"XOR"}, {"AND"}, {"=", "<>"}, {"<", ">", "<=", ">="}, {"+", "-"}, {"*", "/"}>>

LiteralTypes == [int |-> "DINT", real |-> "LREAL", bool |-> "BOOL", time |-> "TIME", string |-> "STRING"]
LiteralOf(w) == [type |-> LiteralTypes[Literals[w].kind], num |-> Literals[w].num, den |-> Literals[w].den]
LiteralExpr(v) == [kind |-> "Literal", value |-> v]
IdentifierExpr(n) == [kind |-> "Identifier", name |-> n]
UnaryExpr(op, e) == [kind |-> "Unary", op |-> op, operand |-> e]
BinaryExpr(op, l, r) == [kind |-> "Binary", op |-> op, lhs |-> l, rhs |-> r]

RECURSIVE ParseLevel(_, _, _), ParseMore(_, _, _), ParseUnary(_, _)
ParseExpression(ws, p) == ParseLevel(ws, p, 1)
ParseLevel(ws, p, k) == IF k > Len(Levels) THEN ParseUnary(ws, p) ELSE ParseMore(ws, ParseLevel(ws, p, k + 1), k)
\* Mutant: operators of one level bind to the right.
ParseMoreRight(ws, left, k) ==
  IF Token(ws, left.at) \notin Levels[k] THEN left
  ELSE Made(ParseLevel(ws, left.at + 1, k), LAMBDA right : BinaryExpr(Token(ws, left.at), left.ast, right))
ParseMore(ws, left, k) ==
  IF Token(ws, left.at) \notin Levels[k] THEN left
  ELSE ParseMore(ws, Made(ParseLevel(ws, left.at + 1, k + 1),
                          LAMBDA right : BinaryExpr(Token(ws, left.at), left.ast, right)), k)
ParsePrimary(ws, p) ==
  CASE Token(ws, p) = "int" -> Parsed(p + 1, LiteralExpr(Of("DINT", Wrapped("DINT", Literals[ws[p].text].num))))
    [] Token(ws, p) \in {"real", "bool", "time", "string"} -> Parsed(p + 1, LiteralExpr(LiteralOf(ws[p].text)))
    [] Token(ws, p) = "identifier" -> Made(ParseDotted(ws, p), IdentifierExpr)
    [] Token(ws, p) = "(" -> After(ParseExpression(ws, p + 1), LAMBDA inner : Parsed(Expect(ws, inner.at, ")"), inner.ast))
    [] OTHER -> Error
ParseUnary(ws, p) ==
  IF Token(ws, p) \notin {"NOT", "-"} THEN ParsePrimary(ws, p)
  ELSE Made(ParseUnary(ws, p + 1), LAMBDA operand : UnaryExpr(Token(ws, p), operand))

-----------------------------------------------------------------------------
(* Statements.                                                             *)

AssignStmt(target, value) == [kind |-> "Assign", target |-> target, value |-> value]
IfBranch(cond, body) == [cond |-> cond, body |-> body]
IfStmt(branches, elseBody) == [kind |-> "If", branches |-> branches, elseBody |-> elseBody]
WhileStmt(cond, body) == [kind |-> "While", cond |-> cond, body |-> body]
InputArg(param, expr) == [param |-> param, input |-> expr]
OutputArg(param, target) == [param |-> param, output |-> target]
IsOutput(arg) == "output" \in DOMAIN arg
CallStmt(callee, args) == [kind |-> "Call", callee |-> callee, args |-> args]
RungOutput(kind, target) == [kind |-> kind, target |-> target]
RungStmt(cond, outputs) == [kind |-> "Rung", cond |-> cond, outputs |-> outputs]

\* "left (, left)*" from p on, Item parsing one of them.
RECURSIVE ParseCommas(_, _, _)
ParseCallArg(ws, p) ==
  CASE Token(ws, p) = "identifier" /\ Token(ws, p + 1) = ":=" ->
         Made(ParseExpression(ws, p + 2), LAMBDA input : InputArg(ws[p].text, input))
    [] Token(ws, p) = "identifier" /\ Token(ws, p + 1) = "=>" ->
         Made(ParseDotted(ws, p + 2), LAMBDA output : OutputArg(ws[p].text, output))
    [] OTHER -> Error
ParseRungOutput(ws, p) ==
  LET modified == Token(ws, p) \in {"SET", "RESET"}
  IN Made(ParseDotted(ws, IF modified THEN p + 1 ELSE p),
          LAMBDA target : RungOutput(IF modified THEN Token(ws, p) ELSE "Direct", target))
ParseCommas(ws, p, what) ==
  After(IF what = "arguments" THEN ParseCallArg(ws, p) ELSE ParseRungOutput(ws, p), LAMBDA item :
    IF Token(ws, item.at) # "," THEN Parsed(item.at, <<item.ast>>)
    ELSE Made(ParseCommas(ws, item.at + 1, what), LAMBDA rest : <<item.ast>> \o rest))

ParseCallRest(ws, p, callee) ==
  After(IF Token(ws, p) = ")" THEN [at |-> p, ast |-> <<>>] ELSE ParseCommas(ws, p, "arguments"), LAMBDA args :
    Parsed(Expect(ws, Expect(ws, args.at, ")"), ";"), CallStmt(callee, args.ast)))
ParseAssignOrCall(ws, p) ==
  After(ParseDotted(ws, p), LAMBDA name :
    IF Token(ws, name.at) = "(" THEN ParseCallRest(ws, name.at + 1, name.ast)
    ELSE After(ParseExpression(ws, Expect(ws, name.at, ":=")), LAMBDA value :
           Parsed(Expect(ws, value.at, ";"), AssignStmt(name.ast, value.ast))))
ParseRung(ws, p) ==
  After(ParseExpression(ws, p + 1), LAMBDA cond :
    After(ParseCommas(ws, Expect(ws, cond.at, "=>"), "outputs"), LAMBDA outputs :
      Parsed(Expect(ws, outputs.at, ";"), RungStmt(cond.ast, outputs.ast))))

RECURSIVE ParseStatements(_, _, _), ParseBranches(_, _), SkipSemicolons(_, _)
SkipSemicolons(ws, p) == IF Token(ws, p) = ";" THEN SkipSemicolons(ws, p + 1) ELSE p
\* A condition and, after a word, its body: IfBranch, also of WHILE.
ParseBranch(ws, p, word, terminators) ==
  After(ParseExpression(ws, p), LAMBDA cond :
    Made(ParseStatements(ws, Expect(ws, cond.at, word), terminators), LAMBDA body : IfBranch(cond.ast, body)))
\* The branches from the word after IF or ELSIF on.
ParseBranches(ws, p) ==
  After(ParseBranch(ws, p, "THEN", {"ELSIF", "ELSE", "END_IF"}), LAMBDA branch :
    IF Token(ws, branch.at) # "ELSIF" THEN Parsed(branch.at, <<branch.ast>>)
    ELSE Made(ParseBranches(ws, branch.at + 1), LAMBDA rest : <<branch.ast>> \o rest))
ParseIf(ws, p) ==
  After(ParseBranches(ws, p + 1), LAMBDA branches :
    After(IF Token(ws, branches.at) = "ELSE" THEN ParseStatements(ws, branches.at + 1, {"END_IF"})
                                             ELSE [at |-> branches.at, ast |-> <<>>], LAMBDA else :
      Parsed(Expect(ws, else.at, "END_IF"), IfStmt(branches.ast, else.ast))))
ParseWhile(ws, p) ==
  After(ParseBranch(ws, p + 1, "DO", {"END_WHILE"}), LAMBDA loop :
    Parsed(Expect(ws, loop.at, "END_WHILE"), WhileStmt(loop.ast.cond, loop.ast.body)))
ParseStatement(ws, p) ==
  CASE Token(ws, p) = "IF" -> ParseIf(ws, p)
    [] Token(ws, p) = "WHILE" -> ParseWhile(ws, p)
    [] Token(ws, p) = "RUNG" -> ParseRung(ws, p)
    [] Token(ws, p) = "identifier" -> ParseAssignOrCall(ws, p)
    [] OTHER -> Error
ParseStatements(ws, p, terminators) ==
  IF Token(ws, p) \in terminators THEN [at |-> p, ast |-> <<>>]
  ELSE After(ParseStatement(ws, p), LAMBDA first :
         Made(ParseStatements(ws, SkipSemicolons(ws, first.at), terminators), LAMBDA rest : <<first.ast>> \o rest))

-----------------------------------------------------------------------------
(* Declarations and the units of a source.                                 *)

NoValue == Of("none", 0)
VarDecl(name, kind, address) ==
  [name |-> name, kind |-> kind, address |-> address, type |-> "none", initial |-> NoValue, instanceOf |-> "none"]
\* What an initial value becomes: a literal of the declared type, a minus applied to it.
LiteralValue(token, negative, t) ==
  LET w == token.text
      v == CASE token.kind = "int" /\ t \in Whole -> Of(t, Wrapped(t, Literals[w].num))
             [] token.kind \in {"int", "real"} /\ t \in Floats -> Rounded(t, LiteralOf(w))
             [] token.kind \in {"bool", "time", "string"} /\ LiteralOf(w).type = t -> LiteralOf(w)
             [] OTHER -> NoValue
  IN IF ~negative THEN v
     ELSE CASE v.type \in Whole -> Of(t, Wrapped(t, -v.num))
            [] v.type \in Floats \cup {"TIME"} -> Negated(v)
            [] OTHER -> NoValue
ParseInitial(ws, p, t) ==
  LET at == Match(ws, p, "-")
      v == LiteralValue(ws[at], at # p, t)
  IN IF v = NoValue THEN Error ELSE Parsed(at + 1, v)

\* The type of a declaration and its initial value, from the word after the colon on.
ParseType(ws, p, decl, instances) ==
  CASE Token(ws, p) \in Types /\ Token(ws, p + 1) = ":=" ->
         Made(ParseInitial(ws, p + 2, Token(ws, p)), LAMBDA v : [decl EXCEPT !.type = Token(ws, p), !.initial = v])
    [] Token(ws, p) \in Types /\ Token(ws, p + 1) # ":=" ->
         Parsed(p + 1, [decl EXCEPT !.type = Token(ws, p)])
    [] Token(ws, p) = "identifier" /\ instances -> Parsed(p + 1, [decl EXCEPT !.instanceOf = ws[p].text])
    [] OTHER -> Error
ParseDecl(ws, p, kind, instances) ==
  LET name == Expect(ws, p, "identifier")
      addressed == Token(ws, name) = "AT"
      colon == IF addressed THEN Expect(ws, name + 1, "address") ELSE name
      decl == VarDecl(ws[p].text, kind, IF addressed THEN ws[name + 1].text ELSE "none")
  IN IF name = 0 \/ colon = 0 THEN Error
     ELSE After(ParseType(ws, Expect(ws, colon, ":"), decl, instances), LAMBDA typed :
            Parsed(Expect(ws, typed.at, ";"), typed.ast))

RECURSIVE ParseDecls(_, _, _, _), ParseVarBlocks(_, _, _)
ParseDecls(ws, p, kind, instances) ==
  IF Token(ws, p) = "END_VAR" THEN Parsed(p + 1, <<>>)
  ELSE After(ParseDecl(ws, p, kind, instances), LAMBDA first :
         Made(ParseDecls(ws, first.at, kind, instances), LAMBDA rest : <<first.ast>> \o rest))

\* Which blocks a unit may have; instances are allowed in VAR of a program or function block.
BlocksOf(unit) ==
  CASE unit = "PROGRAM" -> {"VAR", "VAR_INPUT", "VAR_OUTPUT"}
    [] unit = "DATA_BLOCK" -> {"VAR"}
    [] unit \in {"FUNCTION", "FUNCTION_BLOCK"} -> VarBlockWords
ParseVarBlocks(ws, p, unit) ==
  LET kind == Token(ws, p)
  IN IF kind \notin BlocksOf(unit) THEN [at |-> p, ast |-> <<>>]
     ELSE IF <<unit, kind>> = <<"FUNCTION", "VAR">> THEN Error
     ELSE After(ParseDecls(ws, p + 1, kind, kind = "VAR" /\ unit \in {"PROGRAM", "FUNCTION_BLOCK"}), LAMBDA block :
            Made(ParseVarBlocks(ws, block.at, unit), LAMBDA rest : block.ast \o rest))

EndOf(unit) == CASE unit = "PROGRAM" -> "END_PROGRAM" [] unit = "DATA_BLOCK" -> "END_DATA_BLOCK"
                 [] unit = "FUNCTION" -> "END_FUNCTION" [] unit = "FUNCTION_BLOCK" -> "END_FUNCTION_BLOCK"
PouAst(unit, name, decls, body) == [unit |-> unit, name |-> name, decls |-> decls, body |-> body]
\* A FUNCTION_BLOCK, FUNCTION, DATA_BLOCK or PROGRAM; a data block has no statements.
ParseUnit(ws, p) ==
  LET unit == Token(ws, p)
  IN After(ParseVarBlocks(ws, Expect(ws, p + 1, "identifier"), unit), LAMBDA decls :
       After(IF unit = "DATA_BLOCK" THEN [decls EXCEPT !.ast = <<>>] ELSE ParseStatements(ws, decls.at, {EndOf(unit)}), LAMBDA body :
         Parsed(Expect(ws, body.at, EndOf(unit)), PouAst(unit, ws[p + 1].text, decls.ast, body.ast))))

RECURSIVE ParseUnits(_, _, _)
ParseUnits(ws, p, allowed) ==
  CASE Token(ws, p) = "end of file" -> [at |-> p, ast |-> <<>>]
    [] Token(ws, p) # "end of file" /\ Token(ws, p) \notin allowed -> Error
    [] OTHER -> After(ParseUnit(ws, p), LAMBDA first :
                  Made(ParseUnits(ws, first.at, allowed), LAMBDA rest : <<first.ast>> \o rest))

UnitsOf(units, kinds) == SelectSeq(units, LAMBDA u : u.unit \in kinds)
CompilationUnit(units) ==
  [pous |-> UnitsOf(units, {"FUNCTION_BLOCK", "FUNCTION"}), dataBlocks |-> UnitsOf(units, {"DATA_BLOCK"}),
   program |-> UnitsOf(units, {"PROGRAM"})[1]]
\* Exactly one PROGRAM among the units of a source.
ParseCompilationUnit(text) ==
  After(ParseUnits(Lexed(text), 1, {"FUNCTION_BLOCK", "FUNCTION", "DATA_BLOCK", "PROGRAM"}), LAMBDA r :
    IF Len(UnitsOf(r.ast, {"PROGRAM"})) # 1 THEN Error ELSE Parsed(r.at, CompilationUnit(r.ast)))
ParsePouLibrary(text) == ParseUnits(Lexed(text), 1, {"FUNCTION_BLOCK", "FUNCTION"}).ast
=============================================================================
