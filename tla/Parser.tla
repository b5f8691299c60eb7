------------------------------- MODULE Parser -------------------------------
(***************************************************************************)
(* The recursive descent parser of the Python bootstrap, parser.py: its    *)
(* loop over the declarations of a file as actions, its productions as     *)
(* operators on a position in the token sequence.                          *)
(*                                                                         *)
(* A production gives [at, ast]: the position it leaves the parser at and  *)
(* what it made of the tokens.  A negative position says that it raised    *)
(* SyntaxError there: the parser does not go back when it catches one, so  *)
(* the place matters.  Text that the parser only collects is the sequence  *)
(* of its tokens but for the ends of lines (compact_tokens).               *)
(*                                                                         *)
(* A production that calls itself, or one that calls it, takes its calls   *)
(* from a grammar g, the functions by position that the productions were   *)
(* in the round before (Grammar, behind them).  As each takes a token, as  *)
(* many rounds as there are tokens, and one, are enough; a call that needs *)
(* more would never end, and gives the position 0.                         *)
(*                                                                         *)
(* Left out: Operation names, qualified and array types, the parts between *)
(* the colons of Hit and Target.                                           *)
(***************************************************************************)
EXTENDS Integers, SequencesExt

CONSTANT Inputs     \* what is parsed: [tokens, source], source being the
                    \* declarations the tokens begin with

ASSUME InputsAssumption == \A input \in Inputs : input.tokens \in Seq(STRING)

VARIABLES
    tokens,     \* the file, without its EOF
    source,     \* what was printed, if the file was; a history variable
    i,          \* the next token
    decls,      \* the declarations so far
    status

vars == <<tokens, source, i, decls, status>>

Ids == {"x", "C", "T", "Expand"}
Names == Ids \union {"Type", "Dynamic", "Struct", "Void"}
Decorators == {"Overridable", "Inline", "Global"}
Visibility == {"Public", "Private"}

-----------------------------------------------------------------------------
(* Reading tokens.  The operator for the rest of a production takes what   *)
(* was made so far as its argument.                                        *)

Tok(p) == IF p \in DOMAIN tokens THEN tokens[p] ELSE "EOF"
Toks == Range(tokens) \union {"EOF"}
Raise(p) == IF p > 0 THEN -p ELSE p
Pass(p) == IF p > 0 THEN p + 1 ELSE p
Take(p, t) == IF Tok(p) = t THEN p + 1 ELSE Raise(p)
Accept(p, t) == IF Tok(p) = t THEN p + 1 ELSE p
Got(p, ast) == [at |-> p, ast |-> ast]

(* The first of the positions at, from p on, or the end. *)
Ahead(p) == p..(Len(tokens) + 1)
First(p, at) ==
    IF Tok(p) = "EOF" THEN p
    ELSE CHOOSE q \in Ahead(p) :
            /\ q \in at \/ Tok(q) = "EOF"
            /\ \A r \in p..(q - 1) : r \notin at

Upto(p, ts) == First(p, {q \in Ahead(p) : Tok(q) \in ts})
Over(p, ts) == First(p, {q \in Ahead(p) : Tok(q) \notin ts})
Skip(p) == Over(p, {"EOL"})

\* The token that is not the end of a line, n of these behind p.
NextBut(p, n) ==
    CASE n = 0 -> Tok(Skip(p))
      [] n = 1 -> Tok(Skip(Skip(p) + 1))
      [] n = 2 -> Tok(Skip(Skip(Skip(p) + 1) + 1))

Words(p, q) ==
    SelectSeq(SubSeq(tokens, p, IF q > Len(tokens) THEN Len(tokens) ELSE q - 1),
              LAMBDA t : t # "EOL")

Collected(p, q) == Got(q, Words(p, q))
Closed(made, bracket) == Got(Take(made.at, bracket), made.ast)
Ended(made, t) == Got(Accept(made.at, t), made.ast)

(* What was made is the first of more. *)
Then(made, rest) == IF made.at < 0 THEN made ELSE Got(rest.at, made.ast \o rest.ast)

HowMany(p, q, ts) == Cardinality({r \in p..(q - 1) : Tok(r) \in ts})
Depth(p, q) == HowMany(p, q, {"(", "{"}) - HowMany(p, q, {")", "}"})

(* A closing bracket too many makes the depth negative, and nothing stops  *)
(* the search for the end of the expression any more.                      *)
OutOfBrackets(p, stops) ==
    First(p, {q \in Ahead(p) : Depth(p, q) = 0 /\ Tok(q) \in stops})
ExprUntil(p, term) == OutOfBrackets(p, {term})
ExprUntilEolOr(p, stops) == Skip(OutOfBrackets(p, stops \union {"EOL"}))
TypeUntil(p, stops) ==
    Skip(First(p, {q \in Ahead(p) :
            /\ HowMany(p, q, {"("}) = HowMany(p, q, {")"})
            /\ Tok(q) \in stops \union {"EOL"}}))
Type(p, stops) == Collected(p, TypeUntil(p, stops))
Value(p, end) == IF Tok(p) = "=" THEN Collected(p + 1, end) ELSE Got(p, <<>>)
Balanced(p, open, close) ==
    First(p, {q \in Ahead(p) :
                /\ q > p /\ Tok(q - 1) = close
                /\ HowMany(p, q, {open}) = HowMany(p, q, {close})})

(* paren_expr_or_until_block, paren_expr_or_until_semicolon: the first and *)
(* the last of the tokens collected are taken for the brackets.            *)
Within(p, end) == Got(end, Words(p + 1, end - 1))
BeforeBlock(p) ==
    IF Tok(p) = "(" THEN Within(p, Balanced(p, "(", ")"))
    ELSE Collected(p, Upto(p, {"{"}))
BeforeSemicolon(p) ==
    IF Tok(p) = "(" THEN Within(p, Balanced(p, "(", ")"))
    ELSE Collected(p, ExprUntil(p, ";"))

-----------------------------------------------------------------------------
(* Statements.  A production gives the sequence of those it makes.         *)

LooksLikeVarDecl(p) ==
    LET Declares(name) == NextBut(name, 0) \in Names /\ NextBut(name, 1) = ":"
    IN  Declares(IF NextBut(p, 0) = "Global" THEN Skip(p) + 1 ELSE p)

BitFields(p, g) ==
    LET q == Skip(p)
    IN  IF Tok(q) \in {"EOF", "}"} THEN Take(q, "}")
        ELSE g.bitFields[Accept(Pass(Take(q + 1, ":")), ",")]

OrI32(type) == IF type = <<>> THEN <<"I32">> ELSE type
Variable(name, type, value, global) ==
    [node |-> "VarDecl", name |-> name, type |-> type, value |-> value,
     global |-> global]

EndOfVar(p) == IF Tok(p) = "Block" THEN Accept(p + 1, ";") ELSE p
Initial(p) == Value(p, ExprUntil(p + 1, ";"))
VarDecl(p, isGlobal, g) ==
    LET Made(name, type, value) ==
            Got(EndOfVar(Accept(Accept(value.at, "Block"), ";")),
                <<Variable(Tok(name),
                           OrI32(SelectSeq(type.ast, LAMBDA t : t # "Global")), value.ast,
                           isGlobal \/ p # name \/ Contains(type.ast, "Global"))>>)
        AfterType(name, type) ==
            Made(name, type,
                 Initial(IF Tok(type.at) = "{" THEN g.bitFields[type.at + 1] ELSE type.at))
        Named(name) ==
            AfterType(name, Type(Take(Pass(name), ":"), {"=", ";", "{", "Block"}))
    IN  Named(IF Tok(p) = "Global" THEN Skip(p + 1) ELSE p)

Block(p, g) == Closed(g.statements[Skip(Take(p, "{"))], "}")

(* A condition and its block. *)
WithBlock(head, body) == Got(body.at, [head |-> head.ast, body |-> body.ast])
Headed(head, g) == WithBlock(head, Block(Skip(head.at), g))
Branch(p, g) == Headed(BeforeBlock(Skip(p)), g)

If(branch, else) ==
    Got(else.at, <<[node |-> "If", cond |-> branch.ast.head,
                    then |-> branch.ast.body, else |-> else.ast]>>)
Else(p, g) == IF Tok(p) = "Else" THEN Block(Skip(p + 1), g) ELSE Got(p, <<>>)

\* Mutant: an Else takes the place of the Elif before it.
ElseForTheOuterIf(elif, g) ==
    LET else == Else(Skip(elif.at), g)
    IN  IF else.at = Skip(elif.at) THEN If(elif, else) ELSE else

Elif(elif, g) == If(elif, Else(Skip(elif.at), g))
AfterIf(p, g) == IF Tok(p) = "Elif" THEN Elif(Branch(p + 1, g), g) ELSE Else(p, g)
IfStatement(p, g) ==
    LET Made(branch) == If(branch, AfterIf(Skip(branch.at), g))
    IN  Made(Branch(p + 1, g))

DoWhile(p, g) ==
    LET Made(body, cond) ==
            Got(cond.at, <<[node |-> "DoWhile", body |-> body.ast, cond |-> cond.ast]>>)
        AfterBody(body) ==
            Made(body, BeforeSemicolon(Skip(Accept(Skip(body.at), "While"))))
    IN  Ended(AfterBody(Block(Skip(p + 1), g)), ";")

Catches(p, g) ==
    LET Caught(c) ==
            Then(Got(c.at, <<[spec |-> c.ast.head, body |-> c.ast.body]>>),
                 g.catches[Skip(c.at)])
    IN  IF Tok(p) \notin {"Catch", "Catchall"} THEN Got(p, <<>>)
        ELSE Caught(Headed(IF Tok(p + 1) = "(" THEN BeforeBlock(Skip(p + 1))
                           ELSE Got(p + 1, <<"all">>), g))

TryCatch(p, g) ==
    LET Made(body, catches) ==
            Got(catches.at,
                <<[node |-> "Try", body |-> body.ast, catches |-> catches.ast]>>)
        AfterBody(body) == Made(body, g.catches[Skip(body.at)])
    IN  AfterBody(Block(Skip(p + 1), g))

Loop(p, g) ==   \* While and For
    LET Made(branch) ==
            Got(branch.at,
                <<[node |-> Tok(p), head |-> branch.ast.head, body |-> branch.ast.body]>>)
    IN  Made(Branch(p + 1, g))

Simple(p) ==    \* Return and Throw
    LET Made(value) == Got(value.at, <<[node |-> Tok(p), value |-> value.ast]>>)
    IN  Ended(Made(Collected(p + 1, ExprUntil(p + 1, ";"))), ";")

RawText(p, end) == Got(end, <<[node |-> "Raw", text |-> Words(p, end)]>>)
RawKeyword(p) ==
    LET Body(q) ==
            IF Tok(q) = "{" THEN RawText(p, Balanced(q, "{", "}"))
            ELSE Ended(RawText(p, Upto(q, {";"})), ";")
    IN  Body(Skip(IF Tok(p + 1) = "(" THEN Balanced(p + 1, "(", ")") ELSE p + 1))

OldVarDecl(p) ==
    LET Made(type, value) ==
            Got(value.at, <<Variable(Tok(p + 1), type.ast, value.ast, FALSE)>>)
        AfterType(type) == Made(type, Initial(type.at))
    IN  Ended(AfterType(IF Tok(p + 2) = ":" THEN Type(p + 3, {"=", ";"})
                        ELSE Got(p + 2, <<"I32">>)), ";")

TargetStatement(p) ==
    LET end == ExprUntilEolOr(p + 1, {";"})
    IN  Got(Accept(end, ";"), <<[node |-> "Target", spec |-> Words(p + 1, end)]>>)

ExprStatement(p) ==
    LET end == ExprUntil(p, ";")
    IN  Got(Accept(end, ";"), <<[node |-> "Expr", value |-> Words(p, end)]>>)

StructFields(p, g) ==
    LET q == Skip(p)
        Typed(var) ==
            Then(Got(var.at, <<<<var.ast[1].name, var.ast[1].type>>>>), g.fields[var.at])
        Untyped(text) ==
            LET raw == SelectSeq(text.ast, LAMBDA t : t # ",")
            IN  Then(Got(text.at,
                         IF Len(raw) < 2 THEN <<>> ELSE <<<<Last(raw), Front(raw)>>>>),
                     g.fields[Accept(text.at, ";")])
    IN  IF Tok(q) \in {"EOF", "}"} THEN Got(Take(q, "}"), <<>>)
        ELSE IF LooksLikeVarDecl(q) THEN Typed(VarDecl(q, FALSE, g))
        ELSE Untyped(Collected(q, OutOfBrackets(q, {";", "}"})))

Expansion(p, g) ==
    LET Made(fields) ==
            Got(fields.at, <<[node |-> "Expand", name |-> Tok(p), fields |-> fields.ast]>>)
    IN  Ended(Made(g.fields[Take(Skip(Take(p + 1, "Expand")), "{")]), ";")

Statement(p, g) ==
    CASE Tok(p) = ";" -> Got(p + 1, <<>>)
      [] Tok(p) \in Ids /\ NextBut(p, 1) = "Expand" -> Expansion(p, g)
      [] Tok(p) = "Target" -> TargetStatement(p)
      [] Tok(p) \in {"Return", "Throw"} -> Simple(p)
      [] Tok(p) \in {"Break", "Continue"} ->
            Got(Accept(p + 1, ";"), <<[node |-> Tok(p)]>>)
      [] Tok(p) = "If" -> IfStatement(p, g)
      [] Tok(p) \in {"While", "For"} -> Loop(p, g)
      [] Tok(p) = "Do" -> DoWhile(p, g)
      [] Tok(p) = "Try" -> TryCatch(p, g)
      [] Tok(p) = "Switch" -> RawKeyword(p)
      [] Tok(p) = "var" -> OldVarDecl(p)
      [] Tok(p) = "{" -> RawText(p, Balanced(p, "{", "}"))
      [] Tok(p) = "Global" \/ LooksLikeVarDecl(p) -> VarDecl(p, FALSE, g)
      [] OTHER -> ExprStatement(p)

Statements(p, g) ==
    LET More(s) == Then(s, g.statements[Skip(s.at)])
    IN  IF Tok(p) \in {"EOF", "}"} THEN Got(p, <<>>) ELSE More(Statement(p, g))

-----------------------------------------------------------------------------
(* Functions.                                                              *)

Param(name, type, default) == [name |-> name, type |-> type, default |-> default]
OneParam(name, type, value) ==
    Got(value.at, <<Param(name, OrI32(type.ast), value.ast)>>)

(* In brackets.  What is no name is passed over.                           *)
OldParams(p, g) ==
    LET q == Skip(p)
        Added(param) == Then(param, g.oldParams[Accept(param.at, ",")])
        Valued(type) ==
            Added(OneParam(Tok(q), type,
                           Value(type.at, ExprUntilEolOr(type.at + 1, {",", ")"}))))
    IN  IF Tok(q) \in {"EOF", ")"} THEN Got(Take(q, ")"), <<>>)
        ELSE IF Tok(q) \in Names
        THEN Valued(IF Tok(q + 1) = ":" THEN Type(q + 2, {",", ")", "="})
                    ELSE Got(q + 1, <<>>))
        ELSE g.oldParams[Accept(q + 1, ",")]

(* A line for each. *)
LineParams(p, g) ==
    LET q == Skip(p)
        Added(param) == Then(param, g.lineParams[Accept(param.at, ",")])
        Valued(type) ==
            Added(OneParam(Tok(q), type,
                           Value(type.at, ExprUntilEolOr(type.at + 1, {",", "("}))))
    IN  IF Tok(q) \notin Names \/ NextBut(q, 1) # ":" THEN Got(q, <<>>)
        ELSE IF Tok(q + 1) # ":" THEN Got(Raise(q + 1), <<>>)
        ELSE Valued(Type(q + 2, {"=", ",", "{", ";", "("}))

(* The lines, then the brackets.  Parameters in these take the place of    *)
(* those on lines, but not behind a decorator out of a class.               *)
Params(p, decorated, g) ==
    LET After(lines) ==
            IF Tok(lines.at) # "(" THEN lines
            ELSE IF NextBut(lines.at, 1) = ")" THEN Got(Skip(lines.at + 1) + 1, lines.ast)
            ELSE IF decorated /\ lines.at # Skip(p) THEN lines
            ELSE g.oldParams[lines.at + 1]
    IN  After(g.lineParams[p])

ReturnType(p) == Over(Pass(p), {"*"})

Routine(name, params, body, type, of, kind) ==
    [node |-> "Function", name |-> name, params |-> params, body |-> body,
     type |-> type, of |-> of, kind |-> kind]

(* A body, if there is one, or a semicolon. *)
OfKind(body, kind) == [at |-> body.at, ast |-> body.ast, kind |-> kind]
OptionalBody(p, g) ==
    OfKind(Ended(IF Tok(p) = "{" THEN Block(p, g) ELSE Got(p, <<>>), ";"), "function")

RoutineOf(name, type, params, body, class) ==
    Got(body.at, Routine(name, params.ast, body.ast, type, class, body.kind))

(* old_function: func name(...) : type { ... }.                            *)
OldBody(name, params, type, class, g) ==
    RoutineOf(name, type.ast, params, OptionalBody(Skip(type.at), g), class)
OldType(name, params, class, g) ==
    OldBody(name, params,
            IF Tok(params.at) = ":"
            THEN Collected(params.at + 1, ReturnType(params.at + 1))
            ELSE Got(params.at, <<"I32">>), class, g)
OldFunction(p, class, g) ==
    OldType(Tok(p + 1), g.oldParams[Take(Pass(p + 1), "(")], class, g)

(* A constructor, a destructor or a function with a return type.           *)
Heading(p, class) ==
    LET name == Skip(ReturnType(p))
    IN  IF class # "" /\ Tok(p) = "~" THEN
            [at |-> IF Tok(p + 1) = class THEN p + 2 ELSE Raise(p + 2),
             name |-> class, type |-> <<"Void">>, kind |-> "destructor"]
        ELSE IF class # "" /\ Tok(p) = class THEN
            [at |-> p + 1, name |-> class, type |-> <<"Void">>, kind |-> "constructor"]
        ELSE [at |-> IF Tok(p) \in Names THEN Pass(name) ELSE Raise(p),
              name |-> Tok(name), type |-> Words(p, ReturnType(p)), kind |-> "function"]

(* What is behind the parameters. *)
Definition(p, kind, g) ==
    CASE Tok(p) = "=" ->
            OfKind(Got(Accept(ExprUntil(p + 1, ";"), ";"), <<>>), "pure")
      [] Tok(p) = "{" -> OfKind(Block(p, g), kind)
      [] Tok(p) = ";" -> OfKind(Got(p + 1, <<>>), kind)
      [] OTHER -> OfKind(Got(Raise(p), <<>>), kind)

AfterParams(head, params, class, g) ==
    RoutineOf(head.name, head.type, params,
              Definition(Skip(params.at), head.kind, g), class)
AfterHeading(head, class, g) == AfterParams(head, Params(head.at, FALSE, g), class, g)
Function(p, class, g) ==
    LET start == Over(p, Decorators \union {"EOL"})
    IN  IF Tok(start) = "func" THEN OldFunction(start, class, g)
        ELSE AfterHeading(Heading(start, class), class, g)

(* $Class: without a return type, which the class declares, with           *)
(* decorators, or like any function.                                       *)
MethodBody(name, type, params, class, g) ==
    RoutineOf(name, type, params, OptionalBody(Skip(params.at), g), class)
OutOfClass(p, g) ==
    LET class == Tok(p + 1)
        start == Over(Pass(p + 1), Decorators \union {"EOL"})
        bare == /\ Tok(start) \in Ids
                /\ NextBut(start, 1) = "(" \/ NextBut(start, 2) = ":"
        decorated == \E q \in (p + 2)..(start - 1) : Tok(q) \in Decorators
        name == IF bare THEN start ELSE Skip(ReturnType(start))
        type == IF bare THEN <<"Void">> ELSE Words(start, ReturnType(start))
    IN  IF bare \/ (decorated /\ Tok(start) \in Names)
        THEN MethodBody(Tok(name), type, Params(Pass(name), ~bare, g), class, g)
        ELSE IF decorated THEN Got(Raise(start), <<>>)
        ELSE Function(start, class, g)

-----------------------------------------------------------------------------
(* Classes.                                                                *)

Bases(p, g) ==
    LET q == Skip(p)
        r == Skip(q + 1)
    IN  IF Tok(q) \notin Names THEN Got(q, <<>>)
        ELSE Then(Got(r, <<Tok(q)>>), g.bases[IF Tok(r) \in Visibility THEN r + 1 ELSE r])

(* The end of a statement out of braces, or that of the class. *)
RawItem(p) ==
    Accept(First(p, {q \in Ahead(p) :
                        /\ HowMany(p, q, {"{"}) = HowMany(p, q, {"}"})
                        /\ Tok(q) \in {";", "}"}}), ";")

MayBeFunction(t, class) ==
    t \in Decorators \union {"func", "~"} \union Names \/ t = class

(* HitPrefix: Hit, what is to be hit, and the declaration it is put        *)
(* before.                                                                 *)
HitSpec(p) == ExprUntilEolOr(p + 1, {";"})
AfterHit(p) == Skip(Accept(HitSpec(p), ";"))
Hitting(p, f) ==
    Got(f.at, <<[node |-> "Hit", spec |-> Words(p + 1, HitSpec(p)),
                 function |-> f.ast]>>)

ClassOf(name, bases, items) ==
    Got(Accept(items.at, ";"), [node |-> "Class", name |-> name,
                                bases |-> bases.ast, items |-> items.ast])
AfterBases(name, bases, g) ==
    ClassOf(name, bases, g.items[Take(bases.at, "{")][name]["Public"])
ClassDecl(p, g) ==
    LET name == Skip(p + 1)
        inherits == Skip(Pass(name))
    IN  AfterBases(Tok(name),
                   IF Tok(inherits) = "Inherits" THEN g.bases[inherits + 1]
                   ELSE Got(inherits, <<>>), g)

(* One item of a class.  Where a function is not one after all, the rest   *)
(* up to the end of a statement or of the class is passed over.            *)
ClassItem(p, class, visibility, g) ==
    LET q == Skip(p)
        end == Accept(Upto(q + 2, {";"}), ";")
        One(made) == Got(made.at, <<made.ast>>)
        Field(at, var) ==
            Got(at, <<[node |-> "Field", visibility |-> visibility,
                       name |-> var.name, type |-> var.type]>>)
        AfterFunction(f) ==
            IF Tok(q) = "Hit" THEN Hitting(q, f)
            ELSE IF f.at < 0 THEN Got(RawItem(-f.at), <<>>) ELSE One(f)
        Typed(var) == Field(var.at, var.ast[1])
    IN  CASE Tok(q) \in {"EOF", "}"} -> Got(q, <<>>)
          [] Tok(q) = "Class" -> One(ClassDecl(q, g))
          [] Tok(q) = "var" -> Field(end, Variable(Tok(q + 1), <<"I32">>, <<>>, FALSE))
          [] OTHER ->
                IF LooksLikeVarDecl(q) THEN Typed(VarDecl(q, FALSE, g))
                ELSE IF Tok(q) # "Hit" /\ ~MayBeFunction(Tok(q), class)
                THEN Got(RawItem(q), <<>>)
                ELSE AfterFunction(Function(
                        IF Tok(q) = "Hit" THEN AfterHit(q) ELSE q, class, g))

Group(p, class, visibility, g) ==
    LET More(item) == Then(item, g.group[item.at][class][visibility])
    IN  IF Tok(p) \in {"EOF", "}"} THEN Got(Take(p, "}"), <<>>)
        ELSE More(ClassItem(p, class, visibility, g))

(* A visibility holds for the items behind it, and goes on behind a group  *)
(* of its own.                                                             *)
Items(p, class, visibility, g) ==
    LET q == Skip(p)
        r == Skip(q + 1)
        More(made, v) == Then(made, g.items[made.at][class][v])
    IN  IF Tok(q) \in {"EOF", "}"} THEN Got(Take(q, "}"), <<>>)
        ELSE IF Tok(q) \notin Visibility
        THEN More(ClassItem(q, class, visibility, g), visibility)
        ELSE IF Tok(r) # "{" THEN g.items[r][class][Tok(q)]
        ELSE More(g.group[r + 1][class][Tok(q)], Tok(q))

-----------------------------------------------------------------------------
(* The other declarations.                                                 *)

(* A line "x : Type" is a parameter of the template; at any other the      *)
(* parser goes back to its beginning.                                      *)
TemplateParams(p, g) ==
    LET q == Skip(p)
        type == Take(q + 1, ":")
        end == TypeUntil(type, {",", "{", ";", "("})
    IN  IF Tok(q) \notin Names \/ NextBut(q, 1) # ":" THEN Got(q, <<>>)
        ELSE IF type < 0 THEN Got(type, <<>>)
        ELSE IF Words(type, end) # <<"Type">> THEN Got(q, <<>>)
        ELSE Then(Got(end, <<Tok(q)>>), g.templateParams[Accept(end, ",")])

UpToStatement(p) ==
    LET end == IF Tok(p) = "{" THEN Balanced(p, "{", "}")
               ELSE Upto(p, {";"})
    IN  Ended(Collected(p, end), ";")

TemplateOf(params, body) ==
    Got(body.at, [node |-> "Template", params |-> params.ast, body |-> body.ast])
AttemptFunction(f) == IF f.at < 0 THEN UpToStatement(-f.at) ELSE f
AfterTemplate(params, g) ==
    IF params.at < 0 THEN params
    ELSE TemplateOf(params,
            IF Tok(params.at) = "Class" THEN ClassDecl(params.at, g)
            ELSE AttemptFunction(Function(params.at, "", g)))
Template(p, g) == AfterTemplate(g.templateParams[p + 1], g)

Line(p) ==      \* Package and Plugin
    LET end == Upto(p + 1, {"EOL", ";"})
    IN  Got(Accept(end, ";"), [node |-> Tok(p), name |-> Words(p + 1, end)])

Plugswitch(p) ==
    LET end == First(p, {q \in Ahead(p) :
                /\ q > p /\ Tok(q - 1) = "Plugend"
                /\ HowMany(p, q, {"Plugend"}) >= HowMany(p, q, {"Plugswitch"})})
    IN  Got(end, [node |-> "Raw", text |-> Words(p, end)])

Blend(p) ==     \* Blend and Enum
    LET named == Tok(p + 1) \in Ids
        q == Skip(IF named THEN p + 2 ELSE p + 1)
        end == IF Tok(q) = "{" THEN Balanced(q, "{", "}") ELSE q
    IN  Got(IF Tok(q) = "{" THEN Accept(end, ";") ELSE q,
            [node |-> "Blend", name |-> Tok(IF named THEN p + 1 ELSE p),
             body |-> Words(q, end)])

DynamicStruct(p, g) ==
    LET Made(name, fields) ==
            Got(fields.at, [node |-> "DynamicStruct", name |-> Tok(name),
                            fields |-> fields.ast])
        Named(name) == Made(name, g.fields[Take(Skip(Pass(name)), "{")])
    IN  Ended(Named(Skip(Take(Skip(p + 1), "Struct"))), ";")

Hit(p, g) ==
    LET q == AfterHit(p)
        One(made) == Got(made.at, made.ast[1])
    IN  One(Hitting(p, IF Tok(q) = "$" THEN OutOfClass(q, g) ELSE Function(q, "", g)))

\* Mutant: a closing brace ends raw text too, and is not taken.
RawUpToABrace(p) ==
    LET q == Upto(p, {";", "{", "}"})
        end == IF Tok(q) = "{" THEN Balanced(q, "{", "}") ELSE Accept(q, ";")
    IN  Got(IF Tok(q) = "{" THEN Accept(end, ";") ELSE end,
            [node |-> "Raw", text |-> Words(p, end)])

(* raw_decl_until(";"): to the end of a statement or of a block.           *)
Raw(p) ==
    LET q == Upto(p, {";", "{"})
        end == IF Tok(q) = "{" THEN Balanced(q, "{", "}") ELSE Accept(q, ";")
    IN  Got(IF Tok(q) = "{" THEN Accept(end, ";") ELSE end,
            [node |-> "Raw", text |-> Words(p, end)])

(* What the loop makes of a declaration, other than of a function.         *)
GlobalVar(p, g) == LET var == VarDecl(p, TRUE, g) IN Got(var.at, var.ast[1])

IsFunction(p) ==
    /\ MayBeFunction(Tok(p), "") /\ Tok(p) \notin {"~", "Global"}
    /\ ~LooksLikeVarDecl(p)
    /\ ~(Tok(p) = "Dynamic" /\ NextBut(p, 1) = "Struct")

Declaration(p, g) ==
    CASE Tok(p) \in {"Package", "Plugin"} -> Line(p)
      [] Tok(p) = "Plugswitch" -> Plugswitch(p)
      [] Tok(p) = "Template" -> Template(p, g)
      [] Tok(p) = "Dynamic" /\ NextBut(p, 1) = "Struct" -> DynamicStruct(p, g)
      [] Tok(p) \in {"Blend", "Enum"} -> Blend(p)
      [] Tok(p) = "Hit" -> Hit(p, g)
      [] Tok(p) = "Class" -> ClassDecl(p, g)
      [] Tok(p) = "$" -> OutOfClass(p, g)
      [] OTHER -> IF Tok(p) = "Global" \/ LooksLikeVarDecl(p)
                  THEN GlobalVar(p, g) ELSE Raw(p)

-----------------------------------------------------------------------------
(* The productions by position, round after round.                         *)

Unending == Got(0, <<>>)
NoRules ==
    LET unending == [p \in Int |-> Unending]
        inClass == [p \in Int |-> [class \in Toks |-> [v \in Visibility |-> Unending]]]
    IN  [bitFields |-> [p \in Int |-> 0], statements |-> unending,
         catches |-> unending, fields |-> unending, oldParams |-> unending,
         lineParams |-> unending, bases |-> unending, group |-> inClass,
         items |-> inClass, templateParams |-> unending]

Rules(g) ==
    [bitFields |-> [p \in Int |-> BitFields(p, g)],
     statements |-> [p \in Int |-> Statements(p, g)],
     catches |-> [p \in Int |-> Catches(p, g)],
     fields |-> [p \in Int |-> StructFields(p, g)],
     oldParams |-> [p \in Int |-> OldParams(p, g)],
     lineParams |-> [p \in Int |-> LineParams(p, g)],
     bases |-> [p \in Int |-> Bases(p, g)],
     group |-> [p \in Int |->
               [class \in Toks |-> [v \in Visibility |-> Group(p, class, v, g)]]],
     items |-> [p \in Int |->
               [class \in Toks |-> [v \in Visibility |-> Items(p, class, v, g)]]],
     templateParams |-> [p \in Int |-> TemplateParams(p, g)]]

Grammar ==
    LET round[n \in 0..(Len(tokens) + 1)] ==
            IF n = 0 THEN NoRules ELSE Rules(round[n - 1])
    IN  round[Len(tokens) + 1]

-----------------------------------------------------------------------------
(* The loop, parse().                                                      *)

Init ==
    /\ \E input \in Inputs : tokens = input.tokens /\ source = input.source
    /\ i = 1 /\ decls = <<>> /\ status = "parsing"

Here == Skip(i)
Parsing == status = "parsing" /\ UNCHANGED <<tokens, source>>

Declares(d) ==
    /\ IF d.at < 0
       THEN status' = "error" /\ UNCHANGED <<i, decls>>
       ELSE i' = d.at /\ decls' = Append(decls, d.ast) /\ UNCHANGED status

Semicolon ==
    /\ Parsing /\ Tok(Here) = ";"
    /\ i' = Here + 1
    /\ UNCHANGED <<decls, status>>

Declare ==
    /\ Parsing /\ Tok(Here) \notin {"EOF", ";"} /\ ~IsFunction(Here)
    /\ Declares(Declaration(Here, Grammar))

(* A function in which there is a SyntaxError becomes a raw declaration    *)
(* from the place of the error on, which the code generator passes over.   *)
DeclareFunction ==
    /\ Parsing /\ IsFunction(Here)
    /\ LET Attempt(f) == IF f.at < 0 THEN Raw(-f.at) ELSE f
       IN  Declares(Attempt(Function(Here, "", Grammar)))

Finish ==
    /\ Parsing /\ Tok(Here) = "EOF"
    /\ status' = "done"
    /\ UNCHANGED <<i, decls>>

Next == Semicolon \/ Declare \/ DeclareFunction \/ Finish

Spec == Init /\ [][Next]_vars

-----------------------------------------------------------------------------
(* Properties. *)

(* What was printed is read back as it was, whatever layout it was printed *)
(* in and whatever follows it: an Elif or Else goes to its own If, a Catch *)
(* to its Try, a parameter, field or statement to its own list, and no     *)
(* production reads on into the next declaration.                          *)
RoundTrip ==
    LET n == IF Len(decls) < Len(source) THEN Len(decls) ELSE Len(source)
    IN  /\ SubSeq(decls, 1, n) = SubSeq(source, 1, n)
        /\ status # "parsing" => n = Len(source)

(* On any tokens the parser comes to an end: each turn of parse() takes a  *)
(* token, also where a production stops at one it does not know and after  *)
(* a SyntaxError was caught, so none is met twice at the top.              *)
Advances == [][status' = "parsing" => i' > i]_vars
=============================================================================
