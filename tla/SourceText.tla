----------------------------- MODULE SourceText -----------------------------
(***************************************************************************)
(* How declarations are written: the tokens of each kind of declaration    *)
(* and statement that the parser makes.  A style is [eol, elif, lines,     *)
(* func]: lines broken around braces, an If alone in an Else written Elif, *)
(* one parameter a line, and functions written the old way.                *)
(***************************************************************************)
EXTENDS Naturals, SequencesExt

Join(texts) == FlattenSeq(texts)
Terminated(text) == text \o <<";">>
InBrackets(text) == <<"(">> \o text \o <<")">>

VarText(d) ==
    Terminated((IF d.global THEN <<"Global">> ELSE <<>>)
               \o <<d.name, ":">> \o d.type
               \o (IF d.value = <<>> THEN <<>> ELSE <<"=">> \o d.value))

FieldsText(fields) ==
    Join([k \in DOMAIN fields |->
            Terminated(<<fields[k][1], ":">> \o fields[k][2])])

RECURSIVE StatementText(_, _), BlockText(_, _), ElseText(_, _)

BlockText(body, style) ==
    <<"{">> \o Join([k \in DOMAIN body |-> StatementText(body[k], style)])
    \o <<"}">>

(* An Elif has no Elif after it: the parser reads one.                     *)
ElseText(body, style) ==
    IF body = <<>> THEN <<>>
    ELSE IF style.elif /\ Len(body) = 1 /\ body[1].node = "If"
    THEN <<"Elif">> \o InBrackets(body[1].cond) \o BlockText(body[1].then, style)
         \o ElseText(body[1].else, [style EXCEPT !.elif = FALSE])
    ELSE <<"Else">> \o BlockText(body, style)

CatchText(c, style) ==
    (IF c.spec = <<"all">> THEN <<"Catchall">> ELSE <<"Catch">> \o InBrackets(c.spec))
    \o BlockText(c.body, style)

StatementText(s, style) ==
    CASE s.node \in {"Return", "Throw"} -> Terminated(<<s.node>> \o s.value)
      [] s.node \in {"Break", "Continue"} -> Terminated(<<s.node>>)
      [] s.node = "Expr" -> Terminated(s.value)
      [] s.node = "Raw" -> s.text
      [] s.node = "Target" -> Terminated(<<"Target">> \o s.spec)
      [] s.node = "Expand" ->
            Terminated(<<s.name, "Expand", "{">> \o FieldsText(s.fields) \o <<"}">>)
      [] s.node = "VarDecl" -> VarText(s)
      [] s.node = "If" ->
            <<"If">> \o InBrackets(s.cond) \o BlockText(s.then, style)
            \o ElseText(s.else, style)
      [] s.node \in {"While", "For"} ->
            <<s.node>> \o InBrackets(s.head) \o BlockText(s.body, style)
      [] s.node = "DoWhile" ->
            Terminated(<<"Do">> \o BlockText(s.body, style) \o <<"While">>
                       \o InBrackets(s.cond))
      [] s.node = "Try" ->
            <<"Try">> \o BlockText(s.body, style)
            \o Join([k \in DOMAIN s.catches |-> CatchText(s.catches[k], style)])

ParamText(p) ==
    <<p.name, ":">> \o p.type
    \o (IF p.default = <<>> THEN <<>> ELSE <<"=">> \o p.default)

ParamsText(params, style) ==
    IF style.lines
    THEN <<"EOL">> \o Join([k \in DOMAIN params |-> Append(ParamText(params[k]), "EOL")])
         \o <<"(", ")">>
    ELSE InBrackets(Join([k \in DOMAIN params |->
            ParamText(params[k]) \o (IF k = Len(params) THEN <<>> ELSE <<",">>)]))

FunctionText(f, style) ==
    LET body == BlockText(f.body, style)
        params == ParamsText(f.params, style)
        old == style.func /\ f.kind = "function"
    IN  CASE f.kind = "destructor" -> <<"~", f.name>> \o params \o body
          [] f.kind = "constructor" -> <<f.name>> \o params \o body
          [] f.kind = "pure" -> f.type \o <<f.name>> \o params \o <<"=", "x", ";">>
          [] old -> <<"func", f.name>> \o ParamsText(f.params, [style EXCEPT !.lines = FALSE])
                    \o <<":">> \o f.type \o body
          [] OTHER -> f.type \o <<f.name>> \o params \o body

(* Out of its class: without a return type if it is Void. *)
OutOfClassText(f, style) ==
    <<"$", f.of>>
    \o (IF f.type = <<"Void">>
        THEN <<"EOL", f.name>> \o ParamsText(f.params, style) \o BlockText(f.body, style)
        ELSE FunctionText(f, style))

RECURSIVE ClassText(_, _)
ItemText(d, style) ==
    CASE d.node = "Field" -> Terminated(<<d.visibility, d.name, ":">> \o d.type)
      [] d.node = "Function" -> FunctionText(d, style)
      [] d.node = "Hit" ->
            Terminated(<<"Hit">> \o d.spec) \o FunctionText(d.function, style)
      [] d.node = "Class" -> ClassText(d, style)

ClassText(d, style) ==
    <<"Class", d.name>>
    \o (IF d.bases = <<>> THEN <<>> ELSE <<"Inherits">> \o d.bases)
    \o <<"{">> \o Join([k \in DOMAIN d.items |-> ItemText(d.items[k], style)])
    \o <<"}", ";">>

DeclarationText(d, style) ==
    CASE d.node = "VarDecl" -> VarText(d)
      [] d.node = "Function" ->
            IF d.of = "" THEN FunctionText(d, style) ELSE OutOfClassText(d, style)
      [] d.node \in {"Hit", "Class"} -> ItemText(d, style)
      [] d.node = "Template" ->
            <<"Template", "EOL">>
            \o Join([k \in DOMAIN d.params |-> <<d.params[k], ":", "Type", "EOL">>])
            \o IF d.body.node = "Class" THEN ClassText(d.body, style)
               ELSE FunctionText(d.body, style)
      [] d.node \in {"Package", "Plugin"} -> Terminated(<<d.node>> \o d.name)
      [] d.node = "Blend" ->
            Terminated(<<"Blend", d.name>> \o d.body)
      [] d.node = "DynamicStruct" ->
            Terminated(<<"Dynamic", "Struct", d.name, "{">> \o FieldsText(d.fields)
                       \o <<"}">>)

Broken(text) ==
    Join([k \in DOMAIN text |->
            CASE text[k] = "{" -> <<"EOL", "{", "EOL">>
              [] text[k] \in {"}", ";"} -> <<text[k], "EOL">>
              [] OTHER -> <<text[k]>>])

Text(declarations, style) ==
    LET text == Join([k \in DOMAIN declarations |->
                        DeclarationText(declarations[k], style)])
    IN  IF style.eol THEN Broken(text) ELSE text
=============================================================================
