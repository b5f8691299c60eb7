------------------------------ MODULE MCParser ------------------------------
(***************************************************************************)
(* Files for the parser: functions with every statement in every other, up *)
(* to depth two; every pair of declarations of each kind; each in several  *)
(* layouts and followed by any token.  And every short sequence of tokens. *)
(***************************************************************************)
EXTENDS Parser, SourceText

Call == [node |-> "Expr", value |-> <<"x", "(", "x", ")">>]
Back == [node |-> "Return", value |-> <<>>]
Var(name, global) ==
    [node |-> "VarDecl", name |-> name, type |-> <<"T">>, value |-> <<"x">>,
     global |-> global]
Leaves ==
    {Call, Back, Var("x", FALSE), Var("x", TRUE),
     [node |-> "Throw", value |-> <<"x">>], [node |-> "Break"], [node |-> "Continue"],
     [node |-> "Raw", text |-> <<"{", "{", "}", "x", "}">>],
     [node |-> "Raw", text |-> <<"Switch", "(", "x", ")", "{", "x", "}">>],
     [node |-> "Target", spec |-> <<"x", ":", "x">>],
     [node |-> "Expand", name |-> "x", fields |-> <<<<"x", <<"T">>>>>>]}

Bodies == {<<>>, <<Call>>, <<Back, Call>>}
Catching(spec, body) == [spec |-> <<spec>>, body |-> body]
Holding(bodies, elses) ==
    {[node |-> "If", cond |-> <<"x">>, then |-> b, else |-> e] : b \in bodies, e \in elses}
    \union {[node |-> n, head |-> <<"x">>, body |-> b] : n \in {"While", "For"}, b \in bodies}
    \union {[node |-> "DoWhile", body |-> b, cond |-> <<"x">>] : b \in bodies}
    \union {[node |-> "Try", body |-> b, catches |-> c] : b \in bodies,
            c \in {<<>>} \union {<<Catching("x", e)>> : e \in elses}
                  \union {<<Catching("x", <<>>), Catching("all", e)>> : e \in elses}}
Compounds == Holding(Bodies, Bodies)
Nested ==
    Holding({<<s>> : s \in Compounds}, {<<>>})
    \union Holding({<<>>}, {<<s>> : s \in Compounds} \union {<<s, Call>> : s \in Compounds})

Free(body) == Routine("x", <<>>, body, <<"T">>, "", "function")
TwoParams == <<Param("x", <<"T">>, <<>>), Param("C", <<"T", "*">>, <<"x">>)>>
OfClass ==
    {<<Routine("C", TwoParams, <<Call>>, <<"Void">>, "C", "constructor")>>,
     <<Routine("C", <<>>, <<>>, <<"Void">>, "C", "destructor")>>,
     <<Routine("x", TwoParams, <<>>, <<"T">>, "C", "pure")>>,
     <<Routine("x", <<>>, <<Back>>, <<"T", "*">>, "C", "function")>>,
     <<[node |-> "Field", visibility |-> "Private", name |-> "x", type |-> <<"T">>]>>,
     <<[node |-> "Hit", spec |-> <<"x">>,
        function |-> Routine("x", <<>>, <<Call>>, <<"T">>, "C", "function")]>>}
Class(name, bases, items) ==
    [node |-> "Class", name |-> name, bases |-> bases, items |-> items]
Classes ==
    {Class("C", b, a \o c) : b \in {<<>>, <<"T">>}, a, c \in OfClass \union {<<>>}}
    \union {Class("x", <<>>, <<Class("C", <<>>, a)>> \o c) : a \in OfClass,
            c \in {<<>>, <<Routine("C", <<>>, <<>>, <<"T">>, "x", "function")>>}}
Others ==
    {Var("x", TRUE), Free(<<Call>>),
     Routine("x", TwoParams, <<Call>>, <<"T">>, "", "function"),
     Routine("x", TwoParams, <<Call>>, <<"T">>, "C", "function"),
     Routine("x", TwoParams, <<Call>>, <<"Void">>, "C", "function"),
     Class("C", <<"T">>, <<Routine("C", <<>>, <<>>, <<"Void">>, "C", "destructor")>>),
     [node |-> "Hit", spec |-> <<"x", ":", "x">>, function |-> Free(<<Call>>)],
     [node |-> "Template", params |-> <<"T", "x">>,
      body |-> Routine("x", TwoParams, <<Call>>, <<"T">>, "", "function")],
     [node |-> "Template", params |-> <<"T">>, body |-> Class("C", <<>>, <<>>)],
     [node |-> "Package", name |-> <<"x">>],
     [node |-> "Blend", name |-> "x", body |-> <<"{", "x", "}">>],
     [node |-> "DynamicStruct", name |-> "x", fields |-> <<<<"x", <<"T">>>>>>]}

Sources ==
    {<<Free(<<a, b>>)>> : a, b \in Leaves}
    \union {<<Free(<<s>> \o e)>> : s \in Compounds, e \in {<<>>, <<Call>>}}
    \union {<<Free(<<s>>)>> : s \in Nested}
    \union {<<c>> : c \in Classes}
    \union {<<a, b>> : a, b \in Others}

Plain == [eol |-> FALSE, elif |-> FALSE, lines |-> FALSE, func |-> FALSE]
Styles == {Plain, [eol |-> TRUE, elif |-> TRUE, lines |-> TRUE, func |-> FALSE],
           [eol |-> FALSE, elif |-> TRUE, lines |-> FALSE, func |-> TRUE]}

Core == {"x", "{", "}", ";", "(", ")", ":", "Class"}
All == Core \union Names \union Decorators \union Visibility \union
    {"EOL", "=", ",", "~", "$", "*", "Global", "Package", "Plugin", "Plugswitch",
     "Plugend", "Template", "Blend", "Enum", "Hit", "func", "Inherits", "var",
     "Block", "Target", "Return", "Throw", "Break", "Continue", "If", "Elif",
     "Else", "While", "For", "Do", "Try", "Catch", "Catchall", "Switch"}
UpTo(n, S) == UNION {[1..k -> S] : k \in 0..n}

MCInputs ==
    {[tokens |-> Text(s, style), source |-> s] : s \in Sources, style \in Styles}
    \union {[tokens |-> Append(Text(s, Plain), t), source |-> s] :
                s \in {<<d>> : d \in Others}, t \in All}
    \union {[tokens |-> t, source |-> <<>>] : t \in UpTo(5, Core) \union UpTo(2, All)}
=============================================================================
