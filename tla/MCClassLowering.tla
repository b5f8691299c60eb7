--------------------------- MODULE MCClassLowering ---------------------------
(***************************************************************************)
(* Programs of three classes.  In the ill-formed ones any class is derived *)
(* from any, itself, one that is not declared or two, a name or a method   *)
(* is declared twice; in the others every forest of three classes declares *)
(* one or two methods in every way and order.                              *)
(***************************************************************************)
EXTENDS ClassLowering

CONSTANTS A, B, C, X, m, n

Declaration(name, bases, methods) ==
    [name |-> name, bases |-> bases, methods |-> methods]
Method(name, kind) == [name |-> name, kind |-> kind]

Shapes ==
    {<<Declaration(A, a, <<>>), Declaration(B, b, <<>>), Declaration(c, d, ms)>> :
        a, b, d \in {<<>>, <<A>>, <<B>>, <<C>>, <<X>>, <<A, B>>}, c \in {A, C},
        ms \in {<<>>, <<Method(m, "plain"), Method(m, "pure")>>}}

Interfaces ==
    {<<>>, <<Method(m, "plain")>>, <<Method(m, "overridable")>>,
     <<Method(m, "pure")>>, <<Method(n, "overridable")>>,
     <<Method(n, "overridable"), Method(m, "plain")>>}

Forest(bases) ==
    \A S \in SUBSET {A, B, C} : S # {} =>
        \E c \in S : ToSet(bases[c]) \intersect S = {}

Families ==
    {<<Declaration(A, b[A], i), Declaration(B, b[B], j), Declaration(C, b[C], k)>> :
        b \in {f \in [{A, B, C} -> {<<>>, <<A>>, <<B>>, <<C>>}] : Forest(f)},
        i, j, k \in Interfaces}

MCUnits == Shapes \union Families
=============================================================================
