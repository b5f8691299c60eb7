------------------------------ MODULE MCCodegen ------------------------------
(***************************************************************************)
(* The two passes of NativeCodegen.emit over the whole program: templates  *)
(* are instantiated, and classes ordered, given their tables and lowered.  *)
(* A behaviour is one of the one or of the other, as which says.           *)
(*                                                                         *)
(* Templates Box<K> and Pair<K, V> that use themselves and each other in   *)
(* turn and with more stars, by classes A, one named like a parameter and  *)
(* one named like a pointer to A, with too many arguments too.             *)
(***************************************************************************)
EXTENDS MCClassLowering, Templates

VARIABLE which

Type(name, stars) == [name |-> <<name>>, stars |-> stars]
TypeA == Type("A", 0)
PointerA == Type("A", 1)
APtr == [name |-> <<"A", "Ptr">>, stars |-> 0]
TypeK == Type("K", 0)
TypeV == Type("V", 0)
Box(t) == [name |-> "Box", args |-> <<t>>]
Pair(t, u) == [name |-> "Pair", args |-> <<t, u>>]
Other == [name |-> "Other", args |-> <<TypeA>>]
WrongBox == [name |-> "Box", args |-> <<TypeA, TypeV>>]

BoxBodies ==
    {<<>>, <<Pair(TypeK, TypeA)>>, <<Pair(PointerA, TypeK), Other>>,
     <<Box(Type("K", 1))>>, <<Pair(TypeK, Type("K", 2)), Box(TypeA)>>}
PairBodies ==
    {<<>>, <<Box(TypeV)>>, <<Box(TypeK), Box(Type("V", 1))>>, <<Pair(TypeV, TypeK)>>,
     <<WrongBox, Pair(TypeA, TypeA)>>, <<Pair(TypeV, TypeA), Box(TypeK)>>}
UsedTypes == {TypeA, PointerA, APtr, TypeV}

MCTemplateSets ==
    {[Box |-> [params |-> <<<<"K">>>>, body |-> b],
      Pair |-> [params |-> <<<<"K">>, <<"V">>>>, body |-> p]] :
        b \in BoxBodies, p \in PairBodies}
    \union {[Box |-> [params |-> <<<<"K">>>>, body |-> <<>>],
             Pair |-> [params |-> <<<<"V">>, <<"V">>>>, body |-> p]] : p \in PairBodies}
MCPrograms ==
    {<<Box(t), Box(u)>> : t, u \in UsedTypes}
    \union {<<Pair(t, u), Other>> : t, u \in UsedTypes}
    \union {<<Pair(t, u), WrongBox, Box(t)>> : t, u \in UsedTypes}

NoClasses ==
    <<Declaration(A, <<>>, <<>>), Declaration(B, <<>>, <<>>), Declaration(C, <<>>, <<>>)>>

MCInit ==
    \/ /\ which = "classes"
       /\ Init
       /\ templates = <<>> /\ program = <<>> /\ text = <<>>
       /\ seen = {} /\ queue = <<>> /\ instances = <<>>
    \/ /\ which = "templates"
       /\ TemplatesInit
       /\ unit = NoClasses /\ Init

MCNext ==
    \/ which = "classes" /\ Next /\ UNCHANGED <<which, templateVars>>
    \/ which = "templates" /\ TemplatesNext /\ UNCHANGED <<which, vars>>

MCSpec == MCInit /\ [][MCNext]_<<which, vars, templateVars>>
=============================================================================
