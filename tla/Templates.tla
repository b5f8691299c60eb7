------------------------------ MODULE Templates ------------------------------
(***************************************************************************)
(* The instantiation of templates by the code generator of the Python      *)
(* bootstrap, codegen.py: uses of templates found in the program are       *)
(* queued, each makes an instance of its template, and the uses in the     *)
(* instance are queued in turn.                                            *)
(*                                                                         *)
(* A text is the sequence of the uses find_template_uses sees in it: those *)
(* without another template among their arguments.  A type is a class or   *)
(* parameter, with a number of stars; a name is the sequence of its words, *)
(* of which the symbol of a type is put together.                          *)
(***************************************************************************)
EXTENDS Naturals, FiniteSets, SequencesExt

CONSTANTS
    TemplateSets,  \* what templates there may be: by name, [params, body]
    Programs,      \* the uses in a program
    MaxInstances   \* bound: instances made

Types == [name : Seq(STRING), stars : Nat]
TemplateUses == [name : STRING, args : Seq(Types)]
TemplateDecls == [params : Seq(Seq(STRING)), body : Seq(TemplateUses)]

ASSUME TextsAssumption ==
    /\ \A t \in TemplateSets : \A name \in DOMAIN t : t[name] \in TemplateDecls
    /\ Programs \subseteq Seq(TemplateUses)

VARIABLES
    templates,  \* NativeCodegen.templates
    program,
    text,       \* what is being scanned
    seen,       \* template_use_seen
    queue,      \* template_use_queue
    instances   \* class_instances and function_instances

templateVars == <<templates, program, text, seen, queue, instances>>

-----------------------------------------------------------------------------
Params(u) == templates[u.name].params

(* canonical_type_for_symbol, template_instance_name. *)
TypeSymbol(t) == t.name \o [k \in 1..t.stars |-> "Ptr"]
Symbol(u) == <<u.name, [k \in DOMAIN u.args |-> TypeSymbol(u.args[k])]>>

(* The mapping of instantiate_all, a dictionary: of two parameters of one  *)
(* name it has the place of the first and the argument of the last.        *)
Mapping(u) ==
    [p \in ToSet(Params(u)) |->
        u.args[Max({k \in DOMAIN u.args : Params(u)[k] = p})]]
Keys(u) == {k \in DOMAIN u.args : \A j \in 1..(k - 1) : Params(u)[j] # Params(u)[k]}

Put(type, u) ==
    [Mapping(u)[type.name] EXCEPT !.stars = @ + type.stars]

(* substitute_type: one parameter after the other, so that the name of an  *)
(* argument may be taken for a later parameter.                            *)
Substituted(type, u) ==
    LET To[k \in 0..Len(u.args)] ==
            IF k = 0 THEN type
            ELSE IF k \in Keys(u) /\ To[k - 1].name = Params(u)[k]
                 THEN Put(To[k - 1], u) ELSE To[k - 1]
    IN  To[Len(u.args)]

(* clone_class_template, clone_function_template. *)
Clone(u) ==
    LET body == templates[u.name].body
    IN  [k \in DOMAIN body |->
            [body[k] EXCEPT !.args =
                [j \in DOMAIN @ |-> Substituted(@[j], u)]]]

\* The instances and that of u.
Made(u) ==
    [s \in DOMAIN instances \union {Symbol(u)} |->
        IF s = Symbol(u) THEN [of |-> u, body |-> Clone(u)] ELSE instances[s]]

Makeable(u) ==
    u.name \in DOMAIN templates /\ Len(u.args) = Len(Params(u))

-----------------------------------------------------------------------------
TemplatesInit ==
    /\ templates \in TemplateSets
    /\ program \in Programs
    /\ text = program
    /\ seen = {} /\ queue = <<>> /\ instances = <<>>

(* scan_text, for one use. *)
Scan ==
    /\ text # <<>>
    /\ text' = Tail(text)
    /\ IF Head(text).name \in DOMAIN templates /\ Head(text) \notin seen
       THEN /\ seen' = seen \union {Head(text)}
            /\ queue' = Append(queue, Head(text))
       ELSE UNCHANGED <<seen, queue>>
    /\ UNCHANGED <<templates, program, instances>>

Use == Head(queue)
Dequeue ==
    /\ text = <<>> /\ queue # <<>>
    /\ queue' = Tail(queue)
    /\ UNCHANGED <<templates, program, seen>>

(* The wrong number of arguments, or an instance of that name was made.    *)
Pass ==
    /\ Dequeue
    /\ ~Makeable(Use) \/ Symbol(Use) \in DOMAIN instances
    /\ UNCHANGED <<text, instances>>

\* Mutant: what an instance uses is not looked for.
InstantiateUnscanned ==
    /\ Dequeue
    /\ Makeable(Use) /\ Symbol(Use) \notin DOMAIN instances
    /\ Cardinality(DOMAIN instances) < MaxInstances
    /\ instances' = Made(Use)
    /\ UNCHANGED text

Instantiate ==
    /\ Dequeue
    /\ Makeable(Use) /\ Symbol(Use) \notin DOMAIN instances
    /\ Cardinality(DOMAIN instances) < MaxInstances
    /\ instances' = Made(Use)
    /\ text' = Clone(Use)

TemplatesNext == Scan \/ Pass \/ Instantiate

TemplatesSpec == TemplatesInit /\ [][TemplatesNext]_templateVars

-----------------------------------------------------------------------------
(* Properties. *)

Uses == ToSet(program) \union UNION {ToSet(instances[s].body) : s \in DOMAIN instances}

(* The scan and the queue together miss nothing: a use in the program or   *)
(* in an instance waits, or can not be made, or has its instance.          *)
Closed ==
    \A u \in Uses :
        \/ u \in ToSet(text) \union ToSet(queue)
        \/ ~Makeable(u)
        \/ Symbol(u) \in DOMAIN instances

(* The arguments put in for all the parameters at once. *)
AtOnce(type, u) == IF type.name \in ToSet(Params(u)) THEN Put(type, u) ELSE type

Captured(u) ==
    \E j, k \in Keys(u) : j < k /\ Mapping(u)[Params(u)[j]].name = Params(u)[k]

Specialised ==
    \A s \in DOMAIN instances :
        LET of == instances[s].of
            body == templates[of.name].body
        IN  /\ Symbol(of) = s
            /\ \/ Captured(of)
               \/ \A k \in DOMAIN body : \A j \in DOMAIN body[k].args :
                     instances[s].body[k].args[j] = AtOnce(body[k].args[j], of)

(* When the queue is empty every use of a template, in the program and in  *)
(* what was made for it, has an instance, with its arguments in the place  *)
(* of the parameters; unless an argument is named like a later parameter   *)
(* (instantiate_all, scan_node, substitute_type).                          *)
AllInstantiated == Closed /\ Specialised
=============================================================================
