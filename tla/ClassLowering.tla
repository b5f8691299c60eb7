---------------------------- MODULE ClassLowering ----------------------------
(***************************************************************************)
(* Classes in the Python bootstrap: the semantic analysis of the classes   *)
(* of a program (semantic.py), the order their structs are emitted in and  *)
(* the method tables built for them (codegen.py), and the life of one      *)
(* object in the program that comes out: construction from the root        *)
(* class down, calls through a static class, also from inside of           *)
(* constructors and destructors, destruction from the static class up.     *)
(*                                                                         *)
(* A declaration is [name, bases, methods]; a method is [name, kind].      *)
(* Parameters are left out, so a class declares a method once; fields,     *)
(* nested classes and packages are left out too.  Every class has a        *)
(* constructor without parameters and a destructor: codegen adds them      *)
(* (ensure_lifecycle_methods).                                             *)
(***************************************************************************)
EXTENDS Naturals, SequencesExt

CONSTANTS
    Names,      \* class names
    Methods,    \* method names
    Units,      \* the programs: sequences of declarations
    NoClass     \* no class: the NULL method table, and no implementation

Kinds == {"plain", "overridable", "pure"}

ASSUME NoClassAssumption == NoClass \notin Names

Declarations ==
    [name : Names, bases : Seq(Names), methods : Seq([name : Methods, kind : Kinds])]

\* Programs with a class in them.
ASSUME UnitsAssumption == \A u \in Units : u \in Seq(Declarations) /\ u # <<>>

VARIABLES
    unit,       \* the program that is compiled
    phase,      \* where the compiler is; "run" once the program runs
    at,         \* the declaration the phase comes to
    collected,  \* sema: the names declared so far
    walk,       \* detect_inheritance_cycles: visiting, in order
    visited,
    ordered,    \* order_classes_by_base
    pending,
    slots,      \* virtual_slot_maps: the methods of a class by slot
    impls,      \* virtual_impl_symbols: the class whose method a slot holds
    object,     \* the object, [class, static, vtable, built, torn]
    frames,     \* its constructors and destructors that run
    last        \* the last call the running code made on it

semaVars == <<collected, walk, visited>>
orderVars == <<ordered, pending>>
tableVars == <<slots, impls>>
runVars == <<object, frames, last>>
vars == <<unit, phase, at, semaVars, orderVars, tableVars, runVars>>

None == [code |-> "none"]

-----------------------------------------------------------------------------
(* What a unit declares. *)

Declared == {unit[i].name : i \in DOMAIN unit}
Decl(c) == unit[CHOOSE i \in DOMAIN unit : unit[i].name = c]
Derived(c) == Decl(c).bases # <<>>
Base(c) == Head(Decl(c).bases)
Declares(c, m, kinds) ==
    \E i \in DOMAIN Decl(c).methods :
        Decl(c).methods[i].name = m /\ Decl(c).methods[i].kind \in kinds

(* A class and its bases, up to the root; a cycle is followed once round.  *)
Chain(c) ==
    LET up[k \in 0..(Len(unit) - 1)] ==
            IF k = 0 THEN <<c>>
            ELSE IF Derived(Last(up[k - 1]))
                 THEN Append(up[k - 1], Base(Last(up[k - 1])))
                 ELSE up[k - 1]
    IN  up[Len(unit) - 1]

-----------------------------------------------------------------------------
Init ==
    /\ unit \in Units
    /\ phase = "collect" /\ at = 1
    /\ collected = {} /\ walk = <<>> /\ visited = {}
    /\ ordered = <<>> /\ pending = unit
    /\ slots = <<>> /\ impls = <<>>
    /\ object = None /\ frames = <<>> /\ last = None

Reject == phase' = "rejected" /\ UNCHANGED <<unit, at>>
NextDeclaration(following) ==
    /\ IF at < Len(unit) THEN at' = at + 1 /\ phase' = phase
       ELSE at' = 1 /\ phase' = following
    /\ UNCHANGED unit

(* SemanticAnalyzer.collect_class. *)
Collect ==
    /\ phase = "collect"
    /\ IF unit[at].name \in collected
       THEN Reject /\ UNCHANGED collected
       ELSE /\ collected' = collected \union {unit[at].name}
            /\ NextDeclaration("validate")
    /\ UNCHANGED <<walk, visited, orderVars, tableVars, runVars>>

(* SemanticAnalyzer.validate_class: a key seen twice is a method that is   *)
(* declared twice.                                                         *)
Valid(d) ==
    /\ Len(d.bases) <= 1
    /\ ToSet(d.bases) \subseteq collected
    /\ \A i, j \in DOMAIN d.methods :
            d.methods[i].name = d.methods[j].name => i = j

Validate ==
    /\ phase = "validate"
    /\ IF Valid(unit[at]) THEN NextDeclaration("cycles") ELSE Reject
    /\ UNCHANGED <<semaVars, orderVars, tableVars, runVars>>

(* detect_inheritance_cycles: visit of the name at hand, and of the base   *)
(* of the last name being visited.                                         *)
\* Mutant: the name the walk began with is not met again.
ToVisitOnce ==
    IF walk = <<>> THEN {unit[at].name}
    ELSE ToSet(Decl(Last(walk)).bases) \ {unit[at].name}

ToVisit == IF walk = <<>> THEN {unit[at].name} ELSE ToSet(Decl(Last(walk)).bases)

Visit ==
    /\ phase = "cycles"
    /\ IF ToVisit \subseteq visited
       THEN /\ visited' = visited \union ToSet(walk)
            /\ walk' = <<>>
            /\ NextDeclaration("order")
       ELSE /\ UNCHANGED <<visited>>
            /\ IF ToVisit \subseteq ToSet(walk)
               THEN Reject /\ UNCHANGED walk
               ELSE /\ walk' = walk \o SetToSeq(ToVisit)
                    /\ UNCHANGED <<unit, phase, at>>
    /\ UNCHANGED <<collected, orderVars, tableVars, runVars>>

(* One round of order_classes_by_base over the classes still pending: one  *)
(* whose base is out, or is no class of the unit, goes out, and what       *)
(* follows it in the round finds it out.                                   *)
\* Mutant: a base that is a class of the unit need not be out.
PlaceableIfDeclared(d, out) ==
    d.bases = <<>> \/ Head(d.bases) \in out \union Declared

Placeable(d, out) ==
    d.bases = <<>> \/ Head(d.bases) \in out \/ Head(d.bases) \notin Declared

Place(r, d) ==
    IF Placeable(d, ToSet(r.out))
    THEN [r EXCEPT !.out = Append(@, d.name)]
    ELSE [r EXCEPT !.left = Append(@, d)]

\* What a round has put out, and what is left, after each number of them.
RoundTo ==
    LET after[k \in 0..Len(pending)] ==
            IF k = 0 THEN [out |-> ordered, left |-> <<>>]
            ELSE Place(after[k - 1], pending[k])
    IN  after

Round == RoundTo[Len(pending)]

Order ==
    /\ phase = "order"
    /\ LET stuck == Round.left = pending
           names == [i \in DOMAIN pending |-> pending[i].name]
       IN  /\ ordered' = IF stuck THEN ordered \o names ELSE Round.out
           /\ pending' = IF stuck THEN <<>> ELSE Round.left
    /\ phase' = IF pending' = <<>> THEN "tables" ELSE phase
    /\ UNCHANGED <<unit, at, semaVars, tableVars, runVars>>

-----------------------------------------------------------------------------
(* build_virtual_metadata, for the class at hand of those ordered.         *)

SlotOf(table, m) == CHOOSE i \in DOMAIN table : table[i] = m
Known(table, c) == IF c \in DOMAIN table THEN table[c] ELSE <<>>

IsVirtual(d, table) ==
    d.kind \in {"pure", "overridable"} \/ d.name \in ToSet(table)

Slotted(c, t, d) ==
    LET new == d.name \notin ToSet(t.slots)
        grown == [slots |-> IF new THEN Append(t.slots, d.name) ELSE t.slots,
                  impls |-> IF new THEN Append(t.impls, NoClass) ELSE t.impls]
    IN  IF ~IsVirtual(d, t.slots) THEN t
        ELSE IF d.kind = "pure" THEN grown
        ELSE [grown EXCEPT !.impls[SlotOf(grown.slots, d.name)] = c]

\* Mutant: the slots of the base are copied, what they hold is not.
InheritedSlots(c) ==
    [slots |-> IF Derived(c) THEN Known(slots, Base(c)) ELSE <<>>,
     impls |-> <<>>]

Inherited(c) ==
    IF Derived(c)
    THEN [slots |-> Known(slots, Base(c)), impls |-> Known(impls, Base(c))]
    ELSE [slots |-> <<>>, impls |-> <<>>]

\* The table of a class after each number of its methods.
TableTo(c) ==
    LET methods == Decl(c).methods
        after[k \in 0..Len(methods)] ==
            IF k = 0 THEN Inherited(c) ELSE Slotted(c, after[k - 1], methods[k])
    IN  after

Entered(table, c, entry) ==
    [d \in DOMAIN table \union {c} |-> IF d = c THEN entry ELSE table[d]]

BuildTable ==
    /\ phase = "tables"
    /\ LET c == ordered[at]
           t == TableTo(c)[Len(Decl(c).methods)]
       IN  /\ slots' = Entered(slots, c, t.slots)
           /\ impls' = Entered(impls, c, t.impls)
    /\ NextDeclaration("run")
    /\ UNCHANGED <<semaVars, orderVars, runVars>>

-----------------------------------------------------------------------------
(* The program runs. *)

Running == phase = "run"
Frame(code, c, step) == [code |-> code, class |-> c, step |-> step]
Top == Last(frames)
Advance(step) == frames' = [frames EXCEPT ![Len(frames)].step = step]
AdvanceAndCall(step, callee) ==
    frames' = Append([frames EXCEPT ![Len(frames)].step = step], callee)
Return == frames' = Front(frames)
InCode(code, step) ==
    Running /\ frames # <<>> /\ Top.code = code /\ Top.step = step

compiled == <<unit, at, semaVars, orderVars, tableVars>>

(* New C, held by a variable of static class s, and C on the stack: a      *)
(* block of zeroes, then the constructor.  The object before is gone.      *)
Create(c, s) ==
    /\ Running /\ frames = <<>>
    /\ object # None => object.torn # <<>>
    /\ object' = [class |-> c, static |-> s, vtable |-> NoClass,
                  built |-> <<>>, torn |-> <<>>]
    /\ frames' = <<Frame("ctor", c, "base")>>
    /\ last' = None
    /\ UNCHANGED <<compiled, phase>>

(* constructor_prelude: the base's constructor, the method table, the      *)
(* body.                                                                   *)
ConstructBase ==
    /\ InCode("ctor", "base")
    /\ IF Derived(Top.class)
       THEN AdvanceAndCall("table", Frame("ctor", Base(Top.class), "base"))
       ELSE Advance("table")
    /\ UNCHANGED <<compiled, phase, object, last>>

\* Mutant: every constructor installs the table of the class that is built.
InstalledOfObject(c) ==
    IF slots[c] # <<>> THEN object.class ELSE object.vtable

Installed(c) == IF slots[c] # <<>> THEN c ELSE object.vtable

InstallTable ==
    /\ InCode("ctor", "table")
    /\ object' = [object EXCEPT !.vtable = Installed(Top.class)]
    /\ Advance("body")
    /\ UNCHANGED <<compiled, phase, last>>

EndConstructor ==
    /\ InCode("ctor", "body")
    /\ object' = [object EXCEPT !.built = Append(@, Top.class)]
    /\ Return
    /\ last' = None
    /\ UNCHANGED <<compiled, phase>>

(* A call through static class c: by the slot of c, taken from the table   *)
(* of the object, or else to c's own function.  The pure placeholder ends  *)
(* the program.                                                            *)
Reached(c, m) ==
    IF m \in ToSet(slots[c])
    THEN IF object.vtable = NoClass THEN "undefined"
         ELSE impls[object.vtable][SlotOf(slots[c], m)]
    ELSE c

Call(c, m) ==
    /\ last' = [code |-> "call", via |-> c, method |-> m, reached |-> Reached(c, m)]
    /\ phase' = IF Reached(c, m) = NoClass THEN "exited" ELSE phase
    /\ UNCHANGED <<compiled, object, frames>>

(* Of this, the methods lower_method_calls lowers: the class's own.        *)
CallFromBody(m) ==
    /\ InCode("ctor", "body") \/ InCode("dtor", "body")
    /\ Declares(Top.class, m, {"plain", "overridable"})
    /\ Call(Top.class, m)

Alive == object # None /\ object.torn = <<>>

CallFromOutside(m) ==
    /\ Running /\ frames = <<>> /\ Alive
    /\ \/ m \in ToSet(slots[object.static])
       \/ Declares(object.static, m, {"plain"})
    /\ Call(object.static, m)

(* Delete: the destructor of the static class. *)
Delete ==
    /\ Running /\ frames = <<>> /\ Alive
    /\ frames' = <<Frame("dtor", object.static, "body")>>
    /\ last' = None
    /\ UNCHANGED <<compiled, phase, object>>

(* The body of a destructor ends, or it returns: what destructor_postlude  *)
(* put behind it is then not reached.                                      *)
EndBody ==
    /\ InCode("dtor", "body")
    /\ object' = [object EXCEPT !.torn = Append(@, Top.class)]
    /\ Advance("base")
    /\ last' = None
    /\ UNCHANGED <<compiled, phase>>

ReturnFromBody ==
    /\ InCode("dtor", "body")
    /\ object' = [object EXCEPT !.torn = Append(@, Top.class)]
    /\ Return
    /\ last' = None
    /\ UNCHANGED <<compiled, phase>>

\* Mutant: the base of the class deleted, not that of the destructor.
DestroyBaseOfStatic ==
    /\ InCode("dtor", "base")
    /\ IF Derived(Top.class)
       THEN AdvanceAndCall("done", Frame("dtor", Base(object.static), "body"))
       ELSE Return
    /\ UNCHANGED <<compiled, phase, object, last>>

DestroyBase ==
    /\ InCode("dtor", "base")
    /\ IF Derived(Top.class)
       THEN AdvanceAndCall("done", Frame("dtor", Base(Top.class), "body"))
       ELSE Return
    /\ UNCHANGED <<compiled, phase, object, last>>

EndDestructor ==
    /\ InCode("dtor", "done")
    /\ Return
    /\ UNCHANGED <<compiled, phase, object, last>>

-----------------------------------------------------------------------------
Next ==
    \/ Collect \/ Validate \/ Visit \/ Order \/ BuildTable
    \/ Running /\ \E c \in Declared : \E s \in ToSet(Chain(c)) : Create(c, s)
    \/ ConstructBase \/ InstallTable \/ EndConstructor
    \/ \E m \in Methods : CallFromBody(m) \/ CallFromOutside(m)
    \/ Delete \/ EndBody \/ ReturnFromBody \/ DestroyBase \/ EndDestructor

Spec == Init /\ [][Next]_vars
-----------------------------------------------------------------------------
(* Properties. *)

(* The variables have their types; an object is built and torn down along  *)
(* the declared classes.                                                   *)
TypeOK ==
    /\ phase \in {"collect", "validate", "cycles", "order", "tables", "run",
                  "rejected", "exited"}
    /\ at \in DOMAIN unit
    /\ collected \subseteq Names /\ visited \subseteq collected
    /\ walk \in Seq(collected) /\ IsInjective(walk)
    /\ pending \in Seq(Range(unit)) /\ ordered \in Seq(Declared)
    /\ DOMAIN slots = DOMAIN impls /\ DOMAIN slots \subseteq Declared
    /\ \A c \in DOMAIN slots :
        /\ slots[c] \in Seq(Methods) /\ IsInjective(slots[c])
        /\ impls[c] \in Seq(Declared \union {NoClass})
        /\ Len(slots[c]) = Len(impls[c])
    /\ object # None =>
        /\ object.class \in Declared /\ object.static \in Declared
        /\ object.vtable \in Declared \union {NoClass}
        /\ object.built \in Seq(Declared) /\ object.torn \in Seq(Declared)
    /\ \A i \in DOMAIN frames :
        /\ frames[i].code \in {"ctor", "dtor"}
        /\ frames[i].class \in Declared
        /\ frames[i].step \in {"base", "table", "body", "done"}
    /\ last # None => last.method \in Methods /\ last.via \in Declared

(* The analysis lets a program through if its class names are distinct,    *)
(* every class has at most one base, which is declared, no class declares  *)
(* a method twice, and no set of classes is derived from itself; it        *)
(* rejects every other.  The checks are made one after the other, on what  *)
(* the ones before let through (semantic.py, analyze).                     *)
WellFormed ==
    /\ \A i, j \in DOMAIN unit : unit[i].name = unit[j].name => i = j
    /\ \A i \in DOMAIN unit :
        /\ Len(unit[i].bases) <= 1 /\ ToSet(unit[i].bases) \subseteq Declared
        /\ \A k, l \in DOMAIN unit[i].methods :
            unit[i].methods[k].name = unit[i].methods[l].name => k = l
    /\ \A S \in SUBSET Declared :
        S # {} => \E c \in S : Derived(c) => Base(c) \notin S

RejectsTheIllFormed ==
    /\ phase = "rejected" => ~WellFormed
    /\ phase \in {"order", "tables", "run"} => WellFormed

(* Each struct is emitted once, and after that of its base, which it holds *)
(* as its first member: the rounds of order_classes_by_base end, and never *)
(* by putting out classes whose bases are still to come.                   *)
BasesFirst ==
    phase \in {"tables", "run"} =>
        /\ Len(ordered) = Len(unit) /\ ToSet(ordered) = Declared
        /\ \A i \in DOMAIN ordered :
            Derived(ordered[i]) => Base(ordered[i]) \in ToSet(SubSeq(ordered, 1, i - 1))

(* A call reaches the nearest body of the method at the class the object   *)
(* has so far (in a constructor, the class constructed) or above it, and   *)
(* at or below the class that makes the method virtual, the pure           *)
(* placeholder if there is none, and the static class's own body if the    *)
(* method is not virtual there.  So no method of a class runs before its   *)
(* constructor, and no slot is looked up in a NULL or too short a table    *)
(* (virtual_call_prefix, build_virtual_metadata, constructor_prelude).     *)
ClassSoFar ==
    IF frames # <<>> /\ Top.code = "ctor" THEN Top.class ELSE object.class

Virtual(c, m) ==
    \E d \in ToSet(Chain(c)) : Declares(d, m, {"pure", "overridable"})

Bodies(c, m) ==
    {i \in DOMAIN Chain(c) :
        /\ Declares(Chain(c)[i], m, {"plain", "overridable"})
        /\ Virtual(Chain(c)[i], m)}

NearestBody(c, m) ==
    IF Bodies(c, m) = {} THEN NoClass ELSE Chain(c)[Min(Bodies(c, m))]

NearestRuns ==
    last # None =>
        last.reached = IF Virtual(last.via, last.method)
                       THEN NearestBody(ClassSoFar, last.method)
                       ELSE last.via

(* Constructors complete from the root class down; destructors then run    *)
(* from the static class up, each at most once, none before the object is  *)
(* whole, and the base's is over when the one that called it goes on       *)
(* (constructor_prelude, destructor_postlude).                             *)
TornInReverse ==
    object # None =>
        /\ IsSuffix(Reverse(object.built), Chain(object.class))
        /\ IsPrefix(object.torn, Chain(object.static))
        /\ object.torn # <<>> => Len(object.built) = Len(Chain(object.class))
        /\ InCode("dtor", "done") => Base(Top.class) \in ToSet(object.torn)

(* "Derived destructors run the derived body and then call the base        *)
(* destructor": docs/CLASSES_INHERITANCE_LIFECYCLE.md:35.  The call is put *)
(* behind the body (codegen.py, function and destructor_postlude).         *)
BaseDestructorCalled ==
    Running /\ object # None /\ object.torn # <<>> /\ frames = <<>> =>
        object.torn = Chain(object.static)
=============================================================================
