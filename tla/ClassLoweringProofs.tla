------------------------ MODULE ClassLoweringProofs ------------------------
(***************************************************************************)
(* Proofs about ClassLowering and Templates, for any programs of any       *)
(* number of classes, methods and templates.                               *)
(***************************************************************************)
EXTENDS ClassLowering, Templates, SequenceTheorems, FiniteSetTheorems,
        WellFoundedInduction, TLAPS

-----------------------------------------------------------------------------
(* The inductive invariant: what each phase has established, in the order  *)
(* in which the phases establish it.                                       *)

Analyzing == {"collect", "validate", "cycles"}
Analyzed == {"order", "tables", "run", "exited"}
Lowered == {"run", "exited"}

NamesTo(n) == {unit[i].name : i \in 1..n}
DistinctTo(n) == \A i, j \in 1..n : unit[i].name = unit[j].name => i = j
Fits(d) ==
    /\ Len(d.bases) <= 1 /\ ToSet(d.bases) \subseteq Declared
    /\ \A k, l \in DOMAIN d.methods :
            d.methods[k].name = d.methods[l].name => k = l
Rooted(S) ==
    \A R \in SUBSET S : R # {} => \E c \in R : Derived(c) => Base(c) \notin R

Compiled ==
    /\ unit \in Units /\ at \in 1..Len(unit)
    /\ phase \in Analyzing \union Analyzed \union {"rejected"}

CollectedSoFar ==
    /\ collected \subseteq Declared
    /\ phase = "collect" => collected = NamesTo(at - 1) /\ DistinctTo(at - 1)
    /\ phase \notin {"collect", "rejected"} =>
          collected = Declared /\ DistinctTo(Len(unit))

ValidSoFar ==
    /\ phase = "validate" => \A i \in 1..(at - 1) : Fits(unit[i])
    /\ phase \notin {"collect", "validate", "rejected"} =>
          \A i \in 1..Len(unit) : Fits(unit[i])

Walking ==
    /\ NamesTo(at - 1) \subseteq visited
    /\ \A c \in visited : Derived(c) => Base(c) \in visited
    /\ Rooted(visited)
    /\ walk # <<>> => walk[1] = unit[at].name
    /\ \A i \in 1..Len(walk) : walk[i] \notin visited
    /\ \A i \in 1..(Len(walk) - 1) :
          Derived(walk[i]) /\ Base(walk[i]) = walk[i + 1]

WalkedSoFar ==
    /\ visited \subseteq collected /\ walk \in Seq(collected) /\ IsInjective(walk)
    /\ phase \in {"collect", "validate"} => visited = {} /\ walk = <<>>
    /\ phase = "cycles" => Walking

Verdict ==
    /\ phase = "rejected" => ~WellFormed
    /\ phase \in Analyzed => WellFormed

NamesIn(s) == {s[i].name : i \in 1..Len(s)}
DistinctIn(s) == \A i, j \in 1..Len(s) : s[i].name = s[j].name => i = j
BasesOut(out) ==
    \A i \in 1..Len(out) :
        Derived(out[i]) => \E j \in 1..(i - 1) : out[j] = Base(out[i])

Ordering(out, left) ==
    /\ out \in Seq(Declared) /\ IsInjective(out) /\ BasesOut(out)
    /\ left \in Seq(Range(unit)) /\ DistinctIn(left)
    /\ ToSet(out) \intersect NamesIn(left) = {}

OrderedSoFar ==
    /\ phase \in Analyzing \union {"rejected"} => ordered = <<>> /\ pending = unit
    /\ phase \in Analyzed =>
        /\ Ordering(ordered, pending)
        /\ ToSet(ordered) \union NamesIn(pending) = Declared
        /\ Len(ordered) + Len(pending) = Len(unit)
        /\ phase = "order" <=> pending # <<>>
        /\ phase = "order" => at = 1

TableShape(c, s, p) ==
    /\ s \in Seq(Methods) /\ IsInjective(s)
    /\ p \in Seq(Declared \union {NoClass}) /\ Len(s) = Len(p)
    /\ \A m \in Methods : m \in ToSet(s) <=> Virtual(c, m)
    /\ \A i \in 1..Len(s) : p[i] = NearestBody(c, s[i])

TableIs(c) ==
    /\ TableShape(c, slots[c], impls[c])
    /\ Derived(c) => Base(c) \in DOMAIN slots /\ IsPrefix(slots[Base(c)], slots[c])

BuiltTables ==
    IF phase = "tables" THEN {ordered[i] : i \in 1..(at - 1)}
    ELSE IF phase \in Lowered THEN Declared ELSE {}

TablesSoFar ==
    /\ DOMAIN slots = BuiltTables /\ DOMAIN impls = BuiltTables
    /\ \A c \in BuiltTables : TableIs(c)

\* The class whose table an object holds once c has put in its own.
Held(c) == IF slots[c] # <<>> THEN c ELSE NoClass

Object(c, s, v, built, torn) ==
    [class |-> c, static |-> s, vtable |-> v, built |-> built, torn |-> torn]
Stack(code, p, k, waits, step) ==
    [i \in 1..k |-> Frame(code, p[i], IF i < k THEN waits ELSE step)]
Built(p, n) == [i \in 1..n |-> p[Len(p) + 1 - i]]
Torn(q, n) == SubSeq(q, 1, n)

\* The last call on an object that is a c so far.
Reaches(c, l) ==
    \/ l = None
    \/ \E d \in Declared, m \in Methods :
          l = [code |-> "call", via |-> d, method |-> m,
               reached |-> IF Virtual(d, m) THEN NearestBody(c, m) ELSE d]

(* Constructors that run along the chain p, k of them: the last is to call *)
(* that of its base, or back from it, or in its body.                      *)
Begins(p, s, k, o, f, l) ==
    /\ f = Stack("ctor", p, k, "table", "base")
    /\ o = Object(p[1], s, NoClass, <<>>, <<>>)
    /\ l = None

HasBase(p, s, k, o, f, l) ==
    /\ f = Stack("ctor", p, k, "table", "table")
    /\ o = Object(p[1], s, IF k < Len(p) THEN Held(p[k + 1]) ELSE NoClass,
                  Built(p, Len(p) - k), <<>>)
    /\ l = None

HasTable(p, s, k, o, f, l) ==
    /\ f = Stack("ctor", p, k, "table", "body")
    /\ o = Object(p[1], s, Held(p[k]), Built(p, Len(p) - k), <<>>)
    /\ Reaches(p[k], l)

(* The object is whole, and destructors of n classes on the chain q have   *)
(* run; k of them are under way.                                           *)
Whole(p, q, n) == Object(p[1], q[1], Held(p[1]), Built(p, Len(p)), Torn(q, n))

Rests(p, q, n, o, f, l) ==
    f = <<>> /\ o = Whole(p, q, n) /\ Reaches(p[1], l)

Tears(p, q, k, o, f, l) ==
    /\ f = Stack("dtor", q, k, "done", "body")
    /\ o = Whole(p, q, k - 1) /\ Reaches(p[1], l)

HasTorn(p, q, k, o, f, l) ==
    /\ f = Stack("dtor", q, k, "done", "base")
    /\ o = Whole(p, q, k) /\ l = None

TornAbove(p, q, k, n, o, f, l) ==
    /\ f = Stack("dtor", q, k, "done", "done")
    /\ o = Whole(p, q, n) /\ l = None

Constructs(p, s, o, f, l) ==
    \E k \in 1..Len(p) :
        Begins(p, s, k, o, f, l) \/ HasBase(p, s, k, o, f, l) \/ HasTable(p, s, k, o, f, l)

Destructs(p, q, o, f, l) ==
    \E k \in 1..Len(q) :
        \/ Tears(p, q, k, o, f, l) \/ HasTorn(p, q, k, o, f, l)
        \/ \E n \in (k + 1)..Len(q) : TornAbove(p, q, k, n, o, f, l)

Life(o, f, l) ==
    \E c \in Declared : \E s \in ToSet(Chain(c)) :
        \/ Constructs(Chain(c), s, o, f, l)
        \/ \E n \in 0..Len(Chain(s)) : Rests(Chain(c), Chain(s), n, o, f, l)
        \/ Destructs(Chain(c), Chain(s), o, f, l)

Lives ==
    \/ object = None /\ frames = <<>> /\ last = None
    \/ phase \in Lowered /\ Life(object, frames, last)

AnalysisInv == Compiled /\ CollectedSoFar /\ ValidSoFar /\ WalkedSoFar /\ Verdict
CompileInv == AnalysisInv /\ OrderedSoFar /\ TablesSoFar
IInv == CompileInv /\ Lives

-----------------------------------------------------------------------------
(* Sets of natural numbers. *)

\* Each that is not empty has a least element.
LEMMA LeastExists ==
    ASSUME NEW S \in SUBSET Nat, S # {}
    PROVE  \E e \in S : \A d \in S : e <= d
  <1> DEFINE less == {ss \in Nat \X Nat : ss[1] < ss[2]}
  <1>1. IsWellFoundedOn(less, Nat)
    BY NatLessThanWellFounded DEF OpToRel
  <1>2. PICK e \in S : \A d \in S : <<d, e>> \notin less
    <2> HIDE DEF less
    <2>1. QED
      BY <1>1, WFMin
  <1>3. ASSUME NEW d \in S PROVE e <= d
    <2>1. e \in Nat /\ d \in Nat /\ <<d, e>> \in Nat \X Nat
      OBVIOUS
    <2>2. ~(<<d, e>>[1] < <<d, e>>[2])
      BY <1>2, <2>1
    <2>3. QED
      BY <2>1, <2>2
  <1>4. QED
    BY <1>3

\* Induction, for the members of a set.
LEMMA Inductive ==
    ASSUME NEW S, 0 \in S, \A n \in Nat : n \in S => n + 1 \in S
    PROVE  \A n \in Nat : n \in S
  <1> DEFINE bad == {n \in Nat : n \notin S}
  <1>1. SUFFICES ASSUME bad # {} PROVE FALSE
    OBVIOUS
  <1>2. bad \in SUBSET Nat
    OBVIOUS
  <1>3. PICK e \in bad : \A d \in bad : e <= d
    <2> HIDE DEF bad
    <2>1. QED
      BY <1>1, <1>2, LeastExists
  <1>4. e # 0
    OBVIOUS
  <1>5. e - 1 \in Nat /\ e - 1 \notin bad
    BY <1>3, <1>4
  <1>6. e - 1 + 1 \in S
    BY <1>5
  <1>7. QED
    BY <1>6

\* Min picks it.
LEMMA MinIs ==
    ASSUME NEW S \in SUBSET Nat, S # {}
    PROVE  Min(S) \in S /\ \A d \in S : Min(S) <= d
  <1>1. \E e \in S : \A d \in S : e <= d
    BY LeastExists
  <1>2. QED
    BY <1>1 DEF Min

\* Each that is bounded and not empty has a greatest element.
LEMMA GreatestExists ==
    ASSUME NEW n \in Nat, NEW S \in SUBSET (0..n), S # {}
    PROVE  \E e \in S : \A d \in S : d <= e
  <1> DEFINE T == {n - d : d \in S}
  <1>1. T \in SUBSET Nat /\ T # {}
    <2>1. \A d \in S : d \in 0..n /\ n - d \in Nat
      OBVIOUS
    <2>2. QED
      BY <2>1
  <1>2. PICK e \in T : \A d \in T : e <= d
    <2> HIDE DEF T
    <2>1. QED
      BY <1>1, LeastExists
  <1>3. PICK m \in S : e = n - m
    BY <1>2
  <1>4. ASSUME NEW d \in S PROVE d <= m
    <2>1. n - d \in T /\ d \in Int /\ m \in Int
      OBVIOUS
    <2>2. n - m <= n - d
      BY <1>2, <1>3, <2>1
    <2>3. QED
      BY <2>1, <2>2
  <1>5. QED
    BY <1>4

-----------------------------------------------------------------------------
(* The unit. *)

UnitFits == unit \in Seq(Declarations) /\ unit # <<>>

LEMMA UnitTyped ==
    ASSUME unit \in Units
    PROVE  UnitFits /\ Len(unit) \in Nat \ {0} /\ DOMAIN unit = 1..Len(unit)
  BY UnitsAssumption, EmptySeq DEF UnitFits

\* A declaration has a name, bases and methods.
LEMMA DeclarationTyped ==
    ASSUME NEW d \in Declarations
    PROVE  /\ d.name \in Names /\ d.bases \in Seq(Names)
           /\ d.methods \in Seq([name : Methods, kind : Kinds])
  BY DEF Declarations

LEMMA UnitAt ==
    ASSUME UnitFits, NEW i \in 1..Len(unit)
    PROVE  unit[i] \in Declarations /\ unit[i].name \in Declared
  BY DEF UnitFits, Declared

LEMMA DeclaredAre ==
    ASSUME UnitFits
    PROVE  /\ Declared = NamesTo(Len(unit)) /\ Declared \subseteq Names
           /\ NoClass \notin Declared
  <1>1. Declared = NamesTo(Len(unit))
    BY DEF UnitFits, Declared, NamesTo
  <1>2. \A i \in 1..Len(unit) : unit[i].name \in Names
    BY UnitAt, DeclarationTyped
  <1>3. QED
    BY <1>1, <1>2, NoClassAssumption DEF NamesTo

\* With distinct names, a name stands for its declaration.
LEMMA DeclIs ==
    ASSUME UnitFits, DistinctTo(Len(unit)), NEW i \in 1..Len(unit)
    PROVE  Decl(unit[i].name) = unit[i]
  <1>1. DOMAIN unit = 1..Len(unit)
    BY DEF UnitFits
  <1>2. \A j \in DOMAIN unit : unit[j].name = unit[i].name => j = i
    BY <1>1 DEF DistinctTo
  <1>3. i \in DOMAIN unit
    BY <1>1
  <1>4. (CHOOSE j \in DOMAIN unit : unit[j].name = unit[i].name) = i
    BY <1>2, <1>3
  <1>5. QED
    BY <1>4 DEF Decl

LEMMA DeclTyped ==
    ASSUME UnitFits, NEW c \in Declared
    PROVE  /\ \E i \in 1..Len(unit) : Decl(c) = unit[i] /\ unit[i].name = c
           /\ Decl(c) \in Declarations /\ Decl(c).name = c
  <1>1. DOMAIN unit = 1..Len(unit)
    BY DEF UnitFits
  <1>2. \E i \in DOMAIN unit : unit[i].name = c
    BY DEF Declared
  <1>3. PICK i \in 1..Len(unit) : Decl(c) = unit[i] /\ unit[i].name = c
    BY <1>1, <1>2 DEF Decl
  <1>4. QED
    BY <1>3, UnitAt

\* The names and declarations are those of the unit.
LEMMA SameUnit ==
    ASSUME unit' = unit
    PROVE  /\ Declared' = Declared /\ WellFormed' = WellFormed
           /\ \A c : /\ Decl(c)' = Decl(c) /\ Derived(c)' = Derived(c)
                     /\ Base(c)' = Base(c) /\ Chain(c)' = Chain(c)
           /\ \A c, m, kinds : Declares(c, m, kinds)' = Declares(c, m, kinds)
           /\ \A c, m : /\ Virtual(c, m)' = Virtual(c, m)
                        /\ NearestBody(c, m)' = NearestBody(c, m)
           /\ \A n : NamesTo(n)' = NamesTo(n) /\ DistinctTo(n)' = DistinctTo(n)
           /\ \A d : Fits(d)' = Fits(d)
           /\ \A S : Rooted(S)' = Rooted(S)
  <1>1. Declared' = Declared
    BY DEF Declared
  <1>2. \A c : Decl(c)' = Decl(c)
    BY DEF Decl
  <1>3. \A c : Derived(c)' = Derived(c) /\ Base(c)' = Base(c)
    BY <1>2 DEF Derived, Base
  <1>4. \A c : Chain(c)' = Chain(c)
    BY <1>3 DEF Chain
  <1>5. \A c, m, kinds : Declares(c, m, kinds)' = Declares(c, m, kinds)
    BY <1>2 DEF Declares
  <1>6. \A c, m : Virtual(c, m)' = Virtual(c, m)
    BY <1>4, <1>5 DEF Virtual
  <1>7. \A c, m : NearestBody(c, m)' = NearestBody(c, m)
    <2>1. \A c, m : Bodies(c, m)' = Bodies(c, m)
      BY <1>4, <1>5, <1>6 DEF Bodies
    <2>2. QED
      BY <1>4, <2>1 DEF NearestBody
  <1>8. \A n : NamesTo(n)' = NamesTo(n) /\ DistinctTo(n)' = DistinctTo(n)
    BY DEF NamesTo, DistinctTo
  <1>9. \A d : Fits(d)' = Fits(d)
    BY <1>1 DEF Fits
  <1>10. \A S : Rooted(S)' = Rooted(S)
    BY <1>3 DEF Rooted
  <1>11. WellFormed' = WellFormed
    BY <1>1, <1>3 DEF WellFormed
  <1>12. QED
    BY <1>1, <1>2, <1>3, <1>4, <1>5, <1>6, <1>7, <1>8, <1>9, <1>10, <1>11

-----------------------------------------------------------------------------
(* The analysis. *)

LEMMA NamesGrow ==
    ASSUME NEW n \in Nat
    PROVE  /\ NamesTo(0) = {} /\ DistinctTo(0)
           /\ NamesTo(n + 1) = NamesTo(n) \union {unit[n + 1].name}
           /\ DistinctTo(n) /\ unit[n + 1].name \notin NamesTo(n) => DistinctTo(n + 1)
  <1>1. 1..(n + 1) = (1..n) \union {n + 1} /\ n + 1 \notin 1..n /\ 1..0 = {}
    OBVIOUS
  <1>2. NamesTo(0) = {} /\ DistinctTo(0)
    BY <1>1 DEF NamesTo, DistinctTo
  <1>3. NamesTo(n + 1) = NamesTo(n) \union {unit[n + 1].name}
    BY <1>1 DEF NamesTo
  <1>4. ASSUME DistinctTo(n), unit[n + 1].name \notin NamesTo(n)
        PROVE  DistinctTo(n + 1)
    BY <1>1, <1>4 DEF DistinctTo, NamesTo
  <1>5. QED
    BY <1>2, <1>3, <1>4

\* WellFormed in the terms of the invariant.
LEMMA WellFormedIs ==
    ASSUME UnitFits
    PROVE  WellFormed <=> /\ DistinctTo(Len(unit))
                          /\ \A i \in 1..Len(unit) : Fits(unit[i])
                          /\ Rooted(Declared)
  <1>1. DOMAIN unit = 1..Len(unit)
    BY DEF UnitFits
  <1>2. QED
    BY <1>1 DEF WellFormed, DistinctTo, Fits, Rooted

LEMMA CollectKeeps ==
    ASSUME AnalysisInv, Collect
    PROVE  AnalysisInv' /\ unit' = unit
  <1>1. /\ phase = "collect" /\ at \in 1..Len(unit) /\ unit \in Units
        /\ collected = NamesTo(at - 1) /\ DistinctTo(at - 1)
        /\ visited = {} /\ walk = <<>> /\ visited' = visited /\ walk' = walk
        /\ collected \subseteq Declared
    BY DEF AnalysisInv, Compiled, CollectedSoFar, WalkedSoFar, Collect, vars
  <1>2. UnitFits /\ Len(unit) \in Nat \ {0}
    BY <1>1, UnitTyped
  <1>3. unit' = unit
    BY DEF Collect, Reject, NextDeclaration
  <1>4. at - 1 \in Nat /\ at - 1 + 1 = at /\ at \in Nat
    BY <1>1, <1>2
  <1>5. unit[at].name \in Declared
    BY <1>1, <1>2, UnitAt
  <1>6. CASE unit[at].name \in collected
    <2>1. phase' = "rejected" /\ at' = at /\ collected' = collected
      BY <1>6 DEF Collect, Reject
    <2>2. PICK j \in 1..(at - 1) : unit[j].name = unit[at].name
      BY <1>1, <1>6 DEF NamesTo
    <2>3. j \in 1..Len(unit) /\ j # at
      BY <1>1, <1>2, <1>4
    <2>4. ~DistinctTo(Len(unit))
      BY <1>1, <2>2, <2>3 DEF DistinctTo
    <2>5. ~WellFormed
      BY <1>2, <2>4, WellFormedIs
    <2>6. ~WellFormed' /\ Declared' = Declared
      BY <1>3, <2>5, SameUnit
    <2>7. QED
      BY <1>1, <1>3, <2>1, <2>6
         DEF AnalysisInv, Compiled, CollectedSoFar, ValidSoFar, WalkedSoFar,
             Verdict, Analyzed
  <1>7. CASE unit[at].name \notin collected
    <2>1. collected' = collected \union {unit[at].name} /\ NextDeclaration("validate")
      BY <1>7 DEF Collect
    <2>2. collected' = NamesTo(at) /\ DistinctTo(at)
      BY <1>1, <1>4, <1>7, <2>1, NamesGrow
    <2>3. collected' \subseteq Declared
      BY <1>1, <1>5, <2>1
    <2>4. CASE at < Len(unit)
      <3>1. at' = at + 1 /\ phase' = "collect"
        BY <1>1, <2>1, <2>4 DEF NextDeclaration
      <3>2. at' \in 1..Len(unit) /\ at' - 1 = at
        BY <1>2, <1>4, <2>4, <3>1
      <3>3. collected' = NamesTo(at - 1)' /\ DistinctTo(at - 1)'
        BY <1>3, <2>2, <3>2 DEF NamesTo, DistinctTo
      <3>4. QED
        BY <1>1, <1>3, <2>3, <3>1, <3>2, <3>3, SameUnit
           DEF AnalysisInv, Compiled, CollectedSoFar, ValidSoFar, WalkedSoFar,
               Verdict, Analyzed, Analyzing, IsInjective
    <2>5. CASE ~(at < Len(unit))
      <3>1. at' = 1 /\ phase' = "validate" /\ at = Len(unit)
        BY <1>1, <1>2, <2>1, <2>5 DEF NextDeclaration
      <3>2. collected' = Declared' /\ DistinctTo(Len(unit))'
        BY <1>2, <1>3, <2>2, <3>1, DeclaredAre, SameUnit DEF DistinctTo
      <3>3. at' \in 1..Len(unit) /\ 1..(at' - 1) = {}
        BY <1>2, <3>1
      <3>4. QED
        BY <1>1, <1>3, <2>3, <3>1, <3>2, <3>3, SameUnit
           DEF AnalysisInv, Compiled, CollectedSoFar, ValidSoFar, WalkedSoFar,
               Verdict, Analyzed, Analyzing, IsInjective
    <2>6. QED
      BY <2>4, <2>5
  <1>8. QED
    BY <1>3, <1>6, <1>7

LEMMA ValidateKeeps ==
    ASSUME AnalysisInv, Validate
    PROVE  AnalysisInv' /\ unit' = unit
  <1>1. /\ phase = "validate" /\ at \in 1..Len(unit) /\ unit \in Units
        /\ collected = Declared /\ DistinctTo(Len(unit))
        /\ \A i \in 1..(at - 1) : Fits(unit[i])
        /\ visited = {} /\ walk = <<>>
        /\ collected' = collected /\ visited' = visited /\ walk' = walk
    BY DEF AnalysisInv, Compiled, CollectedSoFar, ValidSoFar, WalkedSoFar,
           Validate, semaVars
  <1>2. UnitFits /\ Len(unit) \in Nat \ {0}
    BY <1>1, UnitTyped
  <1>3. unit' = unit
    BY DEF Validate, Reject, NextDeclaration
  <1>4. at - 1 \in Nat /\ at - 1 + 1 = at /\ at \in Nat
    BY <1>1, <1>2
  <1>5. Valid(unit[at]) <=> Fits(unit[at])
    BY <1>1 DEF Valid, Fits
  <1>6. collected' = Declared' /\ DistinctTo(Len(unit))'
    BY <1>1, <1>3, SameUnit DEF DistinctTo
  <1>7. CASE ~Valid(unit[at])
    <2>1. phase' = "rejected" /\ at' = at
      BY <1>7 DEF Validate, Reject
    <2>2. ~WellFormed
      BY <1>1, <1>2, <1>5, <1>7, WellFormedIs
    <2>3. ~WellFormed'
      BY <1>3, <2>2, SameUnit
    <2>4. QED
      BY <1>1, <1>3, <1>6, <2>1, <2>3
         DEF AnalysisInv, Compiled, CollectedSoFar, ValidSoFar, WalkedSoFar,
             Verdict, Analyzed
  <1>8. CASE Valid(unit[at])
    <2>1. NextDeclaration("cycles")
      BY <1>8 DEF Validate
    <2>2. \A i \in 1..at : Fits(unit[i])
      <3>1. ASSUME NEW i \in 1..at PROVE Fits(unit[i])
        <4>1. i \in 1..(at - 1) \/ i = at
          BY <1>4
        <4>2. QED
          BY <1>1, <1>5, <1>8, <4>1
      <3>2. QED
        BY <3>1
    <2>3. \A i \in 1..at : Fits(unit[i])'
      BY <1>3, <2>2, SameUnit DEF Fits
    <2>4. CASE at < Len(unit)
      <3>1. at' = at + 1 /\ phase' = "validate"
        BY <1>1, <2>1, <2>4 DEF NextDeclaration
      <3>2. at' \in 1..Len(unit) /\ at' - 1 = at
        BY <1>2, <1>4, <2>4, <3>1
      <3>3. (\A i \in 1..(at - 1) : Fits(unit[i]))'
        BY <2>3, <3>2
      <3>4. QED
        BY <1>1, <1>3, <1>6, <3>1, <3>2, <3>3
           DEF AnalysisInv, Compiled, CollectedSoFar, ValidSoFar, WalkedSoFar,
               Verdict, Analyzed, Analyzing
    <2>5. CASE ~(at < Len(unit))
      <3>1. at' = 1 /\ phase' = "cycles" /\ at = Len(unit)
        BY <1>1, <1>2, <2>1, <2>5 DEF NextDeclaration
      <3>2. at' \in 1..Len(unit) /\ 1..(at' - 1) = {} /\ NamesTo(at - 1)' = {}
        BY <1>2, <3>1 DEF NamesTo
      <3>3. (\A i \in 1..Len(unit) : Fits(unit[i]))'
        BY <1>3, <2>3, <3>1
      <3>4. Rooted(visited)'
        BY <1>1 DEF Rooted
      <3>5. \A i : i \notin 1..Len(walk)' /\ i \notin 1..(Len(walk)' - 1)
        <4>1. Len(walk)' = 0
          BY <1>1
        <4>2. QED
          BY <4>1
      <3>6. QED
        BY <1>1, <1>3, <1>6, <3>1, <3>2, <3>3, <3>4, <3>5
           DEF AnalysisInv, Compiled, CollectedSoFar, ValidSoFar, WalkedSoFar,
               Verdict, Analyzed, Analyzing, Walking
    <2>6. QED
      BY <2>4, <2>5
  <1>9. QED
    BY <1>3, <1>7, <1>8

LEMMA SingleSeq ==
    ASSUME NEW x
    PROVE  SetToSeq({x}) = <<x>>
  <1>1. Cardinality({x}) = 1
    BY FS_Singleton
  <1>2. <<x>> \in [1..1 -> {x}] /\ IsInjective(<<x>>)
    BY DEF IsInjective
  <1>3. \A f \in [1..1 -> {x}] : f = <<x>>
    OBVIOUS
  <1>4. QED
    BY <1>1, <1>2, <1>3 DEF SetToSeq

\* A class that fits has its base, which is declared, or none.
LEMMA BasesAre ==
    ASSUME UnitFits, NEW c \in Declared, \A i \in 1..Len(unit) : Fits(unit[i])
    PROVE  /\ Fits(Decl(c))
           /\ Derived(c) => /\ Base(c) \in Declared /\ ToSet(Decl(c).bases) = {Base(c)}
           /\ ~Derived(c) => ToSet(Decl(c).bases) = {}
  <1>1. Fits(Decl(c)) /\ Decl(c).bases \in Seq(Names)
    BY DeclTyped, DeclarationTyped
  <1>2. PICK b \in Seq(Names) : b = Decl(c).bases
    BY <1>1
  <1>3. Len(b) <= 1 /\ ToSet(b) \subseteq Declared
    BY <1>1, <1>2 DEF Fits
  <1>4. CASE b = <<>>
    <2>1. ~Derived(c)
      BY <1>2, <1>4 DEF Derived
    <2>2. DOMAIN b = {}
      BY <1>4
    <2>3. ToSet(b) = {}
      BY <2>2 DEF ToSet
    <2>4. ToSet(Decl(c).bases) = {}
      BY <1>2, <2>3
    <2>5. QED
      BY <1>1, <2>1, <2>4
  <1>5. CASE b # <<>>
    <2>1. Len(b) = 1 /\ DOMAIN b = 1..1
      <3>1. Len(b) \in Nat \ {0} /\ DOMAIN b = 1..Len(b)
        BY <1>5, EmptySeq, LenProperties
      <3>2. QED
        BY <1>3, <3>1
    <2>2. ToSet(b) = {b[1]} /\ Head(b) = b[1]
      BY <2>1 DEF ToSet
    <2>3. Derived(c) /\ Base(c) = b[1]
      BY <1>2, <1>5, <2>2 DEF Derived, Base
    <2>4. QED
      BY <1>1, <1>2, <1>3, <2>2, <2>3
  <1>6. QED
    BY <1>4, <1>5

LEMMA VisitReads ==
    ASSUME AnalysisInv, Visit
    PROVE  /\ UnitFits /\ Len(unit) \in Nat \ {0} /\ at \in 1..Len(unit)
           /\ phase = "cycles" /\ Walking /\ unit' = unit /\ unit \in Units
           /\ collected = Declared /\ collected' = collected /\ DistinctTo(Len(unit))
           /\ \A i \in 1..Len(unit) : Fits(unit[i])
           /\ visited \subseteq Declared /\ walk \in Seq(Declared) /\ IsInjective(walk)
           /\ walk = <<>> => ToVisit = {unit[at].name} /\ unit[at].name \in Declared
           /\ walk # <<>> =>
                /\ Last(walk) \in Declared /\ Len(walk) \in 1..Len(walk)
                /\ ToVisit = IF Derived(Last(walk)) THEN {Base(Last(walk))} ELSE {}
                /\ Derived(Last(walk)) => Base(Last(walk)) \in Declared
  <1>1. /\ unit \in Units /\ at \in 1..Len(unit) /\ phase = "cycles" /\ Walking
        /\ collected = Declared /\ DistinctTo(Len(unit)) /\ collected' = collected
        /\ \A i \in 1..Len(unit) : Fits(unit[i])
        /\ visited \subseteq Declared /\ walk \in Seq(Declared) /\ IsInjective(walk)
    BY DEF AnalysisInv, Compiled, CollectedSoFar, ValidSoFar, WalkedSoFar, Visit
  <1>2. UnitFits /\ Len(unit) \in Nat \ {0}
    BY <1>1, UnitTyped
  <1>3. unit' = unit
    BY DEF Visit, Reject, NextDeclaration
  <1>4. ASSUME walk = <<>> PROVE ToVisit = {unit[at].name} /\ unit[at].name \in Declared
    BY <1>1, <1>2, <1>4, UnitAt DEF ToVisit
  <1>5. ASSUME walk # <<>>
        PROVE  /\ Last(walk) \in Declared /\ Len(walk) \in 1..Len(walk)
               /\ ToVisit = IF Derived(Last(walk)) THEN {Base(Last(walk))} ELSE {}
               /\ Derived(Last(walk)) => Base(Last(walk)) \in Declared
    <2>1. Last(walk) \in Declared /\ Len(walk) \in 1..Len(walk)
      BY <1>1, <1>5 DEF Last
    <2>2. ToVisit = ToSet(Decl(Last(walk)).bases)
      BY <1>5 DEF ToVisit
    <2>3. QED
      BY <1>1, <1>2, <2>1, <2>2, BasesAre
  <1>6. QED
    BY <1>1, <1>2, <1>3, <1>4, <1>5

\* A walk that ends in visited names, or at a root, is rooted with them.
LEMMA WalkRooted ==
    ASSUME Walking, NEW n \in Nat, Len(walk) = n, walk \in Seq(Declared),
           IsInjective(walk),
           n > 0 /\ Derived(walk[n]) => Base(walk[n]) \in visited
    PROVE  LET S == visited \union ToSet(walk)
           IN  Rooted(S) /\ \A c \in S : Derived(c) => Base(c) \in S
  <1> DEFINE S == visited \union ToSet(walk)
  <1>1. ToSet(walk) = {walk[i] : i \in 1..n}
    BY DEF ToSet
  <1>2. ASSUME NEW i \in 1..n, Derived(walk[i])
        PROVE  \/ Base(walk[i]) \in visited
               \/ i + 1 \in 1..n /\ Base(walk[i]) = walk[i + 1]
    <2>1. CASE i = n
      BY <1>2, <2>1
    <2>2. CASE i # n
      <3>1. i \in 1..(n - 1) /\ i + 1 \in 1..n
        BY <2>2
      <3>2. QED
        BY <3>1 DEF Walking
    <2>3. QED
      BY <2>1, <2>2
  <1>3. \A c \in S : Derived(c) => Base(c) \in S
    <2>1. ASSUME NEW c \in visited, Derived(c) PROVE Base(c) \in S
      BY <2>1 DEF Walking
    <2>2. ASSUME NEW i \in 1..n, Derived(walk[i]) PROVE Base(walk[i]) \in S
      BY <1>1, <1>2, <2>2
    <2>3. QED
      BY <1>1, <2>1, <2>2
  <1>4. ASSUME NEW R \in SUBSET S, R # {}
        PROVE  \E c \in R : Derived(c) => Base(c) \notin R
    <2>1. CASE R \intersect visited # {}
      <3>1. PICK c \in R \intersect visited :
                Derived(c) => Base(c) \notin R \intersect visited
        BY <2>1 DEF Walking, Rooted
      <3>2. Derived(c) => Base(c) \in visited
        BY DEF Walking
      <3>3. QED
        BY <3>1, <3>2
    <2>2. CASE R \intersect visited = {}
      <3> DEFINE T == {i \in 1..n : walk[i] \in R}
      <3>1. T \in SUBSET (0..n) /\ T # {}
        BY <1>1, <1>4, <2>2
      <3>2. PICK e \in T : \A d \in T : d <= e
        <4> HIDE DEF T
        <4>1. QED
          BY <3>1, GreatestExists
      <3>3. e \in 1..n /\ walk[e] \in R
        OBVIOUS
      <3>4. ASSUME Derived(walk[e]), Base(walk[e]) \in R PROVE FALSE
        <4>1. e + 1 \in 1..n /\ Base(walk[e]) = walk[e + 1]
          BY <1>2, <2>2, <3>3, <3>4
        <4>2. e + 1 \in T
          BY <3>4, <4>1
        <4>3. e + 1 <= e
          BY <3>2, <4>2
        <4>4. QED
          BY <3>3, <4>3
      <3>5. QED
        BY <3>3, <3>4
    <2>3. QED
      BY <2>1, <2>2
  <1>5. QED
    BY <1>3, <1>4 DEF Rooted

LEMMA VisitEnds ==
    ASSUME AnalysisInv, Visit, ToVisit \subseteq visited
    PROVE  AnalysisInv'
  <1>1. /\ visited' = visited \union ToSet(walk) /\ walk' = <<>>
        /\ NextDeclaration("order")
    BY DEF Visit
  <1> DEFINE n == Len(walk)
  <1>2. n \in Nat /\ (n > 0 => walk # <<>> /\ Last(walk) = walk[n])
    BY VisitReads DEF Last
  <1>3. n > 0 /\ Derived(walk[n]) => Base(walk[n]) \in visited
    BY <1>2, VisitReads
  <1>4. Rooted(visited') /\ \A c \in visited' : Derived(c) => Base(c) \in visited'
    <2>1. /\ Rooted(visited \union ToSet(walk))
          /\ \A c \in visited \union ToSet(walk) :
                Derived(c) => Base(c) \in visited \union ToSet(walk)
      BY <1>2, <1>3, VisitReads, WalkRooted
    <2>2. QED
      BY <1>1, <2>1
  <1>5. ToSet(walk) = {walk[i] : i \in 1..n}
    BY VisitReads DEF ToSet
  <1>6. visited' \subseteq Declared
    BY <1>1, <1>5, VisitReads
  <1>7. unit[at].name \in visited'
    <2>1. CASE walk = <<>>
      BY <1>1, <2>1, VisitReads
    <2>2. CASE walk # <<>>
      <3>1. 1 \in 1..n /\ walk[1] = unit[at].name
        BY <2>2, VisitReads DEF Walking
      <3>2. QED
        BY <1>1, <1>5, <3>1
    <2>3. QED
      BY <2>1, <2>2
  <1>8. NamesTo(at) \subseteq visited'
    <2>1. at - 1 \in Nat /\ at - 1 + 1 = at
      BY VisitReads
    <2>2. NamesTo(at) = NamesTo(at - 1) \union {unit[at].name}
      BY <2>1, NamesGrow
    <2>3. QED
      BY <1>1, <1>7, <2>2, VisitReads DEF Walking
  <1>9. /\ collected' = Declared' /\ DistinctTo(Len(unit))'
        /\ (\A i \in 1..Len(unit) : Fits(unit[i]))'
    BY VisitReads, SameUnit DEF DistinctTo, Fits
  <1>10. /\ visited' \subseteq collected' /\ walk' \in Seq(collected')
         /\ IsInjective(walk)'
    <2>1. walk' = <<>> /\ DOMAIN <<>> = {}
      BY <1>1
    <2>2. IsInjective(walk)'
      BY <2>1 DEF IsInjective
    <2>3. QED
      BY <1>6, <2>1, <2>2, VisitReads
  <1>11. CASE at < Len(unit)
    <2>1. at' = at + 1 /\ phase' = "cycles"
      BY <1>1, <1>11, VisitReads DEF NextDeclaration
    <2>2. at' \in 1..Len(unit) /\ at' - 1 = at
      BY <1>11, <2>1, VisitReads
    <2>3. NamesTo(at - 1)' \subseteq visited'
      BY <1>8, <2>2, VisitReads DEF NamesTo
    <2>4. Rooted(visited)' /\ (\A c \in visited : Derived(c) => Base(c) \in visited)'
      <3>1. Rooted(visited)'
        BY <1>4, VisitReads, SameUnit DEF Rooted
      <3>2. QED
        BY <1>4, <3>1, VisitReads, SameUnit
    <2>5. \A i : i \notin 1..Len(walk)' /\ i \notin 1..(Len(walk)' - 1)
      <3>1. Len(walk)' = 0
        BY <1>1
      <3>2. QED
        BY <3>1
    <2>6. Walking'
      BY <1>1, <2>3, <2>4, <2>5 DEF Walking
    <2>7. QED
      BY <1>9, <1>10, <2>1, <2>2, <2>6, VisitReads
         DEF AnalysisInv, Compiled, CollectedSoFar, ValidSoFar, WalkedSoFar,
             Verdict, Analyzed, Analyzing
  <1>12. CASE ~(at < Len(unit))
    <2>1. at' = 1 /\ phase' = "order" /\ at = Len(unit)
      BY <1>1, <1>12, VisitReads DEF NextDeclaration
    <2>2. at' \in 1..Len(unit)
      BY <2>1, VisitReads
    <2>3. visited' = Declared
      BY <1>6, <1>8, <2>1, DeclaredAre, VisitReads
    <2>4. WellFormed
      BY <1>4, <2>3, VisitReads, WellFormedIs
    <2>5. WellFormed'
      BY <2>4, VisitReads, SameUnit
    <2>6. QED
      BY <1>9, <1>10, <2>1, <2>2, <2>5, VisitReads
         DEF AnalysisInv, Compiled, CollectedSoFar, ValidSoFar, WalkedSoFar,
             Verdict, Analyzed, Analyzing
  <1>13. QED
    BY <1>11, <1>12

\* A class that is met again is derived from itself.
LEMMA VisitRejects ==
    ASSUME AnalysisInv, Visit, ~(ToVisit \subseteq visited), ToVisit \subseteq ToSet(walk)
    PROVE  AnalysisInv'
  <1>1. phase' = "rejected" /\ at' = at /\ visited' = visited /\ walk' = walk
    BY DEF Visit, Reject
  <1> DEFINE n == Len(walk)
  <1>2. n \in Nat /\ ToSet(walk) = {walk[i] : i \in 1..n}
    BY VisitReads DEF ToSet
  <1>3. walk # <<>>
    <2>1. ASSUME walk = <<>> PROVE FALSE
      <3>1. unit[at].name \in ToSet(walk) /\ 1..n = {}
        BY <2>1, VisitReads
      <3>2. QED
        BY <1>2, <3>1
    <2>2. QED
      BY <2>1
  <1>4. /\ Derived(walk[n]) /\ Base(walk[n]) \in ToSet(walk)
        /\ n \in 1..n /\ Last(walk) = walk[n]
    BY <1>3, VisitReads DEF Last
  <1>5. PICK j \in 1..n : walk[j] = Base(walk[n])
    BY <1>2, <1>4
  <1> DEFINE R == {walk[i] : i \in j..n}
  <1>6. R \in SUBSET Declared /\ R # {}
    <2>1. \A i \in j..n : i \in 1..n
      BY <1>2, <1>5
    <2>2. n \in j..n
      BY <1>2, <1>5
    <2>3. QED
      BY <2>1, <2>2, VisitReads
  <1>7. ASSUME NEW i \in j..n PROVE Derived(walk[i]) /\ Base(walk[i]) \in R
    <2>1. CASE i = n
      <3>1. j \in j..n
        BY <1>2, <1>5
      <3>2. QED
        BY <1>4, <1>5, <2>1, <3>1
    <2>2. CASE i # n
      <3>1. i \in 1..(n - 1) /\ i + 1 \in j..n
        BY <1>2, <1>5, <2>2
      <3>2. Derived(walk[i]) /\ Base(walk[i]) = walk[i + 1]
        BY <3>1, VisitReads DEF Walking
      <3>3. QED
        BY <3>1, <3>2
    <2>3. QED
      BY <2>1, <2>2
  <1>8. ~Rooted(Declared)
    <2>1. \A c \in R : Derived(c) /\ Base(c) \in R
      BY <1>7
    <2>2. QED
      <3> HIDE DEF R
      <3>1. QED
        BY <1>6, <2>1 DEF Rooted
  <1>9. ~WellFormed'
    <2>1. ~WellFormed
      BY <1>8, VisitReads, WellFormedIs
    <2>2. QED
      BY <2>1, VisitReads, SameUnit
  <1>10. collected' \subseteq Declared'
    BY VisitReads, SameUnit
  <1>11. QED
    BY <1>1, <1>9, <1>10, VisitReads
       DEF AnalysisInv, Compiled, CollectedSoFar, ValidSoFar, WalkedSoFar,
           Verdict, Analyzed

LEMMA VisitGoesUp ==
    ASSUME AnalysisInv, Visit, ~(ToVisit \subseteq visited),
           ~(ToVisit \subseteq ToSet(walk))
    PROVE  AnalysisInv'
  <1>1. /\ phase' = phase /\ at' = at /\ visited' = visited
        /\ walk' = walk \o SetToSeq(ToVisit)
    BY DEF Visit
  <1> DEFINE n == Len(walk)
  <1>2. n \in Nat /\ ToSet(walk) = {walk[i] : i \in 1..n} /\ DOMAIN walk = 1..n
    BY VisitReads DEF ToSet
  <1>3. PICK x \in Declared :
            /\ ToVisit = {x}
            /\ walk = <<>> => x = unit[at].name
            /\ walk # <<>> => Derived(Last(walk)) /\ x = Base(Last(walk))
    BY VisitReads
  <1>4. x \notin visited /\ \A i \in 1..n : walk[i] # x
    BY <1>2, <1>3
  <1>5. walk' = Append(walk, x)
    <2>1. walk' = walk \o <<x>>
      BY <1>1, <1>3, SingleSeq
    <2>2. QED
      BY <2>1, VisitReads, AppendIsConcat
  <1>6. PICK w \in Seq(Declared) : w = walk
    BY VisitReads
  <1>7. /\ walk' \in Seq(Declared) /\ Len(walk') = n + 1 /\ DOMAIN (walk') = 1..(n + 1)
        /\ \A i \in 1..n : walk'[i] = walk[i]
        /\ walk'[n + 1] = x
    <2>1. /\ Append(w, x) \in Seq(Declared) /\ Len(Append(w, x)) = Len(w) + 1
          /\ \A i \in 1..Len(w) : Append(w, x)[i] = w[i]
          /\ Append(w, x)[Len(w) + 1] = x
          /\ DOMAIN Append(w, x) = 1..(Len(w) + 1)
      BY AppendProperties, LenProperties
    <2>2. QED
      BY <1>5, <1>6, <2>1
  <1>8. \A i \in 1..(n + 1) : i \in 1..n \/ i = n + 1
    BY <1>2
  <1>9. IsInjective(walk)'
    <2>1. ASSUME NEW i \in 1..(n + 1), NEW k \in 1..(n + 1), walk'[i] = walk'[k]
          PROVE  i = k
      <3>1. CASE i \in 1..n /\ k \in 1..n
        BY <1>2, <1>7, <2>1, <3>1, VisitReads DEF IsInjective
      <3>2. CASE ~(i \in 1..n /\ k \in 1..n)
        BY <1>4, <1>7, <1>8, <2>1, <3>2
      <3>3. QED
        BY <3>1, <3>2
    <2>2. QED
      BY <1>7, <2>1 DEF IsInjective
  <1>10. \A i \in 1..n : Derived(walk'[i]) /\ Base(walk'[i]) = walk'[i + 1]
    <2>1. ASSUME NEW i \in 1..n
          PROVE  Derived(walk'[i]) /\ Base(walk'[i]) = walk'[i + 1]
      <3>1. CASE i = n
        <4>1. walk # <<>> /\ Last(walk) = walk[n]
          BY <2>1, VisitReads DEF Last
        <4>2. QED
          BY <1>3, <1>7, <3>1, <4>1
      <3>2. CASE i # n
        <4>1. n \in Nat
          BY <1>2
        <4>2. i \in 1..(n - 1) /\ i + 1 \in 1..n
          BY <3>2, <4>1
        <4>3. Derived(walk[i]) /\ Base(walk[i]) = walk[i + 1]
          BY <4>2, VisitReads DEF Walking
        <4>4. QED
          BY <1>7, <4>2, <4>3
      <3>3. QED
        BY <3>1, <3>2
    <2>2. QED
      BY <2>1
  <1>11. walk'[1] = unit[at].name
    <2>1. CASE n = 0
      <3>1. walk = <<>>
        BY <2>1, VisitReads
      <3>2. QED
        BY <1>3, <1>7, <2>1, <3>1
    <2>2. CASE n # 0
      <3>1. walk # <<>> /\ 1 \in 1..n
        BY <1>2, <2>2, VisitReads
      <3>2. QED
        BY <1>7, <3>1, VisitReads DEF Walking
    <2>3. QED
      BY <2>1, <2>2
  <1>12. Walking'
    <2>1. NamesTo(at - 1)' \subseteq visited'
      BY <1>1, VisitReads DEF NamesTo, Walking
    <2>2. Rooted(visited)' /\ (\A c \in visited : Derived(c) => Base(c) \in visited)'
      <3>1. Rooted(visited) /\ \A c \in visited : Derived(c) => Base(c) \in visited
        BY VisitReads DEF Walking
      <3>2. \A c : Derived(c)' = Derived(c) /\ Base(c)' = Base(c)
        BY VisitReads, SameUnit
      <3>3. QED
        BY <1>1, <3>1, <3>2 DEF Rooted
    <2>3. (walk # <<>> => walk[1] = unit[at].name)'
      BY <1>1, <1>11, VisitReads
    <2>4. (\A i \in 1..Len(walk) : walk[i] \notin visited)'
      <3>1. \A i \in 1..(n + 1) : walk'[i] \notin visited
        BY <1>4, <1>7, <1>8, VisitReads DEF Walking
      <3>2. QED
        BY <1>1, <1>7, <3>1
    <2>5. (\A i \in 1..(Len(walk) - 1) :
              Derived(walk[i]) /\ Base(walk[i]) = walk[i + 1])'
      <3>1. Len(walk') - 1 = n
        BY <1>2, <1>7
      <3>2. \A i \in 1..n : (Derived(walk[i]) /\ Base(walk[i]) = walk[i + 1])'
        <4>1. \A c : Derived(c)' = Derived(c) /\ Base(c)' = Base(c)
          BY VisitReads, SameUnit
        <4>2. QED
          BY <1>10, VisitReads DEF Derived, Base, Decl
      <3>3. QED
        BY <3>1, <3>2
    <2>6. QED
      BY <2>1, <2>2, <2>3, <2>4, <2>5 DEF Walking
  <1>13. /\ collected' = Declared' /\ DistinctTo(Len(unit))'
         /\ (\A i \in 1..Len(unit) : Fits(unit[i]))'
    BY VisitReads, SameUnit DEF DistinctTo, Fits
  <1>14. QED
    BY <1>1, <1>7, <1>9, <1>12, <1>13, VisitReads
       DEF AnalysisInv, Compiled, CollectedSoFar, ValidSoFar, WalkedSoFar,
           Verdict, Analyzed, Analyzing

LEMMA VisitKeeps ==
    ASSUME AnalysisInv, Visit
    PROVE  AnalysisInv' /\ unit' = unit
  <1>1. unit' = unit
    BY VisitReads
  <1>2. QED
    BY <1>1, VisitEnds, VisitRejects, VisitGoesUp

LEMMA AnalysisSame ==
    ASSUME AnalysisInv, phase \in Analyzed, phase' \in Analyzed, unit' = unit,
           at' \in 1..Len(unit), semaVars' = semaVars
    PROVE  AnalysisInv'
  <1>1. phase \notin Analyzing /\ phase # "rejected"
    BY DEF Analyzed, Analyzing
  <1>2. phase' \notin Analyzing /\ phase' # "rejected"
    BY DEF Analyzed, Analyzing
  <1>3. collected' = collected /\ visited' = visited /\ walk' = walk
    BY DEF semaVars
  <1>4. CollectedSoFar'
    BY <1>1, <1>2, <1>3, SameUnit
       DEF AnalysisInv, CollectedSoFar, Analyzing, DistinctTo
  <1>5. ValidSoFar'
    <2>1. \A i \in 1..Len(unit) : Fits(unit[i])
      BY <1>1 DEF AnalysisInv, ValidSoFar, Analyzing
    <2>2. (\A i \in 1..Len(unit) : Fits(unit[i]))'
      BY <2>1, SameUnit DEF Fits
    <2>3. QED
      BY <1>2, <2>2 DEF ValidSoFar, Analyzing
  <1>6. WalkedSoFar' /\ Verdict' /\ Compiled'
    BY <1>1, <1>2, <1>3, SameUnit
       DEF AnalysisInv, WalkedSoFar, Verdict, Compiled, Analyzing
  <1>7. QED
    BY <1>4, <1>5, <1>6 DEF AnalysisInv

-----------------------------------------------------------------------------
(* The order of the classes. *)

LEMMA RoundToIs ==
    ASSUME NEW n \in Nat, Len(pending) = n
    PROVE  RoundTo = [k \in 0..n |-> IF k = 0 THEN [out |-> ordered, left |-> <<>>]
                                     ELSE Place(RoundTo[k - 1], pending[k])]
  <1> DEFINE Is(g, m) ==
        g = [k \in 0..m |-> IF k = 0 THEN [out |-> ordered, left |-> <<>>]
                            ELSE Place(g[k - 1], pending[k])]
      Good == {m \in Nat : \E g : Is(g, m)}
  <1>1. 0 \in Good
    <2>1. Is([k \in 0..0 |-> [out |-> ordered, left |-> <<>>]], 0)
      OBVIOUS
    <2>2. QED
      BY <2>1
  <1>2. ASSUME NEW m \in Nat, m \in Good PROVE m + 1 \in Good
    <2>1. PICK g : Is(g, m)
      BY <1>2
    <2> DEFINE h == [k \in 0..(m + 1) |->
                       IF k = m + 1 THEN Place(g[m], pending[m + 1]) ELSE g[k]]
    <2>2. ASSUME NEW k \in 0..(m + 1)
          PROVE  h[k] = IF k = 0 THEN [out |-> ordered, left |-> <<>>]
                        ELSE Place(h[k - 1], pending[k])
      <3>1. CASE k = m + 1
        BY <3>1
      <3>2. CASE k # m + 1
        <4>1. k \in 0..m /\ h[k] = g[k]
          BY <3>2
        <4>2. k # 0 => k - 1 \in 0..(m + 1) /\ k - 1 # m + 1
          BY <4>1
        <4>3. k # 0 => h[k - 1] = g[k - 1]
          BY <4>2
        <4>4. g[k] = IF k = 0 THEN [out |-> ordered, left |-> <<>>]
                     ELSE Place(g[k - 1], pending[k])
          BY <2>1, <4>1
        <4>5. QED
          BY <4>1, <4>3, <4>4
      <3>3. QED
        BY <3>1, <3>2
    <2>3. Is(h, m + 1)
      BY <2>2
    <2>4. \E u : Is(u, m + 1)
      <3> HIDE DEF h, Is
      <3>1. QED
        BY <2>3
    <2>5. QED
      <3> HIDE DEF Is
      <3>1. QED
        BY <2>4
  <1>3. n \in Good
    <2> HIDE DEF Good
    <2>1. QED
      BY <1>1, <1>2, Inductive
  <1>4. QED
    BY <1>3 DEF RoundTo

\* A class of the unit can go out when its base is out.
LEMMA PlaceableIs ==
    ASSUME UnitFits, WellFormed, NEW d \in Range(unit), NEW S
    PROVE  /\ d.name \in Declared /\ Decl(d.name) = d
           /\ Placeable(d, S) <=> (Derived(d.name) => Base(d.name) \in S)
  <1>1. DistinctTo(Len(unit)) /\ \A i \in 1..Len(unit) : Fits(unit[i])
    BY WellFormedIs
  <1>2. PICK i \in 1..Len(unit) : d = unit[i]
    BY DEF UnitFits, Range
  <1>3. d.name \in Declared /\ Decl(d.name) = d
    BY <1>1, <1>2, UnitAt, DeclIs
  <1>4. Derived(d.name) => Base(d.name) \in Declared
    BY <1>1, <1>3, BasesAre
  <1>5. QED
    BY <1>3, <1>4 DEF Placeable, Derived, Base

\* What a round has done with the first k classes: out and left are an
\* order and what is left of it, and if none went out, none could.
RoundFits(k, out, left) ==
    /\ Ordering(out, left)
    /\ ToSet(out) \union NamesIn(left) =
            ToSet(ordered) \union {pending[i].name : i \in 1..k}
    /\ Len(out) + Len(left) = Len(ordered) + k /\ Len(left) <= k
    /\ Len(left) = k =>
        /\ out = ordered
        /\ \A i \in 1..k : ~Placeable(pending[i], ToSet(ordered))

\* A name put behind distinct names.
LEMMA NameAppended ==
    ASSUME NEW S, NEW s \in Seq(S), NEW d \in S, d.name \notin NamesIn(s), DistinctIn(s)
    PROVE  LET t == Append(s, d)
           IN  /\ t \in Seq(S) /\ Len(t) = Len(s) + 1 /\ DistinctIn(t)
               /\ NamesIn(t) = NamesIn(s) \union {d.name}
  <1> DEFINE t == Append(s, d)
  <1>1. PICK n \in Nat : n = Len(s)
    BY LenProperties
  <1>2. /\ t \in Seq(S) /\ Len(t) = n + 1 /\ t[n + 1] = d
        /\ \A i \in 1..n : t[i] = s[i]
    BY <1>1, AppendProperties
  <1>3. 1..(n + 1) = (1..n) \union {n + 1}
    OBVIOUS
  <1> HIDE DEF t
  <1>4. NamesIn(t) = NamesIn(s) \union {d.name}
    BY <1>1, <1>2, <1>3 DEF NamesIn
  <1>5. ASSUME NEW i \in 1..(n + 1), NEW j \in 1..(n + 1), t[i].name = t[j].name
        PROVE  i = j
    BY <1>1, <1>2, <1>3, <1>5 DEF NamesIn, DistinctIn
  <1>6. DistinctIn(t)
    BY <1>2, <1>5 DEF DistinctIn
  <1>7. QED
    BY <1>1, <1>2, <1>4, <1>6 DEF t

\* An element put behind others.
LEMMA ElementAppended ==
    ASSUME NEW S, NEW s \in Seq(S), NEW c \in S, c \notin ToSet(s), IsInjective(s)
    PROVE  LET t == Append(s, c)
           IN  /\ t \in Seq(S) /\ Len(t) = Len(s) + 1 /\ IsInjective(t)
               /\ ToSet(t) = ToSet(s) \union {c}
               /\ \A i \in 1..Len(s) : t[i] = s[i]
               /\ t[Len(s) + 1] = c
  <1> DEFINE t == Append(s, c)
  <1>1. PICK n \in Nat : n = Len(s)
    BY LenProperties
  <1>2. /\ t \in Seq(S) /\ Len(t) = n + 1 /\ t[n + 1] = c
        /\ \A i \in 1..n : t[i] = s[i]
    BY <1>1, AppendProperties
  <1>3. 1..(n + 1) = (1..n) \union {n + 1} /\ DOMAIN s = 1..n /\ DOMAIN t = 1..(n + 1)
    BY <1>1, <1>2, LenProperties
  <1> HIDE DEF t
  <1>4. ToSet(t) = ToSet(s) \union {c}
    BY <1>2, <1>3 DEF ToSet
  <1>5. ASSUME NEW i \in 1..(n + 1), NEW j \in 1..(n + 1), t[i] = t[j]
        PROVE  i = j
    BY <1>2, <1>3, <1>5 DEF ToSet, IsInjective
  <1>6. IsInjective(t)
    BY <1>3, <1>5 DEF IsInjective
  <1>7. QED
    BY <1>1, <1>2, <1>4, <1>6 DEF t

LEMMA PlaceKeeps ==
    ASSUME UnitFits, WellFormed, NEW n \in Nat, Len(pending) = n, NEW k \in 0..(n - 1),
           Ordering(ordered, pending), NEW out, NEW left, RoundFits(k, out, left)
    PROVE  \E o, l : /\ Place([out |-> out, left |-> left], pending[k + 1]) =
                           [out |-> o, left |-> l]
                     /\ RoundFits(k + 1, o, l)
  <1> DEFINE d == pending[k + 1]
             before == {pending[i].name : i \in 1..k}
  <1>1. k \in Nat /\ k + 1 \in 1..n /\ 1..(k + 1) = (1..k) \union {k + 1}
    OBVIOUS
  <1>2. d \in Range(unit) /\ d.name \in Declared /\ Decl(d.name) = d
    <2>1. d \in Range(unit)
      BY <1>1 DEF Ordering
    <2>2. QED
      <3> HIDE DEF d
      <3>1. QED
        BY <2>1, PlaceableIs
  <1>3. d.name \notin ToSet(ordered) /\ d.name \notin before
    <2>1. d.name \notin ToSet(ordered)
      BY <1>1 DEF Ordering, NamesIn
    <2>2. ASSUME NEW i \in 1..k, pending[i].name = d.name PROVE FALSE
      <3>1. i \in 1..n /\ i # k + 1
        BY <1>1
      <3>2. QED
        BY <1>1, <2>2, <3>1 DEF Ordering, DistinctIn
    <2>3. QED
      BY <2>1, <2>2
  <1>4. {pending[i].name : i \in 1..(k + 1)} = before \union {d.name}
    BY <1>1
  <1>5. /\ Ordering(out, left) /\ ToSet(out) \union NamesIn(left) = ToSet(ordered) \union before
        /\ Len(out) + Len(left) = Len(ordered) + k /\ Len(left) <= k
        /\ Len(left) = k =>
            /\ out = ordered
            /\ \A i \in 1..k : ~Placeable(pending[i], ToSet(ordered))
    BY DEF RoundFits
  <1>6. d.name \notin ToSet(out) /\ d.name \notin NamesIn(left)
    BY <1>3, <1>5
  <1>7. /\ out \in Seq(Declared) /\ IsInjective(out) /\ BasesOut(out)
        /\ left \in Seq(Range(unit)) /\ DistinctIn(left)
        /\ ToSet(out) \intersect NamesIn(left) = {}
        /\ Len(out) \in Nat /\ Len(left) \in Nat /\ Len(ordered) \in Nat
    BY <1>5 DEF Ordering
  <1>8. CASE Placeable(d, ToSet(out))
    <2> DEFINE o == Append(out, d.name)
    <2>1. Place([out |-> out, left |-> left], d) = [out |-> o, left |-> left]
      <3> HIDE DEF d
      <3>1. QED
        BY <1>8 DEF Place
    <2>2. /\ o \in Seq(Declared) /\ Len(o) = Len(out) + 1 /\ IsInjective(o)
          /\ ToSet(o) = ToSet(out) \union {d.name}
          /\ \A i \in 1..Len(out) : o[i] = out[i]
          /\ o[Len(out) + 1] = d.name
      <3> HIDE DEF d
      <3>1. QED
        BY <1>2, <1>6, <1>7, ElementAppended
    <2>3. Derived(d.name) => Base(d.name) \in ToSet(out)
      <3> HIDE DEF d
      <3>1. QED
        BY <1>2, <1>8, PlaceableIs
    <2>4. BasesOut(o)
      <3> HIDE DEF o, d
      <3>1. PICK m \in Nat : m = Len(out)
        BY <1>7
      <3>2. ASSUME NEW i \in 1..(m + 1), Derived(o[i])
            PROVE  \E j \in 1..(i - 1) : o[j] = Base(o[i])
        <4>1. CASE i \in 1..m
          <5>1. PICK j \in 1..(i - 1) : out[j] = Base(out[i])
            BY <1>7, <2>2, <3>1, <3>2, <4>1 DEF BasesOut
          <5>2. j \in 1..m
            BY <4>1
          <5>3. QED
            BY <2>2, <3>1, <4>1, <5>1, <5>2
        <4>2. CASE i = m + 1
          <5>1. PICK j \in DOMAIN out : out[j] = Base(d.name)
            BY <2>2, <2>3, <3>1, <3>2, <4>2 DEF ToSet
          <5>2. j \in 1..m /\ i - 1 = m
            BY <1>7, <3>1, <4>2, <5>1
          <5>3. QED
            BY <2>2, <3>1, <4>2, <5>1, <5>2
        <4>3. QED
          BY <4>1, <4>2
      <3>3. QED
        BY <2>2, <3>1, <3>2 DEF BasesOut
    <2>5. ToSet(o) \intersect NamesIn(left) = {}
      BY <1>6, <1>7, <2>2
    <2>6. ToSet(o) \union NamesIn(left) = ToSet(ordered) \union (before \union {d.name})
      BY <1>5, <2>2
    <2>7. Len(o) + Len(left) = Len(ordered) + (k + 1) /\ Len(left) <= k + 1
          /\ Len(left) # k + 1
      BY <1>1, <1>5, <1>7, <2>2, SMTT(30)
    <2>8. RoundFits(k + 1, o, left)
      <3> HIDE DEF o, d, before
      <3>1. Ordering(o, left)
        BY <1>7, <2>2, <2>4, <2>5 DEF Ordering
      <3>2. QED
        BY <1>4, <2>6, <2>7, <3>1 DEF RoundFits
    <2>9. QED
      <3> HIDE DEF o, d
      <3>1. QED
        BY <2>1, <2>8 DEF d
  <1>9. CASE ~Placeable(d, ToSet(out))
    <2> DEFINE l == Append(left, d)
    <2>1. Place([out |-> out, left |-> left], d) = [out |-> out, left |-> l]
      <3> HIDE DEF d
      <3>1. QED
        BY <1>9 DEF Place
    <2>2. /\ l \in Seq(Range(unit)) /\ Len(l) = Len(left) + 1 /\ DistinctIn(l)
          /\ NamesIn(l) = NamesIn(left) \union {d.name}
      <3> HIDE DEF d
      <3>1. QED
        BY <1>2, <1>6, <1>7, NameAppended
    <2>3. ToSet(out) \intersect NamesIn(l) = {}
      BY <1>6, <1>7, <2>2
    <2>4. ToSet(out) \union NamesIn(l) = ToSet(ordered) \union (before \union {d.name})
      BY <1>5, <2>2
    <2>5. Len(out) + Len(l) = Len(ordered) + (k + 1) /\ Len(l) <= k + 1
      BY <1>1, <1>5, <1>7, <2>2
    <2>6. ASSUME Len(l) = k + 1
          PROVE  out = ordered /\ \A i \in 1..(k + 1) : ~Placeable(pending[i], ToSet(ordered))
      <3>1. Len(left) = k
        BY <1>1, <1>7, <2>2, <2>6
      <3>2. QED
        BY <1>1, <1>5, <1>9, <3>1
    <2>7. RoundFits(k + 1, out, l)
      <3> HIDE DEF l, d, before
      <3>1. Ordering(out, l)
        BY <1>7, <2>2, <2>3 DEF Ordering
      <3>2. QED
        BY <1>4, <2>4, <2>5, <2>6, <3>1 DEF RoundFits
    <2>8. QED
      <3> HIDE DEF l, d
      <3>1. QED
        BY <2>1, <2>7 DEF d
  <1>10. QED
    BY <1>8, <1>9

LEMMA RoundIs ==
    ASSUME UnitFits, WellFormed, NEW n \in Nat, Len(pending) = n,
           Ordering(ordered, pending)
    PROVE  \E o, l : Round = [out |-> o, left |-> l] /\ RoundFits(n, o, l)
  <1> DEFINE Does(k) == \E o, l : /\ RoundTo[k] = [out |-> o, left |-> l]
                                  /\ RoundFits(k, o, l)
             Good == {k \in Nat : k <= n => Does(k)}
  <1>1. /\ RoundTo[0] = [out |-> ordered, left |-> <<>>]
        /\ \A k \in 0..(n - 1) : RoundTo[k + 1] = Place(RoundTo[k], pending[k + 1])
    <2>1. PICK f : /\ f = RoundTo
                   /\ f = [k \in 0..n |-> IF k = 0 THEN [out |-> ordered, left |-> <<>>]
                                          ELSE Place(RoundTo[k - 1], pending[k])]
      BY RoundToIs
    <2>2. ASSUME NEW k \in 0..(n - 1) PROVE f[k + 1] = Place(f[k], pending[k + 1])
      <3>1. k + 1 \in 0..n /\ k + 1 # 0 /\ k + 1 - 1 = k
        OBVIOUS
      <3>2. f[k + 1] = Place(RoundTo[k + 1 - 1], pending[k + 1])
        BY <2>1, <3>1
      <3>3. QED
        BY <2>1, <3>1, <3>2
    <2>3. f[0] = [out |-> ordered, left |-> <<>>]
      BY <2>1
    <2>4. QED
      BY <2>1, <2>2, <2>3
  <1>2. 0 \in Good
    <2>1. RoundFits(0, ordered, <<>>)
      <3>1. NamesIn(<<>>) = {} /\ 1..0 = {} /\ Len(<<>>) = 0 /\ <<>> \in Seq(Range(unit))
        BY DEF NamesIn
      <3>2. DistinctIn(<<>>)
        BY <3>1 DEF DistinctIn
      <3>3. Ordering(ordered, <<>>) /\ Len(ordered) \in Nat
        BY <3>1, <3>2 DEF Ordering
      <3>4. {pending[i].name : i \in 1..0} = {}
        BY <3>1
      <3>5. QED
        BY <3>1, <3>3, <3>4 DEF RoundFits
    <2>2. Does(0)
      BY <1>1, <2>1
    <2>3. QED
      BY <2>2
  <1>3. ASSUME NEW k \in Nat, k \in Good PROVE k + 1 \in Good
    <2>1. CASE k + 1 <= n
      <3>1. k \in 0..(n - 1) /\ k <= n
        BY <2>1
      <3>2. PICK o, l : RoundTo[k] = [out |-> o, left |-> l] /\ RoundFits(k, o, l)
        BY <1>3, <3>1
      <3>3. PICK p, q : /\ Place(RoundTo[k], pending[k + 1]) = [out |-> p, left |-> q]
                        /\ RoundFits(k + 1, p, q)
        BY <3>1, <3>2, PlaceKeeps
      <3>4. Does(k + 1)
        BY <1>1, <3>1, <3>3
      <3>5. QED
        BY <3>4
    <2>2. CASE ~(k + 1 <= n)
      BY <2>2
    <2>3. QED
      BY <2>1, <2>2
  <1>4. n \in Good
    <2> HIDE DEF Good
    <2>1. QED
      BY <1>2, <1>3, Inductive
  <1>5. Does(n)
    BY <1>4
  <1>6. QED
    BY <1>5 DEF Round

\* A class whose base is out, or that has none, can go out: a round is
\* never stuck.
LEMMA NeverStuck ==
    ASSUME UnitFits, WellFormed, Ordering(ordered, pending), pending # <<>>,
           ToSet(ordered) \union NamesIn(pending) = Declared
    PROVE  \E i \in 1..Len(pending) : Placeable(pending[i], ToSet(ordered))
  <1>1. SUFFICES ASSUME \A i \in 1..Len(pending) : ~Placeable(pending[i], ToSet(ordered))
                 PROVE  FALSE
    OBVIOUS
  <1>2. pending \in Seq(Range(unit)) /\ Len(pending) \in Nat \ {0}
    BY EmptySeq DEF Ordering
  <1>3. /\ Rooted(Declared) /\ DistinctTo(Len(unit))
        /\ \A i \in 1..Len(unit) : Fits(unit[i])
    BY WellFormedIs
  <1>4. ASSUME NEW i \in 1..Len(pending), NEW c, c = pending[i].name
        PROVE  Derived(c) /\ Base(c) \in NamesIn(pending)
    <2>1. pending[i] \in Range(unit)
      BY <1>2
    <2>2. PICK d \in Range(unit) : d = pending[i]
      BY <2>1
    <2>3. c \in Declared /\ Derived(c) /\ Base(c) \notin ToSet(ordered)
      BY <1>1, <1>4, <2>2, PlaceableIs
    <2>4. Base(c) \in Declared
      BY <1>3, <2>3, BasesAre
    <2>5. QED
      BY <2>3, <2>4
  <1>5. NamesIn(pending) # {} /\ NamesIn(pending) \subseteq Declared
    BY <1>2 DEF NamesIn
  <1>6. \A c \in NamesIn(pending) : Derived(c) /\ Base(c) \in NamesIn(pending)
    BY <1>4 DEF NamesIn
  <1>7. QED
    BY <1>3, <1>5, <1>6 DEF Rooted

\* The order is about the unit only.
LEMMA OrderSame ==
    ASSUME unit' = unit
    PROVE  /\ \A out, left : Ordering(out, left)' = Ordering(out, left)
           /\ \A out : BasesOut(out)' = BasesOut(out)
  <1>1. \A out : BasesOut(out)' = BasesOut(out)
    BY SameUnit DEF BasesOut
  <1>2. Range(unit)' = Range(unit)
    OBVIOUS
  <1>3. \A out, left : Ordering(out, left)' = Ordering(out, left)
    BY <1>1, <1>2, SameUnit DEF Ordering, DistinctIn, NamesIn
  <1>4. QED
    BY <1>1, <1>3

LEMMA OrderKeeps ==
    ASSUME AnalysisInv, OrderedSoFar, Order
    PROVE  AnalysisInv' /\ OrderedSoFar' /\ unit' = unit
  <1>1. /\ phase = "order" /\ WellFormed /\ unit' = unit /\ at' = at
        /\ unit \in Units /\ at \in 1..Len(unit) /\ semaVars' = semaVars
    BY DEF AnalysisInv, Verdict, Compiled, Order, Analyzed
  <1>2. /\ Ordering(ordered, pending) /\ pending # <<>>
        /\ ToSet(ordered) \union NamesIn(pending) = Declared
        /\ Len(ordered) + Len(pending) = Len(unit)
    BY <1>1 DEF OrderedSoFar, Analyzed
  <1>3. UnitFits
    BY <1>1, UnitTyped
  <1>4. PICK n \in Nat : n = Len(pending)
    BY <1>2, LenProperties DEF Ordering
  <1>5. PICK o, l : Round = [out |-> o, left |-> l] /\ RoundFits(n, o, l)
    BY <1>1, <1>2, <1>3, <1>4, RoundIs
  <1>6. Round.out = o /\ Round.left = l
    BY <1>5
  <1>7. l # pending
    <2>1. Len(l) # n
      BY <1>1, <1>2, <1>3, <1>4, <1>5, NeverStuck DEF RoundFits
    <2>2. QED
      BY <1>4, <2>1
  <1>8. ordered' = o /\ pending' = l
    BY <1>6, <1>7 DEF Order
  <1>9. phase' = IF l = <<>> THEN "tables" ELSE "order"
    BY <1>1, <1>8 DEF Order
  <1>10. AnalysisInv'
    <2>1. phase \in Analyzed /\ phase' \in Analyzed /\ at' \in 1..Len(unit)
      BY <1>1, <1>9 DEF Analyzed
    <2>2. QED
      BY <1>1, <2>1, AnalysisSame
  <1>11. OrderedSoFar'
    <2>1. Ordering(o, l) /\ Len(o) + Len(l) = Len(ordered) + n
      BY <1>5 DEF RoundFits
    <2>2. ToSet(o) \union NamesIn(l) = Declared
      BY <1>2, <1>4, <1>5 DEF RoundFits, NamesIn
    <2>3. Ordering(ordered, pending)'
      <3>1. BasesOut(o) /\ \A c : Derived(c)' = Derived(c) /\ Base(c)' = Base(c)
        BY <1>1, <2>1, SameUnit DEF Ordering
      <3>2. BasesOut(ordered)'
        BY <1>8, <3>1 DEF BasesOut
      <3>3. Declared' = Declared
        BY <1>1, SameUnit
      <3>4. QED
        BY <1>1, <1>8, <2>1, <3>2, <3>3 DEF Ordering, DistinctIn, NamesIn
    <2>4. (ToSet(ordered) \union NamesIn(pending) = Declared)'
      BY <1>1, <1>8, <2>2, SameUnit DEF NamesIn
    <2>5. (Len(ordered) + Len(pending) = Len(unit))'
      BY <1>1, <1>2, <1>4, <1>8, <2>1
    <2>6. (phase = "order" <=> pending # <<>>)'
      BY <1>8, <1>9
    <2>7. phase' \notin Analyzing \union {"rejected"}
      BY <1>9 DEF Analyzing
    <2>8. (phase = "order" => at = 1)'
      BY <1>1 DEF OrderedSoFar, Analyzed
    <2>9. QED
      BY <2>3, <2>4, <2>5, <2>6, <2>7, <2>8 DEF OrderedSoFar
  <1>12. QED
    BY <1>1, <1>10, <1>11

\* Once the analysis is over, all the classes are to be put out.
LEMMA OrderOpens ==
    ASSUME UnitFits, DistinctTo(Len(unit))
    PROVE  /\ Ordering(<<>>, unit) /\ ToSet(<<>>) \union NamesIn(unit) = Declared
           /\ Len(<<>>) + Len(unit) = Len(unit)
  <1>1. Len(<<>>) = 0 /\ 1..0 = {} /\ <<>> \in Seq(Declared) /\ DOMAIN <<>> = {}
    OBVIOUS
  <1>2. ToSet(<<>>) = {}
    BY <1>1 DEF ToSet
  <1>3. NamesIn(unit) = Declared /\ DistinctIn(unit)
    BY DeclaredAre DEF NamesIn, NamesTo, DistinctIn, DistinctTo
  <1>4. IsInjective(<<>>) /\ BasesOut(<<>>)
    BY <1>1 DEF IsInjective, BasesOut
  <1>5. unit \in Seq(Range(unit)) /\ Len(unit) \in Nat
    BY SeqOfRange DEF UnitFits
  <1>6. QED
    BY <1>1, <1>2, <1>3, <1>4, <1>5 DEF Ordering

LEMMA OrderWaits ==
    ASSUME AnalysisInv, OrderedSoFar, Collect \/ Validate \/ Visit
    PROVE  OrderedSoFar'
  <1>1. /\ phase \in Analyzing /\ orderVars' = orderVars /\ unit' = unit
        /\ phase' \in Analyzing \union {"rejected", "order"}
        /\ phase' = "order" => at' = 1
    BY DEF Collect, Validate, Visit, Reject, NextDeclaration, Analyzing
  <1>2. ordered' = <<>> /\ pending' = unit'
    BY <1>1 DEF orderVars, OrderedSoFar, Analyzing
  <1>3. CASE phase' # "order"
    BY <1>1, <1>2, <1>3 DEF OrderedSoFar, Analyzing, Analyzed
  <1>4. CASE phase' = "order"
    <2>1. AnalysisInv'
      BY CollectKeeps, ValidateKeeps, VisitKeeps
    <2>2. unit' \in Units /\ WellFormed'
      BY <1>4, <2>1 DEF AnalysisInv, Compiled, Verdict, Analyzed
    <2>3. unit \in Units /\ WellFormed
      BY <1>1, <2>2, SameUnit
    <2>4. UnitFits /\ DistinctTo(Len(unit))
      BY <2>3, UnitTyped, WellFormedIs
    <2>5. /\ Ordering(<<>>, unit) /\ ToSet(<<>>) \union NamesIn(unit) = Declared
          /\ Len(<<>>) + Len(unit) = Len(unit) /\ unit # <<>>
      BY <2>4, OrderOpens DEF UnitFits
    <2>6. Declared' = Declared
      BY <1>1, SameUnit
    <2>7. Ordering(ordered, pending)'
      <3>1. (\A i : i \notin 1..Len(ordered))'
        BY <1>2
      <3>2. BasesOut(ordered)'
        BY <3>1 DEF BasesOut
      <3>3. QED
        BY <1>1, <1>2, <2>5, <2>6, <3>2 DEF Ordering, DistinctIn, NamesIn
    <2>8. (ToSet(ordered) \union NamesIn(pending) = Declared)'
      BY <1>1, <1>2, <2>5, <2>6 DEF NamesIn
    <2>9. QED
      BY <1>1, <1>2, <1>4, <2>5, <2>7, <2>8 DEF OrderedSoFar, Analyzing
  <1>5. QED
    BY <1>3, <1>4

LEMMA OrderedSame ==
    ASSUME OrderedSoFar, phase \in Analyzed \ {"order"}, phase' \in Analyzed \ {"order"},
           unit' = unit, orderVars' = orderVars
    PROVE  OrderedSoFar'
  <1>1. ordered' = ordered /\ pending' = pending
    BY DEF orderVars
  <1>2. /\ Ordering(ordered, pending) /\ pending = <<>>
        /\ ToSet(ordered) \union NamesIn(pending) = Declared
        /\ Len(ordered) + Len(pending) = Len(unit)
    BY DEF OrderedSoFar
  <1>3. BasesOut(ordered) /\ \A c : Derived(c)' = Derived(c) /\ Base(c)' = Base(c)
    BY <1>2, SameUnit DEF Ordering
  <1>4. BasesOut(ordered)'
    BY <1>1, <1>3 DEF BasesOut
  <1>5. Declared' = Declared
    BY SameUnit
  <1>6. Ordering(ordered, pending)'
    BY <1>1, <1>2, <1>4, <1>5 DEF Ordering, DistinctIn, NamesIn
  <1>7. (ToSet(ordered) \union NamesIn(pending) = Declared)'
    BY <1>1, <1>2, <1>5 DEF NamesIn
  <1>8. QED
    BY <1>1, <1>2, <1>6, <1>7 DEF OrderedSoFar, Analyzing, Analyzed

-----------------------------------------------------------------------------
(* The chains of classes. *)

\* All the classes are out, each after its base.
Sorted ==
    /\ unit \in Units /\ WellFormed
    /\ ordered \in Seq(Declared) /\ IsInjective(ordered) /\ BasesOut(ordered)
    /\ ToSet(ordered) = Declared /\ Len(ordered) = Len(unit)

LEMMA SortedHolds ==
    ASSUME AnalysisInv, OrderedSoFar, phase \in Analyzed \ {"order"}
    PROVE  Sorted /\ pending = <<>>
  <1>1. /\ Ordering(ordered, pending) /\ pending = <<>>
        /\ ToSet(ordered) \union NamesIn(pending) = Declared
        /\ Len(ordered) + Len(pending) = Len(unit)
    BY DEF OrderedSoFar
  <1>2. NamesIn(pending) = {} /\ Len(pending) = 0
    <2>1. Len(pending) = 0 /\ 1..0 = {}
      BY <1>1
    <2>2. QED
      BY <2>1 DEF NamesIn
  <1>3. unit \in Units /\ WellFormed
    BY DEF AnalysisInv, Compiled, Verdict
  <1>4. Len(ordered) = Len(unit)
    <2>1. Len(ordered) \in Nat
      BY <1>1 DEF Ordering
    <2>2. QED
      BY <1>1, <1>2, <2>1
  <1>5. QED
    BY <1>1, <1>2, <1>3, <1>4 DEF Sorted, Ordering

Pos(c) == CHOOSE i \in 1..Len(unit) : ordered[i] = c

LEMMA PosIs ==
    ASSUME Sorted, NEW c \in Declared
    PROVE  /\ Pos(c) \in 1..Len(unit) /\ ordered[Pos(c)] = c
           /\ \A i \in 1..Len(unit) : ordered[i] = c => i = Pos(c)
  <1>1. DOMAIN ordered = 1..Len(unit)
    BY DEF Sorted
  <1>2. \E i \in 1..Len(unit) : ordered[i] = c
    BY <1>1 DEF Sorted, ToSet
  <1>3. Pos(c) \in 1..Len(unit) /\ ordered[Pos(c)] = c
    BY <1>2 DEF Pos
  <1>4. QED
    BY <1>1, <1>3 DEF Sorted, IsInjective

LEMMA BaseFacts ==
    ASSUME Sorted, NEW c \in Declared
    PROVE  /\ UnitFits /\ Len(unit) \in Nat \ {0}
           /\ Derived(c) => Base(c) \in Declared /\ Pos(Base(c)) < Pos(c)
  <1>1. UnitFits /\ Len(unit) \in Nat \ {0}
    BY UnitTyped DEF Sorted
  <1>2. ASSUME Derived(c) PROVE Base(c) \in Declared /\ Pos(Base(c)) < Pos(c)
    <2>1. Base(c) \in Declared
      BY <1>1, <1>2, WellFormedIs, BasesAre DEF Sorted
    <2>2. PICK p \in 1..Len(unit) : p = Pos(c) /\ ordered[p] = c
      BY PosIs
    <2>3. PICK j \in 1..(p - 1) : ordered[j] = Base(c)
      BY <1>2, <2>2 DEF Sorted, BasesOut
    <2>4. j \in 1..Len(unit) /\ j < p
      BY <1>1, <2>2
    <2>5. j = Pos(Base(c))
      BY <2>1, <2>3, <2>4, PosIs
    <2>6. QED
      BY <2>1, <2>2, <2>4, <2>5
  <1>3. QED
    BY <1>1, <1>2

\* A way up from a class, and one up to the root.
Path(c, p) ==
    /\ p \in Seq(Declared) /\ p # <<>> /\ p[1] = c
    /\ \A i \in 1..(Len(p) - 1) : Derived(p[i]) /\ p[i + 1] = Base(p[i])

PathToRoot(c, p) == Path(c, p) /\ ~Derived(p[Len(p)])

LEMMA PathLonger ==
    ASSUME NEW c, NEW p, Path(c, p), NEW d \in Declared,
           Derived(p[Len(p)]), d = Base(p[Len(p)])
    PROVE  LET q == Append(p, d)
           IN  Path(c, q) /\ q[Len(q)] = d
  <1> DEFINE q == Append(p, d)
  <1>1. p \in Seq(Declared) /\ p # <<>>
    BY DEF Path
  <1>2. PICK n \in Nat : n = Len(p) /\ n # 0
    BY <1>1, EmptySeq
  <1>3. /\ q \in Seq(Declared) /\ Len(q) = n + 1 /\ q # <<>> /\ q[n + 1] = d
        /\ \A i \in 1..n : q[i] = p[i]
    BY <1>1, <1>2, AppendProperties
  <1> HIDE DEF q
  <1>4. ASSUME NEW i \in 1..n PROVE Derived(q[i]) /\ q[i + 1] = Base(q[i])
    <2>1. CASE i = n
      BY <1>2, <1>3, <2>1
    <2>2. CASE i # n
      <3>1. i \in 1..(n - 1) /\ i + 1 \in 1..n
        BY <2>2
      <3>2. Derived(p[i]) /\ p[i + 1] = Base(p[i])
        BY <1>2, <3>1 DEF Path
      <3>3. QED
        BY <1>3, <3>1, <3>2
    <2>3. QED
      BY <2>1, <2>2
  <1>5. q[1] = c
    BY <1>2, <1>3 DEF Path
  <1>6. Path(c, q)
    <2>1. Len(q) - 1 = n
      BY <1>3
    <2>2. QED
      BY <1>3, <1>4, <1>5, <2>1 DEF Path
  <1>7. QED
    BY <1>3, <1>6 DEF q

\* The longer and longer ways that Chain takes.
Up(g, c, n) ==
    g = [k \in 0..n |->
            IF k = 0 THEN <<c>>
            ELSE IF Derived(Last(g[k - 1]))
                 THEN Append(g[k - 1], Base(Last(g[k - 1])))
                 ELSE g[k - 1]]

LEMMA ChainUp ==
    ASSUME NEW c, NEW n \in Nat, Len(unit) - 1 = n
    PROVE  \E g : Up(g, c, n) /\ Chain(c) = g[n]
  <1> DEFINE Good == {m \in Nat : \E g : Up(g, c, m)}
  <1>1. 0 \in Good
    <2>1. Up([k \in 0..0 |-> <<c>>], c, 0)
      BY DEF Up
    <2>2. QED
      BY <2>1
  <1>2. ASSUME NEW m \in Nat, m \in Good PROVE m + 1 \in Good
    <2>1. PICK g : Up(g, c, m)
      BY <1>2
    <2> DEFINE step(s) == IF Derived(Last(s)) THEN Append(s, Base(Last(s))) ELSE s
               h == [k \in 0..(m + 1) |-> IF k = m + 1 THEN step(g[m]) ELSE g[k]]
    <2>2. ASSUME NEW k \in 0..(m + 1)
          PROVE  h[k] = IF k = 0 THEN <<c>> ELSE step(h[k - 1])
      <3> HIDE DEF step
      <3>1. CASE k = m + 1
        BY <3>1
      <3>2. CASE k # m + 1
        <4>1. k \in 0..m /\ h[k] = g[k]
          BY <3>2
        <4>2. k # 0 => k - 1 \in 0..(m + 1) /\ k - 1 # m + 1
          BY <4>1
        <4>3. k # 0 => h[k - 1] = g[k - 1]
          BY <4>2
        <4>4. g[k] = IF k = 0 THEN <<c>> ELSE step(g[k - 1])
          BY <2>1, <4>1 DEF Up, step
        <4>5. QED
          BY <4>1, <4>3, <4>4
      <3>3. QED
        BY <3>1, <3>2
    <2>3. h = [k \in 0..(m + 1) |-> IF k = 0 THEN <<c>> ELSE step(h[k - 1])]
      <3> HIDE DEF step
      <3>1. QED
        BY <2>2
    <2>4. Up(h, c, m + 1)
      <3> HIDE DEF h
      <3>1. QED
        BY <2>3 DEF Up
    <2>5. QED
      <3> HIDE DEF h
      <3>1. QED
        BY <2>4
  <1>3. n \in Good
    <2> HIDE DEF Good
    <2>1. QED
      BY <1>1, <1>2, Inductive
  <1> DEFINE g == CHOOSE u : Up(u, c, n)
  <1>4. Up(g, c, n)
    BY <1>3
  <1>5. Chain(c) = g[n]
    BY DEF Chain, Up
  <1>6. QED
    BY <1>4, <1>5

\* The chain of a class is a way up to the root.
LEMMA ChainIs ==
    ASSUME Sorted, NEW c \in Declared
    PROVE  PathToRoot(c, Chain(c))
  <1>1. UnitFits /\ Len(unit) \in Nat \ {0}
    BY BaseFacts
  <1>2. PICK n \in Nat : n = Len(unit) - 1
    BY <1>1
  <1>3. PICK g : Up(g, c, n) /\ Chain(c) = g[n]
    BY <1>2, ChainUp
  <1> DEFINE Fit(k) == /\ Path(c, g[k])
                       /\ Derived(g[k][Len(g[k])]) => Pos(g[k][Len(g[k])]) + k <= n + 1
             Good == {k \in Nat : k <= n => Fit(k)}
  <1>4. 0 \in Good
    <2>1. PICK p : p = g[0] /\ p = <<c>>
      BY <1>3 DEF Up
    <2>2. Path(c, p) /\ p[Len(p)] = c
      <3>1. p \in Seq(Declared) /\ p # <<>> /\ Len(p) = 1 /\ p[1] = c
        BY <2>1
      <3>2. 1..(Len(p) - 1) = {}
        BY <3>1
      <3>3. QED
        BY <3>1, <3>2 DEF Path
    <2>3. Pos(c) + 0 <= n + 1
      BY <1>1, <1>2, PosIs
    <2>4. QED
      BY <2>1, <2>2, <2>3
  <1>5. ASSUME NEW k \in Nat, k \in Good PROVE k + 1 \in Good
    <2>1. CASE k + 1 <= n
      <3>1. PICK p : p = g[k] /\ Path(c, p)
                     /\ (Derived(p[Len(p)]) => Pos(p[Len(p)]) + k <= n + 1)
        BY <1>5, <2>1
      <3>2. PICK q : q = g[k + 1]
        OBVIOUS
      <3>3. q = IF Derived(Last(p)) THEN Append(p, Base(Last(p))) ELSE p
        <4>1. k + 1 \in 0..n /\ k + 1 # 0 /\ k + 1 - 1 = k
          BY <2>1
        <4>2. \A j \in 0..n : \A i : i = j - 1 =>
                g[j] = IF j = 0 THEN <<c>>
                       ELSE IF Derived(Last(g[i])) THEN Append(g[i], Base(Last(g[i])))
                            ELSE g[i]
          BY <1>3 DEF Up
        <4>3. g[k + 1] = IF Derived(Last(g[k])) THEN Append(g[k], Base(Last(g[k])))
                         ELSE g[k]
          BY <4>1, <4>2
        <4>4. QED
          BY <3>1, <3>2, <4>3
      <3>4. PICK d \in Declared : d = p[Len(p)]
        <4>1. p \in Seq(Declared) /\ Len(p) \in 1..Len(p)
          BY <3>1, EmptySeq DEF Path
        <4>2. QED
          BY <4>1
      <3>5. CASE Derived(d)
        <4>1. q = Append(p, Base(d))
          BY <3>3, <3>4, <3>5 DEF Last
        <4>2. PICK b \in Declared : b = Base(d) /\ Pos(b) < Pos(d)
          BY <3>5, BaseFacts
        <4>3. Path(c, q) /\ q[Len(q)] = b
          BY <3>1, <3>4, <3>5, <4>1, <4>2, PathLonger
        <4>4. Pos(b) \in Int /\ Pos(d) \in Int
          BY <1>1, PosIs
        <4>5. Pos(b) + (k + 1) <= n + 1
          BY <3>1, <3>4, <3>5, <4>2, <4>4
        <4>6. QED
          BY <3>2, <4>3, <4>5
      <3>6. CASE ~Derived(d)
        <4>1. q = p
          BY <3>3, <3>4, <3>6 DEF Last
        <4>2. Path(c, q) /\ ~Derived(q[Len(q)])
          BY <3>1, <3>4, <3>6, <4>1
        <4>3. Fit(k + 1)
          BY <3>2, <4>2
        <4>4. QED
          BY <4>3
      <3>7. QED
        BY <3>5, <3>6
    <2>2. CASE ~(k + 1 <= n)
      BY <2>2
    <2>3. QED
      BY <2>1, <2>2
  <1>6. n \in Good
    <2> HIDE DEF Good
    <2>1. QED
      BY <1>4, <1>5, Inductive
  <1>7. PICK p : p = Chain(c) /\ Path(c, p)
                 /\ (Derived(p[Len(p)]) => Pos(p[Len(p)]) + n <= n + 1)
    BY <1>3, <1>6
  <1>8. ASSUME Derived(p[Len(p)]) PROVE FALSE
    <2>1. PICK d \in Declared : d = p[Len(p)]
      <3>1. p \in Seq(Declared) /\ Len(p) \in 1..Len(p)
        BY <1>7, EmptySeq DEF Path
      <3>2. QED
        BY <3>1
    <2>2. Base(d) \in Declared /\ Pos(Base(d)) < Pos(d)
      BY <1>8, <2>1, BaseFacts
    <2>3. Pos(d) \in 1..Len(unit) /\ Pos(Base(d)) \in 1..Len(unit)
      BY <2>2, PosIs
    <2>4. Pos(d) + n <= n + 1
      BY <1>7, <1>8, <2>1
    <2>5. QED
      BY <1>1, <2>2, <2>3, <2>4
  <1>9. QED
    BY <1>7, <1>8 DEF PathToRoot

\* There is one way up to the root.
LEMMA PathUnique ==
    ASSUME NEW c, NEW p, PathToRoot(c, p), NEW q, PathToRoot(c, q)
    PROVE  p = q
  <1>1. /\ p \in Seq(Declared) /\ q \in Seq(Declared) /\ p # <<>> /\ q # <<>>
        /\ p[1] = c /\ q[1] = c /\ ~Derived(p[Len(p)]) /\ ~Derived(q[Len(q)])
    BY DEF PathToRoot, Path
  <1>2. PICK n \in Nat : n = Len(p) /\ n # 0
    BY <1>1, EmptySeq
  <1>3. PICK m \in Nat : m = Len(q) /\ m # 0
    BY <1>1, EmptySeq
  <1>4. /\ \A i \in 1..(n - 1) : Derived(p[i]) /\ p[i + 1] = Base(p[i])
        /\ \A i \in 1..(m - 1) : Derived(q[i]) /\ q[i + 1] = Base(q[i])
    BY <1>2, <1>3 DEF PathToRoot, Path
  <1> DEFINE differ == {i \in Nat : i \in 1..n /\ i \in 1..m /\ p[i] # q[i]}
  <1>5. differ = {}
    <2>1. SUFFICES ASSUME differ # {} PROVE FALSE
      OBVIOUS
    <2>2. PICK i \in differ : \A j \in differ : i <= j
      <3>1. differ \in SUBSET Nat
        OBVIOUS
      <3>2. QED
        <4> HIDE DEF differ
        <4>1. QED
          BY <2>1, <3>1, LeastExists
    <2>3. i \in 1..n /\ i \in 1..m /\ p[i] # q[i] /\ i # 1
      BY <1>1
    <2>4. PICK j \in Nat : i = j + 1 /\ j \in 1..(n - 1) /\ j \in 1..(m - 1)
                           /\ j \in 1..n /\ j \in 1..m
      BY <2>3
    <2>5. p[j] = q[j]
      BY <2>2, <2>4
    <2>6. p[j + 1] = q[j + 1]
      BY <1>4, <2>4, <2>5
    <2>7. QED
      BY <2>3, <2>4, <2>6
  <1>6. \A i \in Nat : i \in 1..n /\ i \in 1..m => p[i] = q[i]
    BY <1>5
  <1>7. ~(n < m)
    <2>1. ASSUME n < m PROVE FALSE
      <3>1. n \in 1..(m - 1) /\ n \in 1..n /\ n \in 1..m
        BY <1>2, <2>1
      <3>2. QED
        BY <1>1, <1>2, <1>4, <1>6, <3>1
    <2>2. QED
      BY <2>1
  <1>8. ~(m < n)
    <2>1. ASSUME m < n PROVE FALSE
      <3>1. m \in 1..(n - 1) /\ m \in 1..n /\ m \in 1..m
        BY <1>3, <2>1
      <3>2. QED
        BY <1>1, <1>3, <1>4, <1>6, <3>1
    <2>2. QED
      BY <2>1
  <1>9. n = m
    BY <1>7, <1>8
  <1>10. \A i \in 1..Len(p) : p[i] = q[i]
    BY <1>2, <1>6, <1>9
  <1>11. QED
    BY <1>1, <1>2, <1>3, <1>9, <1>10, SeqEqual

\* The chain, by its elements.
LEMMA ChainFacts ==
    ASSUME Sorted, NEW c \in Declared, NEW n, n = Len(Chain(c))
    PROVE  /\ n \in Nat \ {0} /\ Chain(c) \in Seq(Declared)
           /\ DOMAIN Chain(c) = 1..n /\ Chain(c)[1] = c
           /\ \A i \in 1..n : Chain(c)[i] \in Declared
           /\ \A i \in 1..n : Derived(Chain(c)[i]) <=> i # n
           /\ \A i \in 1..n : i # n => i + 1 \in 1..n /\ Chain(c)[i + 1] = Base(Chain(c)[i])
           /\ \A i \in 1..n : Chain(c)[i] \in ToSet(Chain(c))
  <1>1. PICK p : p = Chain(c) /\ PathToRoot(c, p)
    BY ChainIs
  <1>2. p \in Seq(Declared) /\ p # <<>> /\ p[1] = c /\ ~Derived(p[n]) /\ n = Len(p)
    BY <1>1 DEF PathToRoot, Path
  <1>3. n \in Nat \ {0} /\ DOMAIN p = 1..n
    BY <1>2, EmptySeq
  <1>4. \A i \in 1..(n - 1) : Derived(p[i]) /\ p[i + 1] = Base(p[i])
    BY <1>1, <1>2 DEF PathToRoot, Path
  <1>5. \A i \in 1..n : p[i] \in Declared
    BY <1>2
  <1>6. \A i \in 1..n : i # n => i \in 1..(n - 1) /\ i + 1 \in 1..n
    BY <1>3
  <1>7. \A i \in 1..n : p[i] \in ToSet(p)
    BY <1>3 DEF ToSet
  <1>8. QED
    BY <1>1, <1>2, <1>3, <1>4, <1>5, <1>6, <1>7

\* The chain of a derived class goes on with that of its base.
LEMMA ChainStep ==
    ASSUME Sorted, NEW c \in Declared
    PROVE  /\ ~Derived(c) => Chain(c) = <<c>>
           /\ Derived(c) => /\ Len(Chain(c)) = Len(Chain(Base(c))) + 1
                            /\ \A i \in 1..Len(Chain(Base(c))) :
                                  Chain(c)[i + 1] = Chain(Base(c))[i]
  <1>1. ASSUME ~Derived(c) PROVE Chain(c) = <<c>>
    <2>1. PICK p : p = <<c>>
      OBVIOUS
    <2>2. p \in Seq(Declared) /\ p # <<>> /\ Len(p) = 1 /\ p[1] = c
      BY <2>1
    <2>3. 1..(Len(p) - 1) = {}
      BY <2>2
    <2>4. PathToRoot(c, p)
      BY <1>1, <2>2, <2>3 DEF PathToRoot, Path
    <2>5. QED
      BY <2>1, <2>4, ChainIs, PathUnique
  <1>2. ASSUME Derived(c)
        PROVE  /\ Len(Chain(c)) = Len(Chain(Base(c))) + 1
               /\ \A i \in 1..Len(Chain(Base(c))) : Chain(c)[i + 1] = Chain(Base(c))[i]
    <2>1. PICK b \in Declared : b = Base(c)
      BY <1>2, BaseFacts
    <2>2. PICK n, p : n = Len(Chain(b)) /\ p = Chain(b)
      OBVIOUS
    <2>3. /\ n \in Nat \ {0} /\ p \in Seq(Declared) /\ n = Len(p) /\ p[1] = b
          /\ \A i \in 1..n : Derived(p[i]) <=> i # n
          /\ \A i \in 1..n : i # n => p[i + 1] = Base(p[i])
      BY <2>2, ChainFacts
    <2> DEFINE q == <<c>> \o p
    <2>4. /\ q \in Seq(Declared) /\ Len(q) = n + 1 /\ q[1] = c
          /\ \A i \in 1..n : q[i + 1] = p[i]
      <3>1. <<c>> \in Seq(Declared) /\ Len(<<c>>) = 1 /\ <<c>>[1] = c
        OBVIOUS
      <3>2. /\ q \in Seq(Declared) /\ Len(q) = 1 + n
            /\ \A i \in 1..(1 + n) : q[i] = IF i <= 1 THEN <<c>>[i] ELSE p[i - 1]
        BY <2>3, <3>1, ConcatProperties
      <3> HIDE DEF q
      <3>3. \A i \in 1..n : i + 1 \in 1..(1 + n) /\ ~(i + 1 <= 1) /\ i + 1 - 1 = i
        BY <2>3
      <3>4. 1 \in 1..(1 + n)
        BY <2>3
      <3>5. QED
        BY <2>3, <3>1, <3>2, <3>3, <3>4
    <2> HIDE DEF q
    <2>5. ASSUME NEW i \in 1..n PROVE Derived(q[i]) /\ q[i + 1] = Base(q[i])
      <3>1. CASE i = 1
        BY <1>2, <2>1, <2>3, <2>4, <3>1
      <3>2. CASE i # 1
        <4>1. PICK j \in 1..n : i = j + 1 /\ j # n
          <5>1. i - 1 \in 1..n /\ i = (i - 1) + 1 /\ i - 1 # n
            BY <2>3, <3>2
          <5>2. QED
            BY <5>1
        <4>2. q[i] = p[j] /\ q[i + 1] = p[j + 1]
          BY <2>4, <4>1
        <4>3. QED
          BY <2>3, <4>1, <4>2
      <3>3. QED
        BY <3>1, <3>2
    <2>6. ~Derived(q[n + 1])
      <3>1. n \in 1..n
        BY <2>3
      <3>2. QED
        BY <2>3, <2>4, <3>1
    <2>7. PathToRoot(c, q)
      <3>1. q # <<>> /\ Len(q) - 1 = n
        BY <2>3, <2>4
      <3>2. QED
        BY <2>4, <2>5, <2>6, <3>1 DEF PathToRoot, Path
    <2>8. Chain(c) = q
      BY <2>7, ChainIs, PathUnique
    <2>9. QED
      BY <2>1, <2>2, <2>4, <2>8
  <1>3. QED
    BY <1>1, <1>2

\* What holds of a class, and of the base of each it holds of, holds of the
\* chain.
LEMMA UpTheChain ==
    ASSUME Sorted, NEW c \in Declared, NEW S, c \in S,
           \A d \in S : d \in Declared /\ Derived(d) => Base(d) \in S
    PROVE  ToSet(Chain(c)) \subseteq S
  <1>1. PICK n, p : n = Len(Chain(c)) /\ p = Chain(c)
    OBVIOUS
  <1>2. /\ n \in Nat \ {0} /\ DOMAIN p = 1..n /\ p[1] = c
        /\ \A i \in 1..n : p[i] \in Declared
        /\ \A i \in 1..n : Derived(p[i]) <=> i # n
        /\ \A i \in 1..n : i # n => p[i + 1] = Base(p[i])
    BY <1>1, ChainFacts
  <1> DEFINE out == {i \in Nat : i \in 1..n /\ p[i] \notin S}
  <1>3. out = {}
    <2>1. SUFFICES ASSUME out # {} PROVE FALSE
      OBVIOUS
    <2>2. PICK i \in out : \A j \in out : i <= j
      <3>1. out \in SUBSET Nat
        OBVIOUS
      <3>2. QED
        <4> HIDE DEF out
        <4>1. QED
          BY <2>1, <3>1, LeastExists
    <2>3. i \in 1..n /\ p[i] \notin S /\ i # 1
      BY <1>2
    <2>4. PICK j \in 1..n : i = j + 1 /\ j # n
      <3>1. i - 1 \in 1..n /\ i = (i - 1) + 1 /\ i - 1 # n
        BY <1>2, <2>3
      <3>2. QED
        BY <3>1
    <2>5. p[j] \in S
      <3>1. j \notin out
        BY <2>2, <2>4
      <3>2. QED
        BY <2>4, <3>1
    <2>6. QED
      BY <1>2, <2>3, <2>4, <2>5
  <1>4. \A i \in 1..n : p[i] \in S
    BY <1>3
  <1>5. QED
    BY <1>1, <1>2, <1>4 DEF ToSet

LEMMA OnTheChain ==
    ASSUME Sorted, NEW c \in Declared, NEW d \in ToSet(Chain(c))
    PROVE  /\ d \in Declared
           /\ Derived(d) => Base(d) \in ToSet(Chain(c))
           /\ ToSet(Chain(d)) \subseteq ToSet(Chain(c))
  <1>1. ASSUME NEW e \in ToSet(Chain(c))
        PROVE  e \in Declared /\ (Derived(e) => Base(e) \in ToSet(Chain(c)))
    <2>1. PICK n, p : n = Len(Chain(c)) /\ p = Chain(c)
      OBVIOUS
    <2>2. /\ DOMAIN p = 1..n
          /\ \A i \in 1..n : p[i] \in Declared
          /\ \A i \in 1..n : Derived(p[i]) <=> i # n
          /\ \A i \in 1..n : i # n => i + 1 \in 1..n /\ p[i + 1] = Base(p[i])
          /\ \A i \in 1..n : p[i] \in ToSet(p)
      BY <2>1, ChainFacts
    <2>3. PICK i \in 1..n : e = p[i]
      BY <2>1, <2>2 DEF ToSet
    <2>4. QED
      BY <2>1, <2>2, <2>3
  <1>2. ToSet(Chain(d)) \subseteq ToSet(Chain(c))
    BY <1>1, UpTheChain
  <1>3. QED
    BY <1>1, <1>2

\* A class is on its own chain, and so is its base.
LEMMA OwnChain ==
    ASSUME Sorted, NEW c \in Declared
    PROVE  /\ c \in ToSet(Chain(c))
           /\ ToSet(Chain(c)) = {c} \union IF Derived(c) THEN ToSet(Chain(Base(c))) ELSE {}
  <1>1. PICK n, p : n = Len(Chain(c)) /\ p = Chain(c)
    OBVIOUS
  <1>2. n \in Nat \ {0} /\ p[1] = c /\ DOMAIN p = 1..n /\ \A i \in 1..n : p[i] \in ToSet(p)
    BY <1>1, ChainFacts
  <1>3. c \in ToSet(p)
    BY <1>2
  <1>4. CASE ~Derived(c)
    <2>1. p = <<c>>
      BY <1>1, <1>4, ChainStep
    <2>2. DOMAIN p = {1}
      BY <2>1
    <2>3. ToSet(p) = {c}
      BY <1>2, <2>2 DEF ToSet
    <2>4. QED
      BY <1>1, <1>4, <2>3
  <1>5. CASE Derived(c)
    <2>1. PICK b \in Declared : b = Base(c)
      BY <1>5, BaseFacts
    <2>2. PICK k, q : k = Len(Chain(b)) /\ q = Chain(b)
      OBVIOUS
    <2>3. n = k + 1 /\ (\A i \in 1..k : p[i + 1] = q[i]) /\ DOMAIN q = 1..k /\ k \in Nat
      BY <1>1, <1>5, <2>1, <2>2, ChainStep, ChainFacts
    <2>4. \A i \in 1..n : i = 1 \/ \E j \in 1..k : i = j + 1
      <3>1. \A i \in 1..n : i = 1 \/ (i - 1 \in 1..k /\ i = (i - 1) + 1)
        BY <2>3
      <3>2. QED
        BY <3>1
    <2>5. \A j \in 1..k : j + 1 \in 1..n
      BY <2>3
    <2>6. ToSet(p) = {c} \union ToSet(q)
      <3>1. ToSet(p) = {p[i] : i \in 1..n} /\ ToSet(q) = {q[i] : i \in 1..k}
        BY <1>2, <2>3 DEF ToSet
      <3>2. ASSUME NEW i \in 1..n, i # 1 PROVE p[i] \in ToSet(q)
        <4>1. PICK j \in 1..k : i = j + 1
          BY <2>4, <3>2
        <4>2. p[i] = q[j]
          BY <2>3, <4>1
        <4>3. QED
          BY <3>1, <4>2
      <3>3. \A j \in 1..k : q[j] \in ToSet(p)
        BY <2>3, <2>5, <3>1
      <3>4. ASSUME NEW x \in ToSet(p) PROVE x = c \/ x \in ToSet(q)
        <4>1. PICK i \in 1..n : x = p[i]
          BY <3>1
        <4>2. QED
          BY <1>2, <3>2, <4>1
      <3>5. ASSUME NEW x \in ToSet(q) PROVE x \in ToSet(p)
        BY <3>1, <3>3
      <3>6. QED
        BY <1>3, <3>4, <3>5
    <2>7. QED
      BY <1>1, <1>3, <1>5, <2>1, <2>2, <2>6
  <1>6. QED
    BY <1>4, <1>5

\* Virtual and NearestBody, one class at a time.
LEMMA VirtualIs ==
    ASSUME Sorted, NEW c \in Declared, NEW m
    PROVE  Virtual(c, m) <=> \/ Declares(c, m, {"pure", "overridable"})
                             \/ Derived(c) /\ Virtual(Base(c), m)
  <1>1. ToSet(Chain(c)) = {c} \union IF Derived(c) THEN ToSet(Chain(Base(c))) ELSE {}
    BY OwnChain
  <1>2. QED
    BY <1>1 DEF Virtual

LEMMA NearestIs ==
    ASSUME Sorted, NEW c \in Declared, NEW m
    PROVE  NearestBody(c, m) =
             IF Declares(c, m, {"plain", "overridable"}) /\ Virtual(c, m) THEN c
             ELSE IF Derived(c) THEN NearestBody(Base(c), m) ELSE NoClass
  <1> DEFINE Has(d) == Declares(d, m, {"plain", "overridable"}) /\ Virtual(d, m)
  <1>1. PICK n, p : n = Len(Chain(c)) /\ p = Chain(c)
    OBVIOUS
  <1>2. n \in Nat \ {0} /\ p[1] = c /\ DOMAIN p = 1..n
    BY <1>1, ChainFacts
  <1>3. PICK B : B = Bodies(c, m)
    OBVIOUS
  <1>4. B = {i \in 1..n : Has(p[i])}
    BY <1>1, <1>2, <1>3 DEF Bodies
  <1>5. NearestBody(c, m) = IF B = {} THEN NoClass ELSE p[Min(B)]
    BY <1>1, <1>3 DEF NearestBody
  <1>6. B \in SUBSET Nat
    BY <1>4
  <1> HIDE DEF Has
  <1>7. CASE Has(c)
    <2>1. 1 \in B
      BY <1>2, <1>4, <1>7
    <2>2. Min(B) \in B /\ Min(B) <= 1
      BY <1>6, <2>1, MinIs
    <2>3. Min(B) = 1
      <3>1. Min(B) \in 1..n
        BY <1>4, <2>2
      <3>2. QED
        BY <2>2, <3>1
    <2>4. NearestBody(c, m) = c
      BY <1>2, <1>5, <2>1, <2>3
    <2>5. QED
      BY <1>7, <2>4 DEF Has
  <1>8. CASE ~Has(c) /\ ~Derived(c)
    <2>1. n = 1
      <3>1. p = <<c>>
        BY <1>1, <1>8, ChainStep
      <3>2. QED
        BY <1>1, <3>1
    <2>2. B = {}
      BY <1>2, <1>4, <1>8, <2>1
    <2>3. QED
      BY <1>5, <1>8, <2>2 DEF Has
  <1>9. CASE ~Has(c) /\ Derived(c)
    <2>1. PICK b \in Declared : b = Base(c)
      BY <1>9, BaseFacts
    <2>2. PICK k, q : k = Len(Chain(b)) /\ q = Chain(b)
      OBVIOUS
    <2>3. n = k + 1 /\ (\A i \in 1..k : p[i + 1] = q[i]) /\ DOMAIN q = 1..k /\ k \in Nat
      BY <1>1, <1>9, <2>1, <2>2, ChainStep, ChainFacts
    <2>4. PICK A : A = Bodies(b, m)
      OBVIOUS
    <2>5. A = {i \in 1..k : Has(q[i])}
      BY <2>2, <2>3, <2>4 DEF Bodies, Has
    <2>6. NearestBody(b, m) = IF A = {} THEN NoClass ELSE q[Min(A)]
      BY <2>2, <2>4 DEF NearestBody
    <2>7. \A i \in A : i \in 1..k /\ i + 1 \in B
      <3>1. \A i \in 1..k : i + 1 \in 1..n
        BY <2>3
      <3>2. QED
        BY <1>4, <2>3, <2>5, <3>1
    <2>8. \A i \in B : \E j \in A : i = j + 1
      <3>1. \A i \in 1..n : i # 1 => i - 1 \in 1..k /\ i = (i - 1) + 1
        BY <2>3
      <3>2. ASSUME NEW i \in B PROVE i \in 1..n /\ i # 1 /\ Has(p[i])
        BY <1>2, <1>4, <1>9
      <3>3. ASSUME NEW i \in B PROVE \E j \in A : i = j + 1
        <4>1. PICK j \in 1..k : i = j + 1
          BY <3>1, <3>2
        <4>2. QED
          BY <2>3, <2>5, <3>2, <4>1
      <3>4. QED
        BY <3>3
    <2>9. CASE A = {}
      <3>1. B = {}
        BY <2>8, <2>9
      <3>2. QED
        BY <1>5, <1>9, <2>1, <2>6, <2>9, <3>1 DEF Has
    <2>10. CASE A # {}
      <3>1. A \in SUBSET Nat /\ B # {}
        BY <2>5, <2>7, <2>10
      <3>2. PICK a \in A : a = Min(A) /\ \A i \in A : a <= i
        BY <2>10, <3>1, MinIs
      <3>3. PICK e \in B : e = Min(B) /\ \A i \in B : e <= i
        BY <1>6, <3>1, MinIs
      <3>4. PICK j \in A : e = j + 1
        BY <2>8
      <3>5. a + 1 \in B /\ a \in 1..k /\ j \in 1..k
        BY <2>7
      <3>6. a <= j /\ e <= a + 1
        BY <3>2, <3>3, <3>5
      <3>7. j = a
        BY <3>4, <3>5, <3>6
      <3>8. p[e] = q[a]
        BY <2>3, <3>4, <3>5, <3>7
      <3>9. QED
        BY <1>5, <1>9, <2>1, <2>6, <2>10, <3>1, <3>2, <3>3, <3>8 DEF Has
    <2>11. QED
      BY <2>9, <2>10
  <1>10. QED
    BY <1>7, <1>8, <1>9

\* What is virtual up the chain is virtual; so without that, there is no body.
LEMMA NearestNone ==
    ASSUME Sorted, NEW c \in Declared, NEW m, ~Virtual(c, m)
    PROVE  NearestBody(c, m) = NoClass
  <1>1. ASSUME NEW i \in DOMAIN Chain(c) PROVE ~Virtual(Chain(c)[i], m)
    <2>1. PICK d \in ToSet(Chain(c)) : d = Chain(c)[i]
      BY DEF ToSet
    <2>2. ToSet(Chain(d)) \subseteq ToSet(Chain(c))
      BY OnTheChain
    <2>3. ~Virtual(d, m)
      BY <2>2 DEF Virtual
    <2>4. QED
      BY <2>1, <2>3
  <1>2. Bodies(c, m) = {}
    BY <1>1 DEF Bodies
  <1>3. QED
    BY <1>2 DEF NearestBody

\* What NearestBody finds is a declared class.
LEMMA NearestTyped ==
    ASSUME Sorted, NEW c \in Declared, NEW m
    PROVE  NearestBody(c, m) \in Declared \union {NoClass}
  <1>1. PICK n, p : n = Len(Chain(c)) /\ p = Chain(c)
    OBVIOUS
  <1>2. DOMAIN p = 1..n /\ \A i \in 1..n : p[i] \in Declared
    BY <1>1, ChainFacts
  <1>3. PICK B : B = Bodies(c, m)
    OBVIOUS
  <1>4. B \subseteq 1..n
    BY <1>1, <1>2, <1>3 DEF Bodies
  <1>5. CASE B = {}
    BY <1>3, <1>5 DEF NearestBody
  <1>6. CASE B # {}
    <2>1. Min(B) \in B
      BY <1>4, <1>6, MinIs
    <2>2. QED
      BY <1>1, <1>2, <1>3, <1>4, <1>6, <2>1 DEF NearestBody
  <1>7. QED
    BY <1>5, <1>6

-----------------------------------------------------------------------------
(* The method tables. *)

LEMMA PrefixIs ==
    ASSUME NEW S, NEW s \in Seq(S), NEW t \in Seq(S)
    PROVE  IsPrefix(s, t) <=> Len(s) <= Len(t) /\ \A i \in 1..Len(s) : s[i] = t[i]
  <1>1. PICK n \in Nat : n = Len(s)
    BY LenProperties
  <1>2. PICK k \in Nat : k = Len(t)
    BY LenProperties
  <1>3. CASE n <= k
    <2>1. \A i \in 1..n : s[i] \in S /\ t[i] \in S
      BY <1>1, <1>2, <1>3
    <2>2. /\ SubSeq(s, 1, n) \in Seq(S) /\ SubSeq(t, 1, n) \in Seq(S)
          /\ Len(SubSeq(s, 1, n)) = n /\ Len(SubSeq(t, 1, n)) = n
          /\ \A i \in 1..n : SubSeq(s, 1, n)[i] = s[i] /\ SubSeq(t, 1, n)[i] = t[i]
      <3>1. \A i \in 1..n : 1 + i - 1 = i
        OBVIOUS
      <3>2. n - 1 + 1 = n /\ (~(1 <= n) => n = 0)
        OBVIOUS
      <3>3. QED
        BY <2>1, <3>1, <3>2, SubSeqProperties
    <2>3. SubSeq(s, 1, n) = SubSeq(t, 1, n) <=> \A i \in 1..n : s[i] = t[i]
      <3>1. ASSUME \A i \in 1..n : s[i] = t[i] PROVE SubSeq(s, 1, n) = SubSeq(t, 1, n)
        <4>1. \A i \in 1..n : SubSeq(s, 1, n)[i] = SubSeq(t, 1, n)[i]
          BY <2>2, <3>1
        <4>2. QED
          BY <2>2, <4>1, SeqEqual
      <3>2. QED
        BY <2>2, <3>1
    <2>4. QED
      BY <1>1, <1>2, <1>3, <2>3 DEF IsPrefix
  <1>4. CASE ~(n <= k)
    BY <1>1, <1>2, <1>4 DEF IsPrefix
  <1>5. QED
    BY <1>3, <1>4

\* A class declares a method once.
LEMMA MethodsAre ==
    ASSUME Sorted, NEW c \in Declared, NEW n, n = Len(Decl(c).methods)
    PROVE  /\ n \in Nat /\ DOMAIN Decl(c).methods = 1..n
           /\ \A j \in 1..n : /\ Decl(c).methods[j].name \in Methods
                              /\ Decl(c).methods[j].kind \in Kinds
           /\ \A i, j \in 1..n :
                 Decl(c).methods[i].name = Decl(c).methods[j].name => i = j
  <1>1. UnitFits
    BY BaseFacts
  <1>2. PICK M, ms : /\ M = [name : Methods, kind : Kinds] /\ ms = Decl(c).methods
                     /\ ms \in Seq(M)
    BY <1>1, DeclTyped, DeclarationTyped
  <1>3. n \in Nat /\ DOMAIN ms = 1..n
    BY <1>2
  <1>4. \A j \in 1..n : ms[j].name \in Methods /\ ms[j].kind \in Kinds
    <2>1. \A j \in 1..n : ms[j] \in M
      BY <1>2, ElementOfSeq
    <2>2. QED
      BY <1>2, <2>1
  <1>5. Fits(Decl(c))
    BY <1>1, WellFormedIs, BasesAre DEF Sorted
  <1>6. QED
    BY <1>2, <1>3, <1>4, <1>5 DEF Fits

LEMMA TableToIs ==
    ASSUME NEW c, NEW n \in Nat, Len(Decl(c).methods) = n
    PROVE  TableTo(c) = [k \in 0..n |->
                           IF k = 0 THEN Inherited(c)
                           ELSE Slotted(c, TableTo(c)[k - 1], Decl(c).methods[k])]
  <1> DEFINE methods == Decl(c).methods
             Is(g, m) ==
               g = [k \in 0..m |-> IF k = 0 THEN Inherited(c)
                                   ELSE Slotted(c, g[k - 1], methods[k])]
             Good == {m \in Nat : \E g : Is(g, m)}
  <1>1. 0 \in Good
    <2>1. Is([k \in 0..0 |-> Inherited(c)], 0)
      OBVIOUS
    <2>2. QED
      BY <2>1
  <1>2. ASSUME NEW m \in Nat, m \in Good PROVE m + 1 \in Good
    <2> HIDE DEF methods
    <2>1. PICK g : Is(g, m)
      BY <1>2
    <2> DEFINE h == [k \in 0..(m + 1) |->
                       IF k = m + 1 THEN Slotted(c, g[m], methods[m + 1]) ELSE g[k]]
    <2>2. ASSUME NEW k \in 0..(m + 1)
          PROVE  h[k] = IF k = 0 THEN Inherited(c)
                        ELSE Slotted(c, h[k - 1], methods[k])
      <3>1. CASE k = m + 1
        BY <3>1
      <3>2. CASE k # m + 1
        <4>1. k \in 0..m /\ h[k] = g[k]
          BY <3>2
        <4>2. k # 0 => k - 1 \in 0..(m + 1) /\ k - 1 # m + 1
          BY <4>1
        <4>3. k # 0 => h[k - 1] = g[k - 1]
          BY <4>2
        <4>4. g[k] = IF k = 0 THEN Inherited(c) ELSE Slotted(c, g[k - 1], methods[k])
          BY <2>1, <4>1
        <4>5. QED
          BY <4>1, <4>3, <4>4
      <3>3. QED
        BY <3>1, <3>2
    <2>3. Is(h, m + 1)
      BY <2>2
    <2>4. \E u : Is(u, m + 1)
      <3> HIDE DEF h, Is
      <3>1. QED
        BY <2>3
    <2>5. QED
      <3> HIDE DEF Is
      <3>1. QED
        BY <2>4
  <1>3. n \in Good
    <2> HIDE DEF Good
    <2>1. QED
      BY <1>1, <1>2, Inductive
  <1>4. QED
    BY <1>3 DEF TableTo

\* What the first k methods declare.
DeclaresTo(c, m, kinds, k) ==
    \E j \in 1..k : Decl(c).methods[j].name = m /\ Decl(c).methods[j].kind \in kinds

\* What c has from its base.
FromBase(c, m) == IF Derived(c) THEN NearestBody(Base(c), m) ELSE NoClass

\* The table of c after its first k methods.
TableFits(c, k, s, p) ==
    /\ s \in Seq(Methods) /\ IsInjective(s)
    /\ p \in Seq(Declared \union {NoClass}) /\ Len(s) = Len(p)
    /\ \A m \in Methods :
          m \in ToSet(s) <=> \/ DeclaresTo(c, m, {"pure", "overridable"}, k)
                             \/ Derived(c) /\ Virtual(Base(c), m)
    /\ \A i \in 1..Len(s) :
          p[i] = IF DeclaresTo(c, s[i], {"plain", "overridable"}, k) THEN c
                 ELSE FromBase(c, s[i])
    /\ Derived(c) => IsPrefix(slots[Base(c)], s)

DeclaresNext(c, k, x, kinds) ==
    /\ x.name \in Methods /\ x.kind \in Kinds
    /\ ~DeclaresTo(c, x.name, kinds, k)
    /\ \A m : DeclaresTo(c, m, kinds, k + 1) <=>
                DeclaresTo(c, m, kinds, k) \/ (m = x.name /\ x.kind \in kinds)

LEMMA DeclaresOne ==
    ASSUME Sorted, NEW c \in Declared, NEW n \in Nat, n = Len(Decl(c).methods),
           NEW k \in 0..(n - 1), NEW x, x = Decl(c).methods[k + 1], NEW kinds
    PROVE  DeclaresNext(c, k, x, kinds)
  <1>1. k + 1 \in 1..n /\ 1..(k + 1) = (1..k) \union {k + 1}
        /\ \A j \in 1..k : j \in 1..n /\ j # k + 1
    OBVIOUS
  <1>2. PICK ms : ms = Decl(c).methods
    OBVIOUS
  <1>3. /\ DOMAIN ms = 1..n /\ \A j \in 1..n : ms[j].name \in Methods /\ ms[j].kind \in Kinds
        /\ \A i, j \in 1..n : ms[i].name = ms[j].name => i = j
    BY <1>2, MethodsAre
  <1>4. x = ms[k + 1] /\ x.name \in Methods /\ x.kind \in Kinds
    BY <1>1, <1>2, <1>3
  <1>5. ~DeclaresTo(c, x.name, kinds, k)
    BY <1>1, <1>2, <1>3, <1>4 DEF DeclaresTo
  <1>6. \A m : DeclaresTo(c, m, kinds, k + 1) <=>
                  DeclaresTo(c, m, kinds, k) \/ (m = x.name /\ x.kind \in kinds)
    BY <1>1, <1>2, <1>4 DEF DeclaresTo
  <1>7. QED
    BY <1>4, <1>5, <1>6 DEF DeclaresNext

LEMMA DeclaresAll ==
    ASSUME Sorted, NEW c \in Declared, NEW n, n = Len(Decl(c).methods), NEW m, NEW kinds
    PROVE  DeclaresTo(c, m, kinds, n) <=> Declares(c, m, kinds)
  BY MethodsAre DEF DeclaresTo, Declares

\* A method that gets a slot: at the end, if it has none.
Grows(s, p, m, s2, p2) ==
    /\ s2 = IF m \notin ToSet(s) THEN Append(s, m) ELSE s
    /\ p2 = IF m \notin ToSet(s) THEN Append(p, NoClass) ELSE p

LEMMA SlotGrown ==
    ASSUME Sorted, NEW c \in Declared, NEW k \in Nat, NEW s, NEW p, TableFits(c, k, s, p),
           Derived(c) => slots[Base(c)] \in Seq(Methods),
           NEW m \in Methods, NEW s2, NEW p2, Grows(s, p, m, s2, p2)
    PROVE  /\ s2 \in Seq(Methods) /\ IsInjective(s2) /\ Len(s2) = Len(p2)
           /\ p2 \in Seq(Declared \union {NoClass})
           /\ ToSet(s2) = ToSet(s) \union {m}
           /\ \A i \in 1..Len(s2) :
                 p2[i] = IF DeclaresTo(c, s2[i], {"plain", "overridable"}, k) /\ s2[i] # m
                         THEN c
                         ELSE IF s2[i] = m /\ DeclaresTo(c, m, {"plain", "overridable"}, k)
                              THEN p2[i] ELSE FromBase(c, s2[i])
           /\ Derived(c) => IsPrefix(slots[Base(c)], s2)
  <1> DEFINE D(x) == DeclaresTo(c, x, {"plain", "overridable"}, k)
  <1>1. /\ s \in Seq(Methods) /\ IsInjective(s)
        /\ p \in Seq(Declared \union {NoClass}) /\ Len(s) = Len(p)
        /\ \A i \in 1..Len(s) : p[i] = IF D(s[i]) THEN c ELSE FromBase(c, s[i])
        /\ Derived(c) => IsPrefix(slots[Base(c)], s)
    BY DEF TableFits
  <1> HIDE DEF D
  <1>2. CASE m \in ToSet(s)
    <2>1. s2 = s /\ p2 = p
      BY <1>2 DEF Grows
    <2>2. \A i \in 1..Len(s2) :
             p2[i] = IF D(s2[i]) /\ s2[i] # m THEN c
                     ELSE IF s2[i] = m /\ D(m) THEN p2[i] ELSE FromBase(c, s2[i])
      BY <1>1, <2>1
    <2>3. ToSet(s2) = ToSet(s) \union {m}
      BY <1>2, <2>1
    <2>4. QED
      BY <1>1, <2>1, <2>2, <2>3 DEF D
  <1>3. CASE m \notin ToSet(s)
    <2>1. s2 = Append(s, m) /\ p2 = Append(p, NoClass)
      BY <1>3 DEF Grows
    <2>2. PICK n \in Nat : n = Len(s) /\ n = Len(p)
      BY <1>1, LenProperties
    <2>3. /\ s2 \in Seq(Methods) /\ Len(s2) = n + 1 /\ IsInjective(s2)
          /\ ToSet(s2) = ToSet(s) \union {m}
          /\ \A i \in 1..n : s2[i] = s[i]
          /\ s2[n + 1] = m
      BY <1>1, <1>3, <2>1, <2>2, ElementAppended
    <2>4. /\ p2 \in Seq(Declared \union {NoClass}) /\ Len(p2) = n + 1
          /\ \A i \in 1..n : p2[i] = p[i]
          /\ p2[n + 1] = NoClass
      BY <1>1, <2>1, <2>2, AppendProperties
    <2>5. FromBase(c, m) = NoClass
      <3>1. CASE ~Derived(c)
        BY <3>1 DEF FromBase
      <3>2. CASE Derived(c)
        <4>1. Base(c) \in Declared /\ ~Virtual(Base(c), m)
          BY <1>3, <3>2, BaseFacts DEF TableFits
        <4>2. QED
          BY <3>2, <4>1, NearestNone DEF FromBase
      <3>3. QED
        BY <3>1, <3>2
    <2>6. ASSUME NEW i \in 1..(n + 1)
          PROVE  p2[i] = IF D(s2[i]) /\ s2[i] # m THEN c
                         ELSE IF s2[i] = m /\ D(m) THEN p2[i] ELSE FromBase(c, s2[i])
      <3>1. CASE i \in 1..n
        <4>1. s[i] # m
          BY <1>1, <1>3, <2>2, <3>1 DEF ToSet
        <4>2. QED
          BY <1>1, <2>2, <2>3, <2>4, <3>1, <4>1
      <3>2. CASE i = n + 1
        BY <2>3, <2>4, <2>5, <3>2
      <3>3. QED
        BY <3>1, <3>2
    <2>7. ASSUME Derived(c) PROVE IsPrefix(slots[Base(c)], s2)
      <3>1. PICK b \in Seq(Methods) : b = slots[Base(c)] /\ IsPrefix(b, s)
        BY <1>1, <2>7
      <3>2. Len(b) <= n /\ Len(b) \in Nat /\ \A i \in 1..Len(b) : b[i] = s[i]
        BY <1>1, <2>2, <3>1, PrefixIs
      <3>3. Len(b) <= Len(s2) /\ \A i \in 1..Len(b) : b[i] = s2[i]
        BY <2>3, <3>2
      <3>4. IsPrefix(b, s2)
        BY <2>3, <3>3, PrefixIs
      <3>5. QED
        BY <3>1, <3>4
    <2>8. QED
      BY <2>3, <2>4, <2>6, <2>7 DEF D
  <1>4. QED
    BY <1>2, <1>3

LEMMA SlotOfIs ==
    ASSUME NEW s \in Seq(Methods), IsInjective(s), NEW m \in ToSet(s)
    PROVE  /\ SlotOf(s, m) \in 1..Len(s)
           /\ \A i \in 1..Len(s) : s[i] = m <=> i = SlotOf(s, m)
  <1>1. DOMAIN s = 1..Len(s)
    OBVIOUS
  <1>2. \E i \in DOMAIN s : s[i] = m
    BY DEF ToSet
  <1>3. SlotOf(s, m) \in DOMAIN s /\ s[SlotOf(s, m)] = m
    BY <1>2 DEF SlotOf
  <1>4. QED
    BY <1>1, <1>3 DEF IsInjective

LEMMA SlottedFits ==
    ASSUME Sorted, NEW c \in Declared, NEW n \in Nat, n = Len(Decl(c).methods),
           NEW k \in 0..(n - 1), NEW s, NEW p, TableFits(c, k, s, p),
           Derived(c) => slots[Base(c)] \in Seq(Methods)
    PROVE  \E s3, p3 : /\ Slotted(c, [slots |-> s, impls |-> p], Decl(c).methods[k + 1]) =
                              [slots |-> s3, impls |-> p3]
                       /\ TableFits(c, k + 1, s3, p3)
  <1>1. PICK x : x = Decl(c).methods[k + 1]
    OBVIOUS
  <1>2. \A kinds : DeclaresNext(c, k, x, kinds)
    BY <1>1, DeclaresOne
  <1>3. PICK m \in Methods : m = x.name
    BY <1>2 DEF DeclaresNext
  <1> DEFINE V == {"pure", "overridable"}
             B == {"plain", "overridable"}
  <1>4. /\ x.kind \in Kinds /\ ~DeclaresTo(c, m, V, k) /\ ~DeclaresTo(c, m, B, k)
        /\ \A h : DeclaresTo(c, h, V, k + 1) <=> DeclaresTo(c, h, V, k) \/ (h = m /\ x.kind \in V)
        /\ \A h : DeclaresTo(c, h, B, k + 1) <=> DeclaresTo(c, h, B, k) \/ (h = m /\ x.kind \in B)
    <2>1. DeclaresNext(c, k, x, V) /\ DeclaresNext(c, k, x, B)
      BY <1>2
    <2>2. QED
      BY <1>3, <2>1 DEF DeclaresNext
  <1>5. /\ s \in Seq(Methods) /\ IsInjective(s)
        /\ p \in Seq(Declared \union {NoClass}) /\ Len(s) = Len(p)
        /\ \A h \in Methods : h \in ToSet(s) <=> \/ DeclaresTo(c, h, V, k)
                                                 \/ Derived(c) /\ Virtual(Base(c), h)
        /\ \A i \in 1..Len(s) : p[i] = IF DeclaresTo(c, s[i], B, k) THEN c
                                       ELSE FromBase(c, s[i])
        /\ Derived(c) => IsPrefix(slots[Base(c)], s)
    BY DEF TableFits
  <1>6. IsVirtual(x, s) <=> x.kind \in V \/ m \in ToSet(s)
    BY <1>3 DEF IsVirtual
  <1>7. CASE ~IsVirtual(x, s)
    <2>1. Slotted(c, [slots |-> s, impls |-> p], x) = [slots |-> s, impls |-> p]
      BY <1>7 DEF Slotted
    <2>2. x.kind \notin V /\ m \notin ToSet(s)
      BY <1>6, <1>7
    <2>3. \A i \in 1..Len(s) : s[i] # m
      BY <1>5, <2>2 DEF ToSet
    <2>4. \A h \in Methods : h \in ToSet(s) <=> \/ DeclaresTo(c, h, V, k + 1)
                                                \/ Derived(c) /\ Virtual(Base(c), h)
      BY <1>4, <1>5, <2>2
    <2>5. \A i \in 1..Len(s) : p[i] = IF DeclaresTo(c, s[i], B, k + 1) THEN c
                                      ELSE FromBase(c, s[i])
      BY <1>4, <1>5, <2>3
    <2>6. TableFits(c, k + 1, s, p)
      BY <1>5, <2>4, <2>5 DEF TableFits
    <2>7. QED
      BY <1>1, <2>1, <2>6
  <1>8. CASE IsVirtual(x, s)
    <2>1. PICK s2, p2 : Grows(s, p, m, s2, p2)
      BY DEF Grows
    <2>2. /\ s2 \in Seq(Methods) /\ IsInjective(s2) /\ Len(s2) = Len(p2)
          /\ p2 \in Seq(Declared \union {NoClass})
          /\ ToSet(s2) = ToSet(s) \union {m}
          /\ \A i \in 1..Len(s2) :
                p2[i] = IF DeclaresTo(c, s2[i], B, k) /\ s2[i] # m THEN c
                        ELSE IF s2[i] = m /\ DeclaresTo(c, m, B, k)
                             THEN p2[i] ELSE FromBase(c, s2[i])
          /\ Derived(c) => IsPrefix(slots[Base(c)], s2)
      <3>1. k \in Nat
        OBVIOUS
      <3>2. QED
        BY <2>1, <3>1, SlotGrown
    <2>3. \A i \in 1..Len(s2) : p2[i] = IF DeclaresTo(c, s2[i], B, k) THEN c
                                        ELSE FromBase(c, s2[i])
      BY <1>4, <2>2
    <2>4. \A h \in Methods : h \in ToSet(s2) <=> \/ DeclaresTo(c, h, V, k + 1)
                                                 \/ Derived(c) /\ Virtual(Base(c), h)
      <3>1. ASSUME NEW h \in Methods, h # m
            PROVE  h \in ToSet(s2) <=> \/ DeclaresTo(c, h, V, k + 1)
                                       \/ Derived(c) /\ Virtual(Base(c), h)
        BY <1>4, <1>5, <2>2, <3>1
      <3>2. m \in ToSet(s2) /\ (DeclaresTo(c, m, V, k + 1) \/ (Derived(c) /\ Virtual(Base(c), m)))
        BY <1>4, <1>5, <1>6, <1>8, <2>2
      <3>3. QED
        BY <3>1, <3>2
    <2>5. Slotted(c, [slots |-> s, impls |-> p], x) =
            IF x.kind = "pure" THEN [slots |-> s2, impls |-> p2]
            ELSE [slots |-> s2, impls |-> [p2 EXCEPT ![SlotOf(s2, m)] = c]]
      <3>1. PICK t : t = [slots |-> s, impls |-> p]
        OBVIOUS
      <3>2. [slots |-> IF x.name \notin ToSet(t.slots) THEN Append(t.slots, x.name)
                       ELSE t.slots,
             impls |-> IF x.name \notin ToSet(t.slots) THEN Append(t.impls, NoClass)
                       ELSE t.impls] = [slots |-> s2, impls |-> p2]
        BY <1>3, <2>1, <3>1 DEF Grows
      <3>3. PICK g : g = [slots |-> s2, impls |-> p2]
        OBVIOUS
      <3>4. Slotted(c, t, x) = IF x.kind = "pure" THEN g
                               ELSE [g EXCEPT !.impls[SlotOf(g.slots, x.name)] = c]
        BY <1>8, <3>1, <3>2, <3>3 DEF Slotted
      <3>5. [g EXCEPT !.impls[SlotOf(g.slots, x.name)] = c] =
              [slots |-> s2, impls |-> [p2 EXCEPT ![SlotOf(s2, m)] = c]]
        <4>1. PICK e : e = SlotOf(g.slots, x.name)
          OBVIOUS
        <4>2. [g EXCEPT !.impls[e] = c] = [slots |-> s2, impls |-> [p2 EXCEPT ![e] = c]]
          BY <3>3
        <4>3. QED
          BY <1>3, <3>3, <4>1, <4>2
      <3>6. QED
        BY <3>1, <3>3, <3>4, <3>5
    <2>6. CASE x.kind = "pure"
      <3>1. \A i \in 1..Len(s2) : p2[i] = IF DeclaresTo(c, s2[i], B, k + 1) THEN c
                                          ELSE FromBase(c, s2[i])
        BY <1>4, <2>3, <2>6
      <3>2. TableFits(c, k + 1, s2, p2)
        BY <2>2, <2>4, <3>1 DEF TableFits
      <3>3. QED
        BY <1>1, <2>5, <2>6, <3>2
    <2>7. CASE x.kind # "pure"
      <3>1. x.kind \in B
        BY <1>4, <2>7 DEF Kinds
      <3>2. PICK e \in 1..Len(s2) : e = SlotOf(s2, m) /\ \A i \in 1..Len(s2) : s2[i] = m <=> i = e
        BY <2>2, SlotOfIs
      <3>3. PICK p3 : p3 = [p2 EXCEPT ![e] = c]
        OBVIOUS
      <3>4. /\ p3 \in Seq(Declared \union {NoClass}) /\ Len(p3) = Len(p2)
            /\ \A i \in 1..Len(p2) : p3[i] = IF i = e THEN c ELSE p2[i]
        BY <2>2, <3>2, <3>3, ExceptSeq
      <3>5. ASSUME NEW i \in 1..Len(s2)
            PROVE  p3[i] = IF DeclaresTo(c, s2[i], B, k + 1) THEN c ELSE FromBase(c, s2[i])
        <4>1. CASE i = e
          BY <1>4, <2>2, <3>1, <3>2, <3>4, <4>1
        <4>2. CASE i # e
          BY <1>4, <2>2, <2>3, <3>2, <3>4, <4>2
        <4>3. QED
          BY <4>1, <4>2
      <3>6. TableFits(c, k + 1, s2, p3)
        BY <2>2, <2>4, <3>4, <3>5 DEF TableFits
      <3>7. QED
        BY <1>1, <2>5, <2>7, <3>2, <3>3, <3>6
    <2>8. QED
      BY <2>6, <2>7
  <1>9. QED
    BY <1>7, <1>8

\* The table of c, built from that of its base, is as it should be.
LEMMA TableBuilt ==
    ASSUME Sorted, NEW c \in Declared, NEW n, n = Len(Decl(c).methods),
           Derived(c) => Base(c) \in DOMAIN slots /\ Base(c) \in DOMAIN impls /\ TableIs(Base(c))
    PROVE  \E s, p : /\ TableTo(c)[n] = [slots |-> s, impls |-> p]
                     /\ TableFits(c, n, s, p)
  <1>1. n \in Nat
    BY MethodsAre
  <1>2. /\ TableTo(c)[0] = Inherited(c)
        /\ \A k \in 0..(n - 1) :
              TableTo(c)[k + 1] = Slotted(c, TableTo(c)[k], Decl(c).methods[k + 1])
    <2>1. PICK f : /\ f = TableTo(c)
                   /\ f = [k \in 0..n |-> IF k = 0 THEN Inherited(c)
                                          ELSE Slotted(c, TableTo(c)[k - 1], Decl(c).methods[k])]
      BY <1>1, TableToIs
    <2>2. ASSUME NEW k \in 0..(n - 1) PROVE f[k + 1] = Slotted(c, f[k], Decl(c).methods[k + 1])
      <3>1. k + 1 \in 0..n /\ k + 1 # 0 /\ k + 1 - 1 = k
        BY <1>1
      <3>2. f[k + 1] = Slotted(c, TableTo(c)[k + 1 - 1], Decl(c).methods[k + 1])
        BY <2>1, <3>1
      <3>3. QED
        BY <2>1, <3>1, <3>2
    <2>3. f[0] = Inherited(c)
      BY <1>1, <2>1
    <2>4. QED
      BY <2>1, <2>2, <2>3
  <1>3. \E s, p : Inherited(c) = [slots |-> s, impls |-> p] /\ TableFits(c, 0, s, p)
    <2>1. \A m, kinds : ~DeclaresTo(c, m, kinds, 0)
      BY DEF DeclaresTo
    <2>2. CASE ~Derived(c)
      <3>1. Inherited(c) = [slots |-> <<>>, impls |-> <<>>]
        BY <2>2 DEF Inherited
      <3>2. /\ <<>> \in Seq(Methods) /\ <<>> \in Seq(Declared \union {NoClass})
            /\ Len(<<>>) = 0 /\ 1..0 = {} /\ DOMAIN <<>> = {}
        OBVIOUS
      <3>3. IsInjective(<<>>) /\ ToSet(<<>>) = {}
        BY <3>2 DEF IsInjective, ToSet
      <3>4. TableFits(c, 0, <<>>, <<>>)
        BY <2>1, <2>2, <3>2, <3>3 DEF TableFits
      <3>5. QED
        BY <3>1, <3>4
    <2>3. CASE Derived(c)
      <3>1. PICK b \in Declared : b = Base(c)
        BY <2>3, BaseFacts
      <3>2. /\ slots[b] \in Seq(Methods) /\ IsInjective(slots[b])
            /\ impls[b] \in Seq(Declared \union {NoClass})
            /\ Len(slots[b]) = Len(impls[b])
            /\ \A m \in Methods : m \in ToSet(slots[b]) <=> Virtual(b, m)
            /\ \A i \in 1..Len(slots[b]) : impls[b][i] = NearestBody(b, slots[b][i])
        BY <2>3, <3>1 DEF TableIs, TableShape
      <3>3. Inherited(c) = [slots |-> slots[b], impls |-> impls[b]]
        BY <2>3, <3>1 DEF Inherited, Known
      <3>4. IsPrefix(slots[b], slots[b])
        <4>1. Len(slots[b]) <= Len(slots[b])
          BY <3>2
        <4>2. QED
          BY <4>1 DEF IsPrefix
      <3>5. \A m : FromBase(c, m) = NearestBody(b, m)
        BY <2>3, <3>1 DEF FromBase
      <3>6. TableFits(c, 0, slots[b], impls[b])
        BY <2>1, <2>3, <3>1, <3>2, <3>4, <3>5 DEF TableFits
      <3>7. QED
        BY <3>3, <3>6
    <2>4. QED
      BY <2>2, <2>3
  <1>4. Derived(c) => slots[Base(c)] \in Seq(Methods)
    BY DEF TableIs, TableShape
  <1> DEFINE Does(k) == \E s, p : /\ TableTo(c)[k] = [slots |-> s, impls |-> p]
                                  /\ TableFits(c, k, s, p)
             Good == {k \in Nat : k <= n => Does(k)}
  <1>5. 0 \in Good
    BY <1>2, <1>3
  <1>6. ASSUME NEW k \in Nat, k \in Good PROVE k + 1 \in Good
    <2>1. CASE k + 1 <= n
      <3>1. k \in 0..(n - 1) /\ k <= n
        BY <1>1, <2>1
      <3>2. PICK s, p : TableTo(c)[k] = [slots |-> s, impls |-> p] /\ TableFits(c, k, s, p)
        BY <1>6, <3>1
      <3>3. PICK s3, p3 : /\ Slotted(c, TableTo(c)[k], Decl(c).methods[k + 1]) =
                                [slots |-> s3, impls |-> p3]
                          /\ TableFits(c, k + 1, s3, p3)
        BY <1>1, <1>4, <3>1, <3>2, SlottedFits
      <3>4. Does(k + 1)
        BY <1>2, <3>1, <3>3
      <3>5. QED
        BY <3>4
    <2>2. CASE ~(k + 1 <= n)
      BY <2>2
    <2>3. QED
      BY <2>1, <2>2
  <1>7. n \in Good
    <2> HIDE DEF Good
    <2>1. QED
      BY <1>1, <1>5, <1>6, Inductive
  <1>8. Does(n)
    BY <1>1, <1>7
  <1>9. QED
    BY <1>8

LEMMA TableRight ==
    ASSUME Sorted, NEW c \in Declared, NEW n, n = Len(Decl(c).methods),
           NEW s, NEW p, TableFits(c, n, s, p)
    PROVE  TableShape(c, s, p)
  <1> DEFINE V == {"pure", "overridable"}
             B == {"plain", "overridable"}
  <1>1. /\ s \in Seq(Methods) /\ IsInjective(s)
        /\ p \in Seq(Declared \union {NoClass}) /\ Len(s) = Len(p)
        /\ \A m \in Methods : m \in ToSet(s) <=> \/ DeclaresTo(c, m, V, n)
                                                 \/ Derived(c) /\ Virtual(Base(c), m)
        /\ \A i \in 1..Len(s) : p[i] = IF DeclaresTo(c, s[i], B, n) THEN c
                                       ELSE FromBase(c, s[i])
    BY DEF TableFits
  <1>2. \A m : /\ DeclaresTo(c, m, V, n) <=> Declares(c, m, V)
               /\ DeclaresTo(c, m, B, n) <=> Declares(c, m, B)
    BY DeclaresAll
  <1>3. \A m : Virtual(c, m) <=> Declares(c, m, V) \/ (Derived(c) /\ Virtual(Base(c), m))
    BY VirtualIs
  <1>4. \A m : NearestBody(c, m) = IF Declares(c, m, B) /\ Virtual(c, m) THEN c
                                   ELSE FromBase(c, m)
    BY NearestIs DEF FromBase
  <1> HIDE DEF V, B
  <1>5. \A m \in Methods : m \in ToSet(s) <=> Virtual(c, m)
    BY <1>1, <1>2, <1>3
  <1>6. \A i \in 1..Len(s) : s[i] \in Methods /\ Virtual(c, s[i])
    <2>1. \A i \in 1..Len(s) : s[i] \in Methods /\ s[i] \in ToSet(s)
      BY <1>1 DEF ToSet
    <2>2. QED
      BY <1>5, <2>1
  <1>7. \A i \in 1..Len(s) : p[i] = NearestBody(c, s[i])
    BY <1>1, <1>2, <1>4, <1>6
  <1>8. QED
    BY <1>1, <1>5, <1>7 DEF TableShape

LEMMA TableSame ==
    ASSUME unit' = unit, NEW c, TableIs(c),
           c \in DOMAIN slots', slots'[c] = slots[c], impls'[c] = impls[c],
           \A d \in DOMAIN slots : d \in DOMAIN slots' /\ slots'[d] = slots[d]
    PROVE  TableIs(c)'
  <1>1. \A s, p : TableShape(c, s, p)' = TableShape(c, s, p)
    BY SameUnit DEF TableShape
  <1>2. Derived(c)' = Derived(c) /\ Base(c)' = Base(c)
    BY SameUnit
  <1>3. PICK s, p : s = slots[c] /\ p = impls[c]
    OBVIOUS
  <1>4. TableShape(c, s, p)'
    BY <1>1, <1>3 DEF TableIs
  <1>5. TableShape(c, slots[c], impls[c])'
    BY <1>3, <1>4 DEF TableShape
  <1>6. (Derived(c) => Base(c) \in DOMAIN slots /\ IsPrefix(slots[Base(c)], slots[c]))'
    BY <1>2 DEF TableIs
  <1>7. QED
    BY <1>5, <1>6 DEF TableIs

LEMMA BuildTableKeeps ==
    ASSUME AnalysisInv, OrderedSoFar, TablesSoFar, BuildTable
    PROVE  /\ AnalysisInv' /\ OrderedSoFar' /\ TablesSoFar'
           /\ unit' = unit /\ phase = "tables"
  <1>1. /\ phase = "tables" /\ unit' = unit /\ semaVars' = semaVars
        /\ orderVars' = orderVars /\ NextDeclaration("run")
    BY DEF BuildTable, NextDeclaration
  <1>2. phase \in Analyzed \ {"order"}
    BY <1>1 DEF Analyzed
  <1>3. Sorted /\ UnitFits /\ Len(unit) \in Nat \ {0} /\ at \in 1..Len(unit)
    BY <1>2, SortedHolds, UnitTyped DEF Sorted, AnalysisInv, Compiled
  <1>4. \/ at < Len(unit) /\ at' = at + 1 /\ phase' = "tables"
        \/ at = Len(unit) /\ at' = 1 /\ phase' = "run"
    BY <1>1, <1>3 DEF NextDeclaration
  <1>5. phase' \in Analyzed \ {"order"} /\ at' \in 1..Len(unit)
    BY <1>3, <1>4 DEF Analyzed
  <1>6. AnalysisInv' /\ OrderedSoFar'
    BY <1>1, <1>2, <1>5, AnalysisSame, OrderedSame
  <1>7. PICK done : /\ done = {ordered[i] : i \in 1..(at - 1)}
                    /\ DOMAIN slots = done /\ DOMAIN impls = done
                    /\ \A d \in done : TableIs(d)
    BY <1>1 DEF TablesSoFar, BuiltTables
  <1>8. PICK c \in Declared : c = ordered[at] /\ c \notin done
    <2>1. DOMAIN ordered = 1..Len(unit) /\ ordered[at] \in Declared
      BY <1>3 DEF Sorted
    <2>2. \A i \in 1..(at - 1) : i \in 1..Len(unit) /\ i # at
      BY <1>3
    <2>3. ordered[at] \notin done
      BY <1>3, <1>7, <2>1, <2>2 DEF Sorted, IsInjective
    <2>4. QED
      BY <2>1, <2>3
  <1>9. ASSUME Derived(c) PROVE Base(c) \in done
    <2>1. \E j \in 1..(at - 1) : ordered[j] = Base(c)
      BY <1>3, <1>8, <1>9 DEF Sorted, BasesOut
    <2>2. QED
      BY <1>7, <2>1
  <1>10. PICK s, p : /\ TableTo(c)[Len(Decl(c).methods)] = [slots |-> s, impls |-> p]
                     /\ TableFits(c, Len(Decl(c).methods), s, p)
    BY <1>3, <1>7, <1>9, TableBuilt
  <1>11. slots' = Entered(slots, c, s) /\ impls' = Entered(impls, c, p)
    BY <1>8, <1>10 DEF BuildTable
  <1>12. /\ DOMAIN slots' = done \union {c} /\ DOMAIN impls' = done \union {c}
         /\ slots'[c] = s /\ impls'[c] = p
         /\ \A d \in done : slots'[d] = slots[d] /\ impls'[d] = impls[d]
    BY <1>7, <1>8, <1>11 DEF Entered
  <1>13. BuiltTables' = done \union {c}
    <2>1. ordered' = ordered
      BY <1>1 DEF orderVars
    <2>2. {ordered[i] : i \in 1..at} = done \union {c}
      <3>1. 1..at = 1..(at - 1) \union {at}
        BY <1>3
      <3>2. QED
        BY <1>7, <1>8, <3>1
    <2>3. CASE at' = at + 1 /\ phase' = "tables"
      <3>1. at' - 1 = at
        BY <1>3, <2>3
      <3>2. QED
        BY <2>1, <2>2, <2>3, <3>1 DEF BuiltTables
    <2>4. CASE at = Len(unit) /\ phase' = "run"
      <3>1. Declared = {ordered[i] : i \in 1..Len(unit)}
        BY <1>3 DEF Sorted, ToSet
      <3>2. QED
        BY <1>1, <2>2, <2>4, <3>1, SameUnit DEF BuiltTables, Lowered
    <2>5. QED
      BY <1>4, <2>3, <2>4
  <1>14. ASSUME NEW d \in done PROVE TableIs(d)'
    BY <1>1, <1>7, <1>12, <1>14, TableSame
  <1>15. TableIs(c)'
    <2>1. TableShape(c, s, p)
      BY <1>3, <1>10, TableRight
    <2>2. TableShape(c, s, p)'
      BY <1>1, <2>1, SameUnit DEF TableShape
    <2>3. TableShape(c, slots[c], impls[c])'
      BY <1>12, <2>2 DEF TableShape
    <2>4. ASSUME Derived(c) PROVE Base(c) \in done /\ IsPrefix(slots[Base(c)], s)
      BY <1>9, <1>10, <2>4 DEF TableFits
    <2>5. Derived(c)' = Derived(c) /\ Base(c)' = Base(c)
      BY <1>1, SameUnit
    <2>6. (Derived(c) => Base(c) \in DOMAIN slots /\ IsPrefix(slots[Base(c)], slots[c]))'
      BY <1>12, <2>4, <2>5
    <2>7. QED
      BY <2>3, <2>6 DEF TableIs
  <1>16. TablesSoFar'
    BY <1>12, <1>13, <1>14, <1>15 DEF TablesSoFar
  <1>17. QED
    BY <1>1, <1>6, <1>16

\* The tables are about the unit, and about what is built.
LEMMA TablesStay ==
    ASSUME TablesSoFar, unit' = unit, tableVars' = tableVars, BuiltTables' = BuiltTables
    PROVE  TablesSoFar'
  <1>1. slots' = slots /\ impls' = impls
    BY DEF tableVars
  <1>2. DOMAIN slots = BuiltTables /\ DOMAIN impls = BuiltTables
    BY DEF TablesSoFar
  <1>3. ASSUME NEW c \in BuiltTables PROVE TableIs(c)'
    <2>1. TableIs(c) /\ c \in DOMAIN slots
      BY <1>2, <1>3 DEF TablesSoFar
    <2>2. QED
      BY <1>1, <2>1, TableSame
  <1>4. QED
    BY <1>1, <1>2, <1>3 DEF TablesSoFar

LEMMA TablesWait ==
    ASSUME AnalysisInv, OrderedSoFar, TablesSoFar, Collect \/ Validate \/ Visit \/ Order,
           unit' = unit
    PROVE  TablesSoFar'
  <1>1. tableVars' = tableVars
    BY DEF Collect, Validate, Visit, Order, tableVars
  <1>2. phase \in Analyzing \union {"order"}
    BY DEF Collect, Validate, Visit, Order, Analyzing
  <1>3. BuiltTables = {}
    BY <1>2 DEF BuiltTables, Analyzing, Lowered
  <1>4. \/ phase' \in Analyzing \union {"order", "rejected"}
        \/ phase' = "tables" /\ at' = 1
    <2>1. CASE Collect
      BY <2>1 DEF Collect, Reject, NextDeclaration, Analyzing
    <2>2. CASE Validate
      BY <2>2 DEF Validate, Reject, NextDeclaration, Analyzing
    <2>3. CASE Visit
      BY <2>3 DEF Visit, Reject, NextDeclaration, Analyzing
    <2>4. CASE Order
      <3>1. phase = "order" /\ at' = at /\ phase' \in {"order", "tables"}
        BY <2>4 DEF Order
      <3>2. at = 1
        BY <3>1 DEF OrderedSoFar, Analyzed
      <3>3. QED
        BY <3>1, <3>2
    <2>5. QED
      BY <2>1, <2>2, <2>3, <2>4
  <1>5. BuiltTables' = {}
    <2>1. CASE phase' = "tables" /\ at' = 1
      <3>1. 1..(at' - 1) = {}
        BY <2>1
      <3>2. QED
        BY <2>1, <3>1 DEF BuiltTables
    <2>2. CASE phase' \in Analyzing \union {"order", "rejected"}
      BY <2>2 DEF BuiltTables, Analyzing, Lowered
    <2>3. QED
      BY <1>4, <2>1, <2>2
  <1>6. QED
    BY <1>1, <1>3, <1>5, TablesStay

-----------------------------------------------------------------------------
(* The steps of the compiler, together. *)

Compiles == Collect \/ Validate \/ Visit \/ Order \/ BuildTable

LEMMA CompileKeeps ==
    ASSUME CompileInv, Compiles
    PROVE  CompileInv'
  <1>1. AnalysisInv /\ OrderedSoFar /\ TablesSoFar
    BY DEF CompileInv
  <1>2. CASE Collect
    BY <1>1, <1>2, CollectKeeps, OrderWaits, TablesWait DEF CompileInv
  <1>3. CASE Validate
    BY <1>1, <1>3, ValidateKeeps, OrderWaits, TablesWait DEF CompileInv
  <1>4. CASE Visit
    BY <1>1, <1>4, VisitKeeps, OrderWaits, TablesWait DEF CompileInv
  <1>5. CASE Order
    BY <1>1, <1>5, OrderKeeps, TablesWait DEF CompileInv
  <1>6. CASE BuildTable
    BY <1>1, <1>6, BuildTableKeeps DEF CompileInv
  <1>7. QED
    BY <1>2, <1>3, <1>4, <1>5, <1>6 DEF Compiles

\* There is no object before the program runs.
LEMMA NoneBefore ==
    ASSUME Lives, Compiles
    PROVE  Lives'
  <1>1. runVars' = runVars
    BY DEF Compiles, Collect, Validate, Visit, Order, BuildTable
  <1>2. phase \notin Lowered
    BY DEF Compiles, Collect, Validate, Visit, Order, BuildTable, Lowered
  <1>3. object = None /\ frames = <<>> /\ last = None
    BY <1>2 DEF Lives
  <1>4. QED
    BY <1>1, <1>3 DEF Lives, runVars

\* The program that runs does not change what was compiled.
LEMMA CompiledStays ==
    ASSUME CompileInv, phase \in Lowered, phase' \in Lowered, compiled' = compiled
    PROVE  CompileInv'
  <1>1. AnalysisInv /\ OrderedSoFar /\ TablesSoFar
    BY DEF CompileInv
  <1>2. /\ unit' = unit /\ at' = at /\ semaVars' = semaVars
        /\ orderVars' = orderVars /\ tableVars' = tableVars
    BY DEF compiled
  <1>3. phase \in Analyzed \ {"order"} /\ phase' \in Analyzed \ {"order"}
    BY DEF Lowered, Analyzed
  <1>4. at' \in 1..Len(unit)
    BY <1>1, <1>2 DEF AnalysisInv, Compiled
  <1>5. BuiltTables' = BuiltTables
    <2>1. BuiltTables = Declared
      BY DEF BuiltTables, Lowered
    <2>2. BuiltTables' = Declared'
      BY DEF BuiltTables, Lowered
    <2>3. QED
      BY <1>2, <2>1, <2>2, SameUnit
  <1>6. QED
    BY <1>1, <1>2, <1>3, <1>4, <1>5, AnalysisSame, OrderedSame, TablesStay
       DEF CompileInv

-----------------------------------------------------------------------------
(* The tables of the program that runs. *)

Tabled ==
    /\ Sorted /\ DOMAIN slots = Declared /\ DOMAIN impls = Declared
    /\ \A c \in Declared : TableIs(c)

LEMMA TabledHolds ==
    ASSUME CompileInv, phase \in Lowered
    PROVE  Tabled
  <1>1. AnalysisInv /\ OrderedSoFar /\ TablesSoFar
    BY DEF CompileInv
  <1>2. phase \in Analyzed \ {"order"}
    BY DEF Lowered, Analyzed
  <1>3. BuiltTables = Declared
    BY DEF BuiltTables, Lowered
  <1>4. QED
    BY <1>1, <1>2, <1>3, SortedHolds DEF Tabled, TablesSoFar

\* A class has the slots of those above it, at their places.
LEMMA SlotsUp ==
    ASSUME Tabled, NEW d \in Declared, NEW c \in ToSet(Chain(d))
    PROVE  /\ c \in Declared /\ Len(slots[c]) <= Len(slots[d])
           /\ \A i \in 1..Len(slots[c]) : slots[c][i] = slots[d][i]
  <1> DEFINE above(x) == /\ Len(slots[x]) <= Len(slots[d])
                         /\ \A i \in 1..Len(slots[x]) : slots[x][i] = slots[d][i]
  <1>1. Sorted /\ \A x \in Declared : TableIs(x)
    BY DEF Tabled
  <1>2. \A x \in Declared : slots[x] \in Seq(Methods)
    BY <1>1 DEF TableIs, TableShape
  <1>3. PICK S : S = {x \in Declared : above(x)}
    OBVIOUS
  <1>4. d \in S
    BY <1>2, <1>3
  <1>5. ASSUME NEW x \in S, Derived(x) PROVE Base(x) \in S
    <2>1. x \in Declared /\ above(x)
      BY <1>3
    <2>2. Base(x) \in Declared
      BY <1>1, <1>5, <2>1, BaseFacts
    <2>3. IsPrefix(slots[Base(x)], slots[x])
      BY <1>1, <1>5, <2>1 DEF TableIs
    <2>4. PICK y \in Declared : y = Base(x)
      BY <2>2
    <2>5. /\ Len(slots[y]) <= Len(slots[x])
          /\ \A i \in 1..Len(slots[y]) : slots[y][i] = slots[x][i]
      BY <1>2, <2>1, <2>3, <2>4, PrefixIs
    <2>6. Len(slots[y]) \in Nat /\ Len(slots[x]) \in Nat /\ Len(slots[d]) \in Nat
      BY <1>2, <2>1, <2>4
    <2>7. above(y)
      BY <2>1, <2>5, <2>6
    <2>8. QED
      BY <1>3, <2>4, <2>7
  <1>6. ToSet(Chain(d)) \subseteq S
    BY <1>1, <1>3, <1>4, <1>5, UpTheChain
  <1>7. QED
    BY <1>3, <1>6

\* The class of an object has the table it is called through.
LEMMA ReachedIs ==
    ASSUME Tabled, NEW d \in Declared, NEW c \in ToSet(Chain(d)), NEW m \in Methods,
           object.vtable = Held(d)
    PROVE  Reached(c, m) = IF Virtual(c, m) THEN NearestBody(d, m) ELSE c
  <1>1. /\ c \in Declared /\ Len(slots[c]) <= Len(slots[d])
        /\ \A i \in 1..Len(slots[c]) : slots[c][i] = slots[d][i]
    BY SlotsUp
  <1>2. TableIs(c) /\ TableIs(d) /\ Sorted
    BY <1>1 DEF Tabled
  <1>3. /\ slots[c] \in Seq(Methods) /\ IsInjective(slots[c]) /\ slots[d] \in Seq(Methods)
        /\ m \in ToSet(slots[c]) <=> Virtual(c, m)
        /\ \A i \in 1..Len(slots[d]) : impls[d][i] = NearestBody(d, slots[d][i])
    BY <1>2 DEF TableIs, TableShape
  <1>4. CASE m \notin ToSet(slots[c])
    BY <1>3, <1>4 DEF Reached
  <1>5. CASE m \in ToSet(slots[c])
    <2>1. PICK i : /\ i = SlotOf(slots[c], m) /\ i \in 1..Len(slots[c])
                   /\ slots[c][i] = m
      BY <1>3, <1>5, SlotOfIs
    <2>2. Len(slots[c]) \in Nat /\ Len(slots[d]) \in Nat
      BY <1>3
    <2>3. i \in 1..Len(slots[d]) /\ slots[d][i] = m
      BY <1>1, <2>1, <2>2
    <2>4. slots[d] # <<>>
      BY <2>3, EmptySeq
    <2>5. d # NoClass
      BY <1>2, DeclaredAre, UnitTyped DEF Sorted
    <2>6. object.vtable = d
      BY <2>4 DEF Held
    <2>7. impls[d][i] = NearestBody(d, m)
      BY <1>3, <2>3
    <2>8. QED
      BY <1>3, <1>5, <2>1, <2>5, <2>6, <2>7 DEF Reached
  <1>6. QED
    BY <1>4, <1>5

\* A class without slots has a base without.
LEMMA EmptyUp ==
    ASSUME Tabled, NEW c \in Declared, Derived(c), slots[c] = <<>>
    PROVE  Held(Base(c)) = NoClass
  <1>1. Sorted /\ TableIs(c)
    BY DEF Tabled
  <1>2. PICK b \in Declared : b = Base(c)
    BY <1>1, BaseFacts
  <1>3. TableIs(b)
    BY DEF Tabled
  <1>4. slots[b] \in Seq(Methods) /\ slots[c] \in Seq(Methods) /\ IsPrefix(slots[b], slots[c])
    BY <1>1, <1>2, <1>3 DEF TableIs, TableShape
  <1>5. Len(slots[b]) <= Len(slots[c])
    BY <1>4, PrefixIs
  <1>6. slots[b] = <<>>
    BY <1>4, <1>5, EmptySeq
  <1>7. QED
    BY <1>2, <1>6 DEF Held

-----------------------------------------------------------------------------
(* The stack of the constructors, or of the destructors, that run. *)

LEMMA StackIs ==
    ASSUME NEW code, NEW p, NEW n, n = Len(p), p \in Seq(Declared), NEW k \in 1..n,
           NEW waits, NEW step, NEW f, f = Stack(code, p, k, waits, step)
    PROVE  /\ k \in Nat \ {0} /\ Len(f) = k /\ f # <<>>
           /\ Last(f) = Frame(code, p[k], step)
           /\ Last(f).code = code /\ Last(f).class = p[k] /\ Last(f).step = step
  <1>1. n \in Nat /\ k \in Nat \ {0} /\ 1..k = DOMAIN f
    BY DEF Stack
  <1>2. PICK T : T = {Frame(code, p[i], IF i < k THEN waits ELSE step) : i \in 1..k}
    OBVIOUS
  <1>3. \A i \in 1..k : f[i] = Frame(code, p[i], IF i < k THEN waits ELSE step)
    BY DEF Stack
  <1>4. \A i \in 1..k : f[i] \in T
    BY <1>2, <1>3
  <1>5. f \in Seq(T) /\ Len(f) = k
    <2>1. f = [i \in 1..k |-> f[i]]
      BY DEF Stack
    <2>2. QED
      BY <1>1, <1>4, <2>1, IsASeq, LenProperties
  <1>6. f # <<>>
    BY <1>1, <1>5, EmptySeq
  <1>7. Last(f) = f[k] /\ f[k] = Frame(code, p[k], step)
    <2>1. k \in 1..k /\ ~(k < k)
      BY <1>1
    <2>2. QED
      BY <1>3, <1>5, <2>1 DEF Last
  <1>8. QED
    BY <1>1, <1>5, <1>6, <1>7 DEF Frame

\* Its last goes on, calls the one of the next class, or returns.
Moves(f, code, p, k, waits) ==
    /\ \A next : [f EXCEPT ![Len(f)].step = next] = Stack(code, p, k, waits, next)
    /\ k < Len(p) =>
          \A next : Append([f EXCEPT ![Len(f)].step = waits], Frame(code, p[k + 1], next)) =
                    Stack(code, p, k + 1, waits, next)
    /\ Front(f) = IF k = 1 THEN <<>> ELSE Stack(code, p, k - 1, waits, waits)

LEMMA StackMoves ==
    ASSUME NEW code, NEW p, NEW n, n = Len(p), p \in Seq(Declared), NEW k \in 1..n,
           NEW waits, NEW step, NEW f, f = Stack(code, p, k, waits, step)
    PROVE  Moves(f, code, p, k, waits)
  <1>1. n \in Nat /\ k \in Nat \ {0} /\ Len(f) = k
    BY StackIs
  <1>2. f = [i \in 1..k |-> Frame(code, p[i], IF i < k THEN waits ELSE step)]
    BY DEF Stack
  <1>3. ASSUME NEW x
        PROVE  [f EXCEPT ![Len(f)].step = x] = Stack(code, p, k, waits, x)
    <2>1. PICK g : g = [f EXCEPT ![k].step = x]
      OBVIOUS
    <2>2. g = [i \in 1..k |-> IF i = k THEN [f[k] EXCEPT !.step = x] ELSE f[i]]
      BY <1>1, <1>2, <2>1
    <2>3. [f[k] EXCEPT !.step = x] = Frame(code, p[k], x)
      <3>1. f[k] = Frame(code, p[k], step)
        BY <1>1, <1>2
      <3>2. QED
        BY <3>1 DEF Frame
    <2>4. ASSUME NEW i \in 1..k
          PROVE  g[i] = Frame(code, p[i], IF i < k THEN waits ELSE x)
      <3>1. CASE i = k
        BY <1>1, <2>2, <2>3, <3>1
      <3>2. CASE i # k
        <4>1. i < k
          BY <1>1, <2>4, <3>2
        <4>2. g[i] = f[i]
          BY <2>2, <2>4, <3>2
        <4>3. QED
          BY <1>2, <2>4, <4>1, <4>2
      <3>3. QED
        BY <3>1, <3>2
    <2>5. QED
      BY <1>1, <2>1, <2>2, <2>4 DEF Stack
  <1>4. ASSUME k < n, NEW next
        PROVE  Append([f EXCEPT ![Len(f)].step = waits], Frame(code, p[k + 1], next)) =
               Stack(code, p, k + 1, waits, next)
    <2>1. PICK g : g = Stack(code, p, k, waits, waits) /\ [f EXCEPT ![Len(f)].step = waits] = g
      BY <1>3
    <2>2. Len(g) = k /\ g = [i \in 1..k |-> Frame(code, p[i], waits)]
      BY <1>1, <2>1, StackIs DEF Stack
    <2>3. PICK e : e = Frame(code, p[k + 1], next)
      OBVIOUS
    <2>4. Append(g, e) = [i \in 1..(k + 1) |-> IF i <= k THEN g[i] ELSE e]
      BY <1>1, <2>2
    <2>5. ASSUME NEW i \in 1..(k + 1)
          PROVE  Append(g, e)[i] = Frame(code, p[i], IF i < k + 1 THEN waits ELSE next)
      <3>1. CASE i = k + 1
        BY <1>1, <2>3, <2>4, <3>1
      <3>2. CASE i # k + 1
        <4>1. i \in 1..k /\ i < k + 1
          BY <1>1, <2>5, <3>2
        <4>2. QED
          BY <1>1, <2>2, <2>4, <4>1
      <3>3. QED
        BY <3>1, <3>2
    <2>6. QED
      BY <1>1, <2>1, <2>3, <2>4, <2>5 DEF Stack
  <1>5. Front(f) = IF k = 1 THEN <<>> ELSE Stack(code, p, k - 1, waits, waits)
    <2>1. Front(f) = [i \in 1..(k - 1) |-> f[i]]
      BY <1>1 DEF Front
    <2>2. CASE k = 1
      BY <2>1, <2>2
    <2>3. CASE k # 1
      <3>1. \A i \in 1..(k - 1) : i \in 1..k /\ i < k
        BY <1>1
      <3>2. \A i \in 1..(k - 1) :
                f[i] = Frame(code, p[i], IF i < k - 1 THEN waits ELSE waits)
        BY <1>2, <3>1
      <3>3. QED
        BY <1>1, <2>1, <2>3, <3>2 DEF Stack
    <2>4. QED
      BY <2>2, <2>3
  <1>6. QED
    BY <1>3, <1>4, <1>5 DEF Moves

-----------------------------------------------------------------------------
(* The life of an object. *)

\* The tables, and what the names stand for, do not change with it.
LEMMA LifeSame ==
    ASSUME unit' = unit, tableVars' = tableVars, Life(object', frames', last')
    PROVE  Life(object, frames, last)'
  <1>1. slots' = slots
    BY DEF tableVars
  <1>2. PICK o, f, l : o = object' /\ f = frames' /\ l = last' /\ Life(o, f, l)
    OBVIOUS
  <1>3. \A c : Held(c)' = Held(c)
    BY <1>1 DEF Held
  <1>4. Declared' = Declared /\ \A c : Chain(c)' = Chain(c)
    BY SameUnit
  <1>5. \A c, x : Reaches(c, x)' = Reaches(c, x)
    BY SameUnit DEF Reaches
  <1> DEFINE lived(c, s) ==
          \/ Constructs(Chain(c), s, o, f, l)
          \/ \E n \in 0..Len(Chain(s)) : Rests(Chain(c), Chain(s), n, o, f, l)
          \/ Destructs(Chain(c), Chain(s), o, f, l)
  <1>6. PICK c \in Declared : \E s \in ToSet(Chain(c)) : lived(c, s)
    BY <1>2 DEF Life
  <1>7. PICK s \in ToSet(Chain(c)) : lived(c, s)
    BY <1>6
  <1>8. PICK p, q : p = Chain(c) /\ q = Chain(s)
    OBVIOUS
  <1>9. Constructs(p, s, o, f, l)' = Constructs(p, s, o, f, l)
    BY <1>3, <1>5 DEF Constructs, Begins, HasBase, HasTable
  <1>10. \A n : Whole(p, q, n)' = Whole(p, q, n)
    BY <1>3 DEF Whole
  <1>11. \A n : Rests(p, q, n, o, f, l)' = Rests(p, q, n, o, f, l)
    BY <1>5, <1>10 DEF Rests
  <1>12. Destructs(p, q, o, f, l)' = Destructs(p, q, o, f, l)
    BY <1>5, <1>10 DEF Destructs, Tears, HasTorn, TornAbove
  <1>13. Life(o, f, l)'
    <2>1. c \in Declared' /\ s \in ToSet(Chain(c)') /\ p = Chain(c)' /\ q = Chain(s)'
      BY <1>4, <1>8
    <2>2. \/ Constructs(p, s, o, f, l)'
          \/ \E n \in 0..Len(q) : Rests(p, q, n, o, f, l)'
          \/ Destructs(p, q, o, f, l)'
      BY <1>7, <1>8, <1>9, <1>11, <1>12
    <2>3. QED
      BY <2>1, <2>2 DEF Life
  <1>14. QED
    BY <1>2, <1>13

\* A chain, by its elements.
Climbs(p) ==
    /\ p \in Seq(Declared) /\ Len(p) \in Nat \ {0}
    /\ \A k \in 1..Len(p) :
        /\ p[k] \in Declared
        /\ Derived(p[k]) <=> k < Len(p)
        /\ k < Len(p) => k + 1 \in 1..Len(p) /\ Base(p[k]) = p[k + 1]

\* An object of class c, held by a variable of class s.
Lineage(c, s, p, q) ==
    /\ c \in Declared /\ s \in Declared /\ s \in ToSet(Chain(c))
    /\ p = Chain(c) /\ q = Chain(s) /\ p[1] = c /\ q[1] = s
    /\ Climbs(p) /\ Climbs(q)

LEMMA ClimbsIs ==
    ASSUME Sorted, NEW c \in Declared, NEW p, p = Chain(c)
    PROVE  Climbs(p) /\ p[1] = c
  <1>1. PICK n : n = Len(Chain(c))
    OBVIOUS
  <1>2. /\ n \in Nat \ {0} /\ p \in Seq(Declared) /\ p[1] = c
        /\ \A i \in 1..n : p[i] \in Declared
        /\ \A i \in 1..n : Derived(p[i]) <=> i # n
        /\ \A i \in 1..n : i # n => i + 1 \in 1..n /\ p[i + 1] = Base(p[i])
    BY <1>1, ChainFacts
  <1>3. ASSUME NEW i \in 1..n PROVE i # n <=> i < n
    BY <1>2
  <1>4. QED
    BY <1>1, <1>2, <1>3 DEF Climbs

LEMMA LineageIs ==
    ASSUME Sorted, NEW c \in Declared, NEW s \in ToSet(Chain(c))
    PROVE  \E p, q : Lineage(c, s, p, q)
  <1>1. s \in Declared
    BY OnTheChain
  <1>2. QED
    BY <1>1, ClimbsIs DEF Lineage

\* What the constructor or destructor on top is about to do.
IsAt(f, code, step) == f # <<>> /\ Last(f).code = code /\ Last(f).step = step

Stage(c, s, p, q, o, f, l) ==
    \/ f = <<>> /\ \E n \in 0..Len(q) : Rests(p, q, n, o, f, l)
    \/ IsAt(f, "ctor", "base") /\ \E k \in 1..Len(p) : Begins(p, s, k, o, f, l)
    \/ IsAt(f, "ctor", "table") /\ \E k \in 1..Len(p) : HasBase(p, s, k, o, f, l)
    \/ IsAt(f, "ctor", "body") /\ \E k \in 1..Len(p) : HasTable(p, s, k, o, f, l)
    \/ IsAt(f, "dtor", "body") /\ \E k \in 1..Len(q) : Tears(p, q, k, o, f, l)
    \/ IsAt(f, "dtor", "base") /\ \E k \in 1..Len(q) : HasTorn(p, q, k, o, f, l)
    \/ /\ IsAt(f, "dtor", "done")
       /\ \E k \in 1..Len(q) : \E n \in (k + 1)..Len(q) : TornAbove(p, q, k, n, o, f, l)

LEMMA StageIs ==
    ASSUME Tabled, NEW o, NEW f, NEW l, Life(o, f, l)
    PROVE  \E c, s, p, q : Lineage(c, s, p, q) /\ Stage(c, s, p, q, o, f, l)
  <1> DEFINE lived(c, s) ==
          \/ Constructs(Chain(c), s, o, f, l)
          \/ \E n \in 0..Len(Chain(s)) : Rests(Chain(c), Chain(s), n, o, f, l)
          \/ Destructs(Chain(c), Chain(s), o, f, l)
  <1>1. PICK c \in Declared : \E s \in ToSet(Chain(c)) : lived(c, s)
    BY DEF Life
  <1>2. PICK s \in ToSet(Chain(c)) : lived(c, s)
    BY <1>1
  <1>3. Sorted
    BY DEF Tabled
  <1>4. PICK p, q : Lineage(c, s, p, q)
    BY <1>3, LineageIs
  <1>5. /\ p = Chain(c) /\ q = Chain(s) /\ p \in Seq(Declared) /\ q \in Seq(Declared)
    BY <1>4 DEF Lineage, Climbs
  <1>6. \/ Constructs(p, s, o, f, l)
        \/ \E n \in 0..Len(q) : Rests(p, q, n, o, f, l)
        \/ Destructs(p, q, o, f, l)
    BY <1>2, <1>5
  <1>7. CASE Constructs(p, s, o, f, l)
    <2>1. PICK k \in 1..Len(p) : \/ Begins(p, s, k, o, f, l)
                                 \/ HasBase(p, s, k, o, f, l)
                                 \/ HasTable(p, s, k, o, f, l)
      BY <1>7 DEF Constructs
    <2>2. CASE Begins(p, s, k, o, f, l)
      <3>1. IsAt(f, "ctor", "base")
        BY <1>5, <2>2, StackIs DEF Begins, IsAt
      <3>2. QED
        BY <1>4, <2>2, <3>1 DEF Stage
    <2>3. CASE HasBase(p, s, k, o, f, l)
      <3>1. IsAt(f, "ctor", "table")
        BY <1>5, <2>3, StackIs DEF HasBase, IsAt
      <3>2. QED
        BY <1>4, <2>3, <3>1 DEF Stage
    <2>4. CASE HasTable(p, s, k, o, f, l)
      <3>1. IsAt(f, "ctor", "body")
        BY <1>5, <2>4, StackIs DEF HasTable, IsAt
      <3>2. QED
        BY <1>4, <2>4, <3>1 DEF Stage
    <2>5. QED
      BY <2>1, <2>2, <2>3, <2>4
  <1>8. CASE \E n \in 0..Len(q) : Rests(p, q, n, o, f, l)
    <2>1. f = <<>>
      BY <1>8 DEF Rests
    <2>2. QED
      BY <1>4, <1>8, <2>1 DEF Stage
  <1>9. CASE Destructs(p, q, o, f, l)
    <2>1. PICK k \in 1..Len(q) :
              \/ Tears(p, q, k, o, f, l) \/ HasTorn(p, q, k, o, f, l)
              \/ \E n \in (k + 1)..Len(q) : TornAbove(p, q, k, n, o, f, l)
      BY <1>9 DEF Destructs
    <2>2. CASE Tears(p, q, k, o, f, l)
      <3>1. IsAt(f, "dtor", "body")
        BY <1>5, <2>2, StackIs DEF Tears, IsAt
      <3>2. QED
        BY <1>4, <2>2, <3>1 DEF Stage
    <2>3. CASE HasTorn(p, q, k, o, f, l)
      <3>1. IsAt(f, "dtor", "base")
        BY <1>5, <2>3, StackIs DEF HasTorn, IsAt
      <3>2. QED
        BY <1>4, <2>3, <3>1 DEF Stage
    <2>4. CASE \E n \in (k + 1)..Len(q) : TornAbove(p, q, k, n, o, f, l)
      <3>1. IsAt(f, "dtor", "done")
        BY <1>5, <2>4, StackIs DEF TornAbove, IsAt
      <3>2. QED
        BY <1>4, <2>4, <3>1 DEF Stage
    <2>5. QED
      BY <2>1, <2>2, <2>3, <2>4
  <1>10. QED
    BY <1>6, <1>7, <1>8, <1>9

\* And back.
LEMMA LifeIs ==
    ASSUME NEW c, NEW s, NEW p, NEW q, Lineage(c, s, p, q), NEW o, NEW f, NEW l,
           \/ Constructs(p, s, o, f, l)
           \/ \E n \in 0..Len(q) : Rests(p, q, n, o, f, l)
           \/ Destructs(p, q, o, f, l)
    PROVE  Life(o, f, l)
  <1>1. c \in Declared /\ s \in ToSet(Chain(c)) /\ p = Chain(c) /\ q = Chain(s)
    BY DEF Lineage
  <1>2. QED
    BY <1>1 DEF Life

-----------------------------------------------------------------------------
(* The steps of the program that runs. *)

LEMMA CreateLives ==
    ASSUME Tabled, NEW c \in Declared, NEW s \in ToSet(Chain(c)), Create(c, s)
    PROVE  Life(object', frames', last')
  <1>1. Sorted
    BY DEF Tabled
  <1>2. PICK p, q : Lineage(c, s, p, q)
    BY <1>1, LineageIs
  <1>3. Climbs(p) /\ p[1] = c
    BY <1>2 DEF Lineage
  <1>4. /\ frames' = <<Frame("ctor", c, "base")>> /\ last' = None
        /\ object' = Object(c, s, NoClass, <<>>, <<>>)
    BY DEF Create, Object
  <1>5. <<Frame("ctor", c, "base")>> = Stack("ctor", p, 1, "table", "base")
    <2>1. Stack("ctor", p, 1, "table", "base") =
          [i \in 1..1 |-> Frame("ctor", p[i], IF i < 1 THEN "table" ELSE "base")]
      BY DEF Stack
    <2>2. \A i \in 1..1 : i = 1 /\ ~(i < 1)
      OBVIOUS
    <2>3. QED
      BY <1>3, <2>1, <2>2
  <1>6. 1 \in 1..Len(p)
    BY <1>3 DEF Climbs
  <1>7. Constructs(p, s, object', frames', last')
    BY <1>3, <1>4, <1>5, <1>6 DEF Constructs, Begins
  <1>8. QED
    BY <1>2, <1>7, LifeIs

LEMMA ConstructBaseLives ==
    ASSUME Tabled, Life(object, frames, last), ConstructBase
    PROVE  Life(object', frames', last')
  <1>1. IsAt(frames, "ctor", "base")
    BY DEF ConstructBase, InCode, IsAt, Top
  <1>2. PICK c, s, p, q : /\ Lineage(c, s, p, q)
                          /\ Stage(c, s, p, q, object, frames, last)
    BY StageIs
  <1>3. PICK k \in 1..Len(p) : Begins(p, s, k, object, frames, last)
    BY <1>1, <1>2 DEF Stage, IsAt
  <1>4. /\ Climbs(p) /\ p \in Seq(Declared) /\ Len(p) \in Nat /\ k \in Nat
        /\ Derived(p[k]) <=> k < Len(p)
        /\ k < Len(p) => k + 1 \in 1..Len(p) /\ Base(p[k]) = p[k + 1]
    BY <1>2 DEF Lineage, Climbs
  <1>5. frames = Stack("ctor", p, k, "table", "base") /\ Top.class = p[k]
    BY <1>3, <1>4, StackIs DEF Begins, Top
  <1>6. Moves(frames, "ctor", p, k, "table")
    BY <1>4, <1>5, StackMoves
  <1>7. object' = object /\ last' = None
    BY <1>3 DEF ConstructBase, Begins
  <1>8. CASE k < Len(p)
    <2>1. frames' = Append([frames EXCEPT ![Len(frames)].step = "table"],
                           Frame("ctor", p[k + 1], "base"))
      BY <1>4, <1>5, <1>8 DEF ConstructBase, AdvanceAndCall
    <2>2. frames' = Stack("ctor", p, k + 1, "table", "base")
      BY <1>8, <1>6, <2>1 DEF Moves
    <2>3. Begins(p, s, k + 1, object', frames', last')
      BY <1>3, <1>7, <2>2 DEF Begins
    <2>4. QED
      BY <1>2, <1>4, <1>8, <2>3, LifeIs DEF Constructs
  <1>9. CASE ~(k < Len(p))
    <2>1. frames' = [frames EXCEPT ![Len(frames)].step = "table"]
      BY <1>4, <1>5, <1>9 DEF ConstructBase, Advance
    <2>2. frames' = Stack("ctor", p, k, "table", "table")
      BY <1>6, <2>1 DEF Moves
    <2>3. Len(p) - k = 0
      BY <1>4, <1>9
    <2>4. Built(p, Len(p) - k) = <<>>
      BY <2>3 DEF Built
    <2>5. HasBase(p, s, k, object', frames', last')
      BY <1>3, <1>7, <1>9, <2>2, <2>4 DEF Begins, HasBase
    <2>6. QED
      BY <1>2, <2>5, LifeIs DEF Constructs
  <1>10. QED
    BY <1>8, <1>9

LEMMA InstallTableLives ==
    ASSUME Tabled, Life(object, frames, last), InstallTable
    PROVE  Life(object', frames', last')
  <1>1. IsAt(frames, "ctor", "table")
    BY DEF InstallTable, InCode, IsAt, Top
  <1>2. PICK c, s, p, q : /\ Lineage(c, s, p, q)
                          /\ Stage(c, s, p, q, object, frames, last)
    BY StageIs
  <1>3. PICK k \in 1..Len(p) : HasBase(p, s, k, object, frames, last)
    BY <1>1, <1>2 DEF Stage, IsAt
  <1>4. /\ p \in Seq(Declared) /\ Len(p) \in Nat /\ k \in Nat /\ p[k] \in Declared
        /\ Derived(p[k]) <=> k < Len(p)
        /\ k < Len(p) => Base(p[k]) = p[k + 1]
    BY <1>2 DEF Lineage, Climbs
  <1>5. frames = Stack("ctor", p, k, "table", "table") /\ Top.class = p[k]
    BY <1>3, <1>4, StackIs DEF HasBase, Top
  <1>6. frames' = Stack("ctor", p, k, "table", "body")
    <2>1. frames' = [frames EXCEPT ![Len(frames)].step = "body"]
      BY DEF InstallTable, Advance
    <2>2. Moves(frames, "ctor", p, k, "table")
      BY <1>4, <1>5, StackMoves
    <2>3. QED
      BY <2>1, <2>2 DEF Moves
  <1>7. PICK v, b : /\ v = IF k < Len(p) THEN Held(p[k + 1]) ELSE NoClass
                    /\ b = Built(p, Len(p) - k)
                    /\ object = Object(p[1], s, v, b, <<>>) /\ object.vtable = v
    BY <1>3 DEF HasBase, Object
  <1>8. Installed(p[k]) = Held(p[k])
    <2>1. CASE slots[p[k]] # <<>>
      BY <2>1 DEF Installed, Held
    <2>2. CASE slots[p[k]] = <<>>
      <3>1. v = NoClass
        BY <1>4, <1>7, <2>2, EmptyUp
      <3>2. QED
        BY <1>7, <2>2, <3>1 DEF Installed, Held
    <2>3. QED
      BY <2>1, <2>2
  <1>9. object' = Object(p[1], s, Held(p[k]), b, <<>>)
    BY <1>5, <1>7, <1>8 DEF InstallTable, Object
  <1>10. last' = None
    BY <1>3 DEF InstallTable, HasBase
  <1>11. HasTable(p, s, k, object', frames', last')
    BY <1>6, <1>7, <1>9, <1>10 DEF HasTable, Reaches
  <1>12. QED
    BY <1>2, <1>11, LifeIs DEF Constructs

\* What is built is the chain, from its end.
LEMMA BuiltIs ==
    ASSUME NEW p, Climbs(p), NEW k \in 1..Len(p)
    PROVE  Append(Built(p, Len(p) - k), p[k]) = Built(p, Len(p) - k + 1)
  <1>1. PICK n : n = Len(p) - k
    OBVIOUS
  <1>2. Len(p) \in Nat /\ k \in Nat /\ n \in Nat /\ n + 1 \in Nat
    BY <1>1 DEF Climbs
  <1>3. PICK b : b = Built(p, n)
    OBVIOUS
  <1>4. b = [i \in 1..n |-> p[Len(p) + 1 - i]]
    BY <1>3 DEF Built
  <1>5. Len(b) = n
    BY <1>2, <1>4
  <1>6. Append(b, p[k]) = [i \in 1..(n + 1) |-> IF i <= n THEN b[i] ELSE p[k]]
    BY <1>2, <1>4, <1>5
  <1>7. ASSUME NEW i \in 1..(n + 1)
        PROVE  Append(b, p[k])[i] = p[Len(p) + 1 - i]
    <2>1. CASE i = n + 1
      <3>1. Len(p) + 1 - i = k /\ ~(i <= n)
        BY <1>1, <1>2, <2>1
      <3>2. QED
        BY <1>6, <1>7, <3>1
    <2>2. CASE i # n + 1
      <3>1. i \in 1..n /\ i <= n
        BY <1>2, <1>7, <2>2
      <3>2. QED
        BY <1>4, <1>6, <1>7, <3>1
    <2>3. QED
      BY <2>1, <2>2
  <1>8. Append(b, p[k]) = Built(p, n + 1)
    BY <1>6, <1>7 DEF Built
  <1>9. QED
    BY <1>1, <1>3, <1>8

\* Nothing of the chain is torn down yet.
LEMMA TornIs ==
    ASSUME NEW q, Climbs(q)
    PROVE  /\ Torn(q, 0) = <<>>
           /\ \A n \in 0..Len(q) : Torn(q, n) = <<>> => n = 0
           /\ \A k \in 1..Len(q) : Append(Torn(q, k - 1), q[k]) = Torn(q, k)
  <1>1. Len(q) \in Nat /\ q \in Seq(Declared)
    BY DEF Climbs
  <1>2. \A n \in 0..Len(q) : Torn(q, n) = [i \in 1..n |-> q[i]] /\ Len(Torn(q, n)) = n
    BY <1>1 DEF Torn
  <1>3. Torn(q, 0) = <<>>
    BY <1>1, <1>2
  <1>4. ASSUME NEW n \in 0..Len(q), Torn(q, n) = <<>> PROVE n = 0
    BY <1>2, <1>4, EmptySeq
  <1>5. ASSUME NEW k \in 1..Len(q) PROVE Append(Torn(q, k - 1), q[k]) = Torn(q, k)
    <2>1. k \in Nat /\ k - 1 \in 0..Len(q) /\ k \in 0..Len(q)
      BY <1>1
    <2>2. PICK t : /\ t = Torn(q, k - 1) /\ Len(t) = k - 1
                   /\ t = [i \in 1..(k - 1) |-> q[i]]
      BY <1>2, <2>1
    <2>3. Append(t, q[k]) = [i \in 1..k |-> IF i <= k - 1 THEN t[i] ELSE q[k]]
      BY <2>1, <2>2
    <2>4. ASSUME NEW i \in 1..k PROVE Append(t, q[k])[i] = q[i]
      <3>1. CASE i = k
        BY <2>1, <2>3, <3>1
      <3>2. CASE i # k
        <4>1. i \in 1..(k - 1) /\ i <= k - 1
          BY <2>1, <2>4, <3>2
        <4>2. QED
          BY <2>2, <2>3, <2>4, <4>1
      <3>3. QED
        BY <3>1, <3>2
    <2>5. Torn(q, k) = [i \in 1..k |-> q[i]]
      BY <1>2, <2>1
    <2>6. QED
      BY <2>2, <2>3, <2>4, <2>5
  <1>6. QED
    BY <1>3, <1>4, <1>5

LEMMA EndConstructorLives ==
    ASSUME Tabled, Life(object, frames, last), EndConstructor
    PROVE  Life(object', frames', last')
  <1>1. IsAt(frames, "ctor", "body")
    BY DEF EndConstructor, InCode, IsAt, Top
  <1>2. PICK c, s, p, q : /\ Lineage(c, s, p, q)
                          /\ Stage(c, s, p, q, object, frames, last)
    BY StageIs
  <1>3. PICK k \in 1..Len(p) : HasTable(p, s, k, object, frames, last)
    BY <1>1, <1>2 DEF Stage, IsAt
  <1>4. /\ Climbs(p) /\ Climbs(q) /\ p \in Seq(Declared) /\ Len(p) \in Nat /\ k \in Nat
        /\ q[1] = s /\ 0 \in 0..Len(q)
    BY <1>2 DEF Lineage, Climbs
  <1>5. frames = Stack("ctor", p, k, "table", "body") /\ Top.class = p[k]
    BY <1>3, <1>4, StackIs DEF HasTable, Top
  <1>6. Moves(frames, "ctor", p, k, "table")
    BY <1>4, <1>5, StackMoves
  <1>7. /\ frames' = IF k = 1 THEN <<>> ELSE Stack("ctor", p, k - 1, "table", "table")
        /\ last' = None
    BY <1>6 DEF EndConstructor, Return, Moves
  <1>8. PICK b : /\ b = Built(p, Len(p) - k)
                 /\ object = Object(p[1], s, Held(p[k]), b, <<>>)
    BY <1>3 DEF HasTable
  <1>9. Append(b, p[k]) = Built(p, Len(p) - k + 1)
    BY <1>4, <1>8, BuiltIs
  <1>10. object' = Object(p[1], s, Held(p[k]), Built(p, Len(p) - k + 1), <<>>)
    <2>1. object' = Object(p[1], s, Held(p[k]), Append(b, p[k]), <<>>)
      BY <1>5, <1>8 DEF EndConstructor, Object
    <2>2. QED
      BY <1>9, <2>1
  <1>11. CASE k = 1
    <2>1. Len(p) - k + 1 = Len(p)
      BY <1>4, <1>11
    <2>2. Torn(q, 0) = <<>>
      BY <1>4, TornIs
    <2>3. object' = Whole(p, q, 0)
      BY <1>4, <1>10, <1>11, <2>1, <2>2 DEF Whole
    <2>4. Rests(p, q, 0, object', frames', last')
      BY <1>7, <1>11, <2>3 DEF Rests, Reaches
    <2>5. QED
      BY <1>2, <1>4, <2>4, LifeIs
  <1>12. CASE k # 1
    <2>1. PICK h : h = k - 1 /\ h \in 1..Len(p) /\ h < Len(p) /\ h + 1 = k
      BY <1>4, <1>12
    <2>2. Len(p) - h = Len(p) - k + 1
      BY <1>4, <2>1
    <2>3. HasBase(p, s, h, object', frames', last')
      BY <1>7, <1>10, <1>12, <2>1, <2>2 DEF HasBase
    <2>4. QED
      BY <1>2, <2>1, <2>3, LifeIs DEF Constructs
  <1>13. QED
    BY <1>11, <1>12

\* A call on a whole object, or on one that is a c so far, is one.
LEMMA CallReaches ==
    ASSUME Tabled, NEW d \in Declared, NEW c \in ToSet(Chain(d)), NEW m \in Methods,
           object.vtable = Held(d), Call(c, m)
    PROVE  Reaches(d, last')
  <1>1. Reached(c, m) = IF Virtual(c, m) THEN NearestBody(d, m) ELSE c
    BY ReachedIs
  <1>2. c \in Declared
    BY SlotsUp
  <1>3. QED
    BY <1>1, <1>2 DEF Call, Reaches

LEMMA CallFromBodyLives ==
    ASSUME Tabled, Life(object, frames, last), NEW m \in Methods, CallFromBody(m)
    PROVE  Life(object', frames', last')
  <1>1. IsAt(frames, "ctor", "body") \/ IsAt(frames, "dtor", "body")
    BY DEF CallFromBody, InCode, IsAt, Top
  <1>2. PICK c, s, p, q : /\ Lineage(c, s, p, q)
                          /\ Stage(c, s, p, q, object, frames, last)
    BY StageIs
  <1>3. /\ Climbs(p) /\ Climbs(q) /\ p \in Seq(Declared) /\ q \in Seq(Declared)
        /\ c \in Declared /\ s \in Declared /\ s \in ToSet(Chain(c))
        /\ p[1] = c /\ q = Chain(s) /\ Sorted
    BY <1>2 DEF Lineage, Climbs, Tabled
  <1>4. object' = object /\ frames' = frames /\ Call(Top.class, m)
    BY DEF CallFromBody, Call
  <1>5. CASE IsAt(frames, "ctor", "body")
    <2>1. PICK k \in 1..Len(p) : HasTable(p, s, k, object, frames, last)
      BY <1>2, <1>5 DEF Stage, IsAt
    <2>2. Top.class = p[k]
      BY <1>3, <2>1, StackIs DEF HasTable, Top
    <2>3. p[k] \in Declared
      BY <1>3 DEF Climbs
    <2>4. p[k] \in ToSet(Chain(p[k]))
      BY <1>3, <2>3, OwnChain
    <2>5. object.vtable = Held(p[k])
      BY <2>1 DEF HasTable, Object
    <2>6. Reaches(p[k], last')
      BY <1>4, <2>2, <2>3, <2>4, <2>5, CallReaches
    <2>7. HasTable(p, s, k, object', frames', last')
      BY <1>4, <2>1, <2>6 DEF HasTable
    <2>8. QED
      BY <1>2, <2>7, LifeIs DEF Constructs
  <1>6. CASE IsAt(frames, "dtor", "body")
    <2>1. PICK k \in 1..Len(q) : Tears(p, q, k, object, frames, last)
      BY <1>2, <1>6 DEF Stage, IsAt
    <2>2. Top.class = q[k]
      BY <1>3, <2>1, StackIs DEF Tears, Top
    <2>3. q[k] \in ToSet(Chain(c))
      <3>1. q[k] \in ToSet(Chain(s))
        BY <1>3, ChainFacts
      <3>2. QED
        BY <1>3, <3>1, OnTheChain
    <2>4. object.vtable = Held(c)
      BY <1>3, <2>1 DEF Tears, Whole, Object
    <2>5. Reaches(c, last')
      BY <1>3, <1>4, <2>2, <2>3, <2>4, CallReaches
    <2>6. Tears(p, q, k, object', frames', last')
      BY <1>3, <1>4, <2>1, <2>5 DEF Tears
    <2>7. QED
      BY <1>2, <2>6, LifeIs DEF Destructs
  <1>7. QED
    BY <1>1, <1>5, <1>6

LEMMA CallFromOutsideLives ==
    ASSUME Tabled, Life(object, frames, last), NEW m \in Methods, CallFromOutside(m)
    PROVE  Life(object', frames', last')
  <1>1. /\ frames = <<>> /\ object' = object /\ frames' = frames
        /\ Call(object.static, m)
    BY DEF CallFromOutside, Call
  <1>2. PICK c, s, p, q : /\ Lineage(c, s, p, q)
                          /\ Stage(c, s, p, q, object, frames, last)
    BY StageIs
  <1>3. PICK n \in 0..Len(q) : Rests(p, q, n, object, frames, last)
    BY <1>1, <1>2 DEF Stage, IsAt
  <1>4. /\ c \in Declared /\ s \in ToSet(Chain(c)) /\ p[1] = c /\ q[1] = s
    BY <1>2 DEF Lineage
  <1>5. object.vtable = Held(c) /\ object.static = s
    BY <1>3, <1>4 DEF Rests, Whole, Object
  <1>6. Reaches(c, last')
    BY <1>1, <1>4, <1>5, CallReaches
  <1>7. Rests(p, q, n, object', frames', last')
    BY <1>1, <1>3, <1>4, <1>6 DEF Rests
  <1>8. QED
    BY <1>2, <1>7, LifeIs

LEMMA DeleteLives ==
    ASSUME Tabled, Life(object, frames, last), Delete
    PROVE  Life(object', frames', last')
  <1>1. /\ frames = <<>> /\ object' = object /\ last' = None /\ object.torn = <<>>
        /\ frames' = <<Frame("dtor", object.static, "body")>>
    BY DEF Delete, Alive
  <1>2. PICK c, s, p, q : /\ Lineage(c, s, p, q)
                          /\ Stage(c, s, p, q, object, frames, last)
    BY StageIs
  <1>3. PICK n \in 0..Len(q) : Rests(p, q, n, object, frames, last)
    BY <1>1, <1>2 DEF Stage, IsAt
  <1>4. Climbs(q) /\ q[1] = s
    BY <1>2 DEF Lineage
  <1>5. /\ object = Whole(p, q, n) /\ object.torn = Torn(q, n) /\ object.static = s
    BY <1>3, <1>4 DEF Rests, Whole, Object
  <1>6. n = 0
    BY <1>1, <1>4, <1>5, TornIs
  <1>7. <<Frame("dtor", s, "body")>> = Stack("dtor", q, 1, "done", "body")
    <2>1. Stack("dtor", q, 1, "done", "body") =
          [i \in 1..1 |-> Frame("dtor", q[i], IF i < 1 THEN "done" ELSE "body")]
      BY DEF Stack
    <2>2. \A i \in 1..1 : i = 1 /\ ~(i < 1)
      OBVIOUS
    <2>3. QED
      BY <1>4, <2>1, <2>2
  <1>8. 1 \in 1..Len(q) /\ 1 - 1 = 0
    BY <1>4 DEF Climbs
  <1>9. Tears(p, q, 1, object', frames', last')
    BY <1>1, <1>5, <1>6, <1>7, <1>8 DEF Tears, Reaches
  <1>10. QED
    BY <1>2, <1>8, <1>9, LifeIs DEF Destructs

LEMMA EndBodyLives ==
    ASSUME Tabled, Life(object, frames, last), EndBody
    PROVE  Life(object', frames', last')
  <1>1. IsAt(frames, "dtor", "body")
    BY DEF EndBody, InCode, IsAt, Top
  <1>2. PICK c, s, p, q : /\ Lineage(c, s, p, q)
                          /\ Stage(c, s, p, q, object, frames, last)
    BY StageIs
  <1>3. PICK k \in 1..Len(q) : Tears(p, q, k, object, frames, last)
    BY <1>1, <1>2 DEF Stage, IsAt
  <1>4. Climbs(q) /\ q \in Seq(Declared)
    BY <1>2 DEF Lineage, Climbs
  <1>5. frames = Stack("dtor", q, k, "done", "body") /\ Top.class = q[k]
    BY <1>3, <1>4, StackIs DEF Tears, Top
  <1>6. Moves(frames, "dtor", q, k, "done")
    BY <1>4, <1>5, StackMoves
  <1>7. frames' = Stack("dtor", q, k, "done", "base") /\ last' = None
    BY <1>6 DEF EndBody, Advance, Moves
  <1>8. object' = Whole(p, q, k)
    <2>1. PICK t : t = Torn(q, k - 1) /\ object = Object(p[1], q[1], Held(p[1]), Built(p, Len(p)), t)
      BY <1>3 DEF Tears, Whole
    <2>2. Append(t, q[k]) = Torn(q, k)
      BY <1>4, <2>1, TornIs
    <2>3. object' = Object(p[1], q[1], Held(p[1]), Built(p, Len(p)), Append(t, q[k]))
      BY <1>5, <2>1 DEF EndBody, Object
    <2>4. QED
      BY <2>2, <2>3 DEF Whole
  <1>9. HasTorn(p, q, k, object', frames', last')
    BY <1>7, <1>8 DEF HasTorn
  <1>10. QED
    BY <1>2, <1>9, LifeIs DEF Destructs

\* A destructor returns to the one that called it.
LEMMA ReturnLives ==
    ASSUME NEW c, NEW s, NEW p, NEW q, Lineage(c, s, p, q), NEW k \in 1..Len(q),
           NEW n \in k..Len(q), NEW step, NEW f, f = Stack("dtor", q, k, "done", step)
    PROVE  Life(Whole(p, q, n), Front(f), None)
  <1>1. q \in Seq(Declared) /\ Len(q) \in Nat /\ k \in Nat /\ n \in Nat
    BY DEF Lineage, Climbs
  <1>2. Moves(f, "dtor", q, k, "done")
    BY <1>1, StackMoves
  <1>3. Front(f) = IF k = 1 THEN <<>> ELSE Stack("dtor", q, k - 1, "done", "done")
    BY <1>2 DEF Moves
  <1>4. PICK o : o = Whole(p, q, n)
    OBVIOUS
  <1>5. PICK g : g = Front(f)
    OBVIOUS
  <1>6. CASE k = 1
    <2>1. n \in 0..Len(q)
      BY <1>1
    <2>2. Rests(p, q, n, o, g, None)
      BY <1>3, <1>4, <1>5, <1>6 DEF Rests, Reaches
    <2>3. QED
      BY <1>4, <1>5, <2>1, <2>2, LifeIs
  <1>7. CASE k # 1
    <2>1. PICK h : h = k - 1 /\ h \in 1..Len(q) /\ n \in (h + 1)..Len(q)
      BY <1>1, <1>7
    <2>2. TornAbove(p, q, h, n, o, g, None)
      BY <1>3, <1>4, <1>5, <1>7, <2>1 DEF TornAbove
    <2>3. QED
      BY <1>4, <1>5, <2>1, <2>2, LifeIs DEF Destructs
  <1>8. QED
    BY <1>6, <1>7

LEMMA ReturnFromBodyLives ==
    ASSUME Tabled, Life(object, frames, last), ReturnFromBody
    PROVE  Life(object', frames', last')
  <1>1. IsAt(frames, "dtor", "body")
    BY DEF ReturnFromBody, InCode, IsAt, Top
  <1>2. PICK c, s, p, q : /\ Lineage(c, s, p, q)
                          /\ Stage(c, s, p, q, object, frames, last)
    BY StageIs
  <1>3. PICK k \in 1..Len(q) : Tears(p, q, k, object, frames, last)
    BY <1>1, <1>2 DEF Stage, IsAt
  <1>4. Climbs(q) /\ q \in Seq(Declared) /\ Len(q) \in Nat
    BY <1>2 DEF Lineage, Climbs
  <1>5. frames = Stack("dtor", q, k, "done", "body") /\ Top.class = q[k]
    BY <1>3, <1>4, StackIs DEF Tears, Top
  <1>6. frames' = Front(frames) /\ last' = None
    BY DEF ReturnFromBody, Return
  <1>7. object' = Whole(p, q, k)
    <2>1. PICK t : t = Torn(q, k - 1) /\ object = Object(p[1], q[1], Held(p[1]), Built(p, Len(p)), t)
      BY <1>3 DEF Tears, Whole
    <2>2. Append(t, q[k]) = Torn(q, k)
      BY <1>4, <2>1, TornIs
    <2>3. object' = Object(p[1], q[1], Held(p[1]), Built(p, Len(p)), Append(t, q[k]))
      BY <1>5, <2>1 DEF ReturnFromBody, Object
    <2>4. QED
      BY <2>2, <2>3 DEF Whole
  <1>8. k \in k..Len(q)
    BY <1>4
  <1>9. QED
    BY <1>2, <1>5, <1>6, <1>7, <1>8, ReturnLives

LEMMA DestroyBaseLives ==
    ASSUME Tabled, Life(object, frames, last), DestroyBase
    PROVE  Life(object', frames', last')
  <1>1. IsAt(frames, "dtor", "base")
    BY DEF DestroyBase, InCode, IsAt, Top
  <1>2. PICK c, s, p, q : /\ Lineage(c, s, p, q)
                          /\ Stage(c, s, p, q, object, frames, last)
    BY StageIs
  <1>3. PICK k \in 1..Len(q) : HasTorn(p, q, k, object, frames, last)
    BY <1>1, <1>2 DEF Stage, IsAt
  <1>4. /\ q \in Seq(Declared) /\ Len(q) \in Nat /\ k \in Nat
        /\ Derived(q[k]) <=> k < Len(q)
        /\ k < Len(q) => k + 1 \in 1..Len(q) /\ Base(q[k]) = q[k + 1]
    BY <1>2 DEF Lineage, Climbs
  <1>5. frames = Stack("dtor", q, k, "done", "base") /\ Top.class = q[k]
    BY <1>3, <1>4, StackIs DEF HasTorn, Top
  <1>6. object' = Whole(p, q, k) /\ last' = None
    BY <1>3 DEF DestroyBase, HasTorn
  <1>7. CASE k < Len(q)
    <2>1. Moves(frames, "dtor", q, k, "done")
      BY <1>4, <1>5, StackMoves
    <2>2. frames' = Append([frames EXCEPT ![Len(frames)].step = "done"],
                           Frame("dtor", q[k + 1], "body"))
      BY <1>4, <1>5, <1>7 DEF DestroyBase, AdvanceAndCall
    <2>3. frames' = Stack("dtor", q, k + 1, "done", "body")
      BY <1>7, <2>1, <2>2 DEF Moves
    <2>4. (k + 1) - 1 = k
      BY <1>4
    <2>5. Tears(p, q, k + 1, object', frames', last')
      BY <1>6, <2>3, <2>4 DEF Tears, Reaches
    <2>6. QED
      BY <1>2, <1>4, <1>7, <2>5, LifeIs DEF Destructs
  <1>8. CASE ~(k < Len(q))
    <2>1. frames' = Front(frames)
      BY <1>4, <1>5, <1>8 DEF DestroyBase, Return
    <2>2. k \in k..Len(q)
      BY <1>4
    <2>3. QED
      BY <1>2, <1>5, <1>6, <2>1, <2>2, ReturnLives
  <1>9. QED
    BY <1>7, <1>8

LEMMA EndDestructorLives ==
    ASSUME Tabled, Life(object, frames, last), EndDestructor
    PROVE  Life(object', frames', last')
  <1>1. IsAt(frames, "dtor", "done")
    BY DEF EndDestructor, InCode, IsAt, Top
  <1>2. PICK c, s, p, q : /\ Lineage(c, s, p, q)
                          /\ Stage(c, s, p, q, object, frames, last)
    BY StageIs
  <1>3. PICK k \in 1..Len(q) :
            \E n \in (k + 1)..Len(q) : TornAbove(p, q, k, n, object, frames, last)
    BY <1>1, <1>2 DEF Stage, IsAt
  <1>4. PICK n \in (k + 1)..Len(q) : TornAbove(p, q, k, n, object, frames, last)
    BY <1>3
  <1>5. Len(q) \in Nat /\ n \in k..Len(q)
    <2>1. Len(q) \in Nat
      BY <1>2 DEF Lineage, Climbs
    <2>2. QED
      BY <2>1
  <1>6. /\ frames = Stack("dtor", q, k, "done", "done") /\ frames' = Front(frames)
        /\ object' = Whole(p, q, n) /\ last' = None
    BY <1>4 DEF EndDestructor, Return, TornAbove
  <1>7. QED
    BY <1>2, <1>5, <1>6, ReturnLives

Runs ==
    \/ Running /\ \E c \in Declared : \E s \in ToSet(Chain(c)) : Create(c, s)
    \/ ConstructBase \/ InstallTable \/ EndConstructor
    \/ \E m \in Methods : CallFromBody(m) \/ CallFromOutside(m)
    \/ Delete \/ EndBody \/ ReturnFromBody \/ DestroyBase \/ EndDestructor

LEMMA RunsAre ==
    ASSUME Runs
    PROVE  phase \in Lowered /\ phase' \in Lowered /\ compiled' = compiled
  <1>1. phase = "run" /\ compiled' = compiled
    BY DEF Runs, Running, Create, ConstructBase, InstallTable, EndConstructor,
           CallFromBody, CallFromOutside, Call, Delete, EndBody, ReturnFromBody,
           DestroyBase, EndDestructor, InCode
  <1>2. phase' \in {"run", "exited"}
    BY <1>1 DEF Runs, Create, ConstructBase, InstallTable, EndConstructor,
           CallFromBody, CallFromOutside, Call, Delete, EndBody, ReturnFromBody,
           DestroyBase, EndDestructor
  <1>3. QED
    BY <1>1, <1>2 DEF Lowered

LEMMA RunsLive ==
    ASSUME Tabled, Lives, Runs
    PROVE  Life(object', frames', last')
  <1>1. CASE \E c \in Declared : \E s \in ToSet(Chain(c)) : Create(c, s)
    BY <1>1, CreateLives
  <1>2. SUFFICES ASSUME ~\E c \in Declared : \E s \in ToSet(Chain(c)) : Create(c, s)
                 PROVE  Life(object', frames', last')
    BY <1>1
  <1>3. frames # <<>> \/ object # None
    BY <1>2 DEF Runs, ConstructBase, InstallTable, EndConstructor,
           CallFromBody, CallFromOutside, Delete, EndBody, ReturnFromBody,
           DestroyBase, EndDestructor, InCode, Alive
  <1>4. Life(object, frames, last)
    BY <1>3 DEF Lives
  <1>5. CASE ConstructBase
    BY <1>4, <1>5, ConstructBaseLives
  <1>6. CASE InstallTable
    BY <1>4, <1>6, InstallTableLives
  <1>7. CASE EndConstructor
    BY <1>4, <1>7, EndConstructorLives
  <1>8. CASE \E m \in Methods : CallFromBody(m) \/ CallFromOutside(m)
    BY <1>4, <1>8, CallFromBodyLives, CallFromOutsideLives
  <1>9. CASE Delete
    BY <1>4, <1>9, DeleteLives
  <1>10. CASE EndBody
    BY <1>4, <1>10, EndBodyLives
  <1>11. CASE ReturnFromBody
    BY <1>4, <1>11, ReturnFromBodyLives
  <1>12. CASE DestroyBase
    BY <1>4, <1>12, DestroyBaseLives
  <1>13. CASE EndDestructor
    BY <1>4, <1>13, EndDestructorLives
  <1>14. QED
    BY <1>2, <1>5, <1>6, <1>7, <1>8, <1>9, <1>10, <1>11, <1>12, <1>13 DEF Runs

LEMMA RunsKeep ==
    ASSUME CompileInv, Lives, Runs
    PROVE  CompileInv' /\ Lives'
  <1>1. phase \in Lowered /\ phase' \in Lowered /\ compiled' = compiled
    BY RunsAre
  <1>2. CompileInv'
    BY <1>1, CompiledStays
  <1>3. Tabled
    BY <1>1, TabledHolds
  <1>4. Life(object', frames', last')
    BY <1>3, RunsLive
  <1>5. unit' = unit /\ tableVars' = tableVars
    BY <1>1 DEF compiled
  <1>6. Life(object, frames, last)'
    BY <1>4, <1>5, LifeSame
  <1>7. QED
    BY <1>1, <1>2, <1>6 DEF Lives

LEMMA NothingKeeps ==
    ASSUME CompileInv, Lives, UNCHANGED vars
    PROVE  CompileInv' /\ Lives'
  <1>1. AnalysisInv /\ OrderedSoFar /\ TablesSoFar
    BY DEF CompileInv
  <1>2. /\ unit' = unit /\ phase' = phase /\ at' = at /\ semaVars' = semaVars
        /\ orderVars' = orderVars /\ tableVars' = tableVars /\ runVars' = runVars
    BY DEF vars
  <1>3. /\ collected' = collected /\ walk' = walk /\ visited' = visited
        /\ ordered' = ordered /\ pending' = pending
    BY <1>2 DEF semaVars, orderVars
  <1>4. Compiled' /\ CollectedSoFar'
    BY <1>1, <1>2, <1>3, SameUnit DEF AnalysisInv, Compiled, CollectedSoFar
  <1>5. ValidSoFar'
    BY <1>1, <1>2, SameUnit DEF AnalysisInv, ValidSoFar
  <1>6. WalkedSoFar'
    BY <1>1, <1>2, <1>3, SameUnit DEF AnalysisInv, WalkedSoFar, Walking
  <1>7. Verdict'
    BY <1>1, <1>2, SameUnit DEF AnalysisInv, Verdict
  <1>8. OrderedSoFar'
    BY <1>1, <1>2, <1>3, SameUnit, OrderSame DEF OrderedSoFar, NamesIn
  <1>9. BuiltTables' = BuiltTables
    BY <1>2, <1>3, SameUnit DEF BuiltTables
  <1>10. TablesSoFar'
    BY <1>1, <1>2, <1>9, TablesStay
  <1>11. Lives'
    <2>1. object' = object /\ frames' = frames /\ last' = last
      BY <1>2 DEF runVars
    <2>2. CASE object = None /\ frames = <<>> /\ last = None
      BY <2>1, <2>2 DEF Lives
    <2>3. CASE phase \in Lowered /\ Life(object, frames, last)
      <3>1. Life(object, frames, last)'
        BY <1>2, <2>1, <2>3, LifeSame
      <3>2. QED
        BY <1>2, <2>3, <3>1 DEF Lives
    <2>4. QED
      BY <2>2, <2>3 DEF Lives
  <1>12. QED
    BY <1>4, <1>5, <1>6, <1>7, <1>8, <1>10, <1>11 DEF CompileInv, AnalysisInv

-----------------------------------------------------------------------------
LEMMA InitHolds ==
    ASSUME Init
    PROVE  CompileInv /\ Lives
  <1>1. /\ unit \in Units /\ phase = "collect" /\ at = 1
        /\ collected = {} /\ walk = <<>> /\ visited = {}
        /\ ordered = <<>> /\ pending = unit /\ slots = <<>> /\ impls = <<>>
        /\ object = None /\ frames = <<>> /\ last = None
    BY DEF Init
  <1>2. Len(unit) \in Nat \ {0}
    BY <1>1, UnitTyped
  <1>3. Compiled
    BY <1>1, <1>2 DEF Compiled, Analyzing
  <1>4. CollectedSoFar
    <2>1. at - 1 = 0 /\ NamesTo(0) = {} /\ DistinctTo(0)
      BY <1>1 DEF NamesTo, DistinctTo
    <2>2. QED
      BY <1>1, <2>1 DEF CollectedSoFar
  <1>5. ValidSoFar /\ Verdict
    BY <1>1 DEF ValidSoFar, Verdict, Analyzed
  <1>6. WalkedSoFar
    BY <1>1, EmptySeq DEF WalkedSoFar, IsInjective
  <1>7. OrderedSoFar
    BY <1>1 DEF OrderedSoFar, Analyzed
  <1>8. TablesSoFar
    <2>1. BuiltTables = {}
      BY <1>1 DEF BuiltTables, Lowered
    <2>2. DOMAIN slots = {} /\ DOMAIN impls = {}
      BY <1>1
    <2>3. QED
      BY <2>1, <2>2 DEF TablesSoFar
  <1>9. Lives
    BY <1>1 DEF Lives
  <1>10. QED
    BY <1>3, <1>4, <1>5, <1>6, <1>7, <1>8, <1>9 DEF CompileInv, AnalysisInv

LEMMA Invariance == Spec => []IInv
  <1>1. Init => IInv
    BY InitHolds DEF IInv
  <1>2. IInv /\ [Next]_vars => IInv'
    <2>1. SUFFICES ASSUME CompileInv, Lives, [Next]_vars
                   PROVE  (CompileInv /\ Lives)'
      BY DEF IInv
    <2>2. CASE Compiles
      BY <2>1, <2>2, CompileKeeps, NoneBefore
    <2>3. CASE Runs
      BY <2>1, <2>3, RunsKeep
    <2>4. CASE UNCHANGED vars
      BY <2>1, <2>4, NothingKeeps
    <2>5. QED
      BY <2>1, <2>2, <2>3, <2>4 DEF Next, Compiles, Runs
  <1>3. QED
    BY <1>1, <1>2, PTL DEF Spec

(* The analysis rejects exactly the ill-formed programs: what gets to      *)
(* order_classes_by_base has distinct names, bases that are declared, one  *)
(* method of a name in a class, and no inheritance cycle, and of what is   *)
(* rejected one of these is untrue (semantic.py, analyze).                 *)
THEOREM RejectsOnlyTheIllFormed == Spec => []RejectsTheIllFormed
  <1>1. CompileInv => RejectsTheIllFormed
    BY DEF CompileInv, AnalysisInv, Verdict, RejectsTheIllFormed, Analyzed
  <1>2. QED
    BY <1>1, Invariance, PTL DEF IInv

(* Of any program that is let through, order_classes_by_base puts out all  *)
(* the structs, each once and after that of its base: its last resort, to  *)
(* put out what is still pending when a round is stuck, is never taken.    *)
THEOREM EmittedInOrder == Spec => []BasesFirst
  <1>1. ASSUME CompileInv PROVE BasesFirst
    <2>1. SUFFICES ASSUME phase \in {"tables", "run"}
                   PROVE  /\ Len(ordered) = Len(unit) /\ ToSet(ordered) = Declared
                          /\ \A i \in DOMAIN ordered :
                                Derived(ordered[i]) =>
                                    Base(ordered[i]) \in ToSet(SubSeq(ordered, 1, i - 1))
      BY DEF BasesFirst
    <2>2. Sorted
      BY <1>1, <2>1, SortedHolds DEF CompileInv, Analyzed
    <2>3. /\ ordered \in Seq(Declared) /\ Len(ordered) \in Nat
          /\ DOMAIN ordered = 1..Len(ordered) /\ BasesOut(ordered)
      BY <2>2 DEF Sorted
    <2>4. ASSUME NEW i \in DOMAIN ordered, Derived(ordered[i])
          PROVE  Base(ordered[i]) \in ToSet(SubSeq(ordered, 1, i - 1))
      <3>1. PICK j \in 1..(i - 1) : ordered[j] = Base(ordered[i])
        BY <2>3, <2>4 DEF BasesOut
      <3>2. PICK t : t = SubSeq(ordered, 1, i - 1)
        OBVIOUS
      <3>3. i \in 1..Len(ordered) /\ j \in Nat
        BY <2>3, <2>4, <3>1
      <3>4. j \in DOMAIN t /\ t[j] = ordered[j]
        BY <2>3, <3>1, <3>2, <3>3
      <3>5. QED
        BY <3>1, <3>2, <3>4 DEF ToSet
    <2>5. QED
      BY <2>2, <2>4 DEF Sorted
  <1>2. QED
    BY <1>1, Invariance, PTL DEF IInv

(* Every call, through any static class on the chain of the object, and    *)
(* from constructors and destructors too, runs the nearest body at the     *)
(* class the object has so far (virtual_call_prefix, constructor_prelude). *)
THEOREM CallsReachTheNearest == Spec => []NearestRuns
  <1>1. ASSUME CompileInv, Lives PROVE NearestRuns
    <2>1. SUFFICES ASSUME last # None
                   PROVE  last.reached = IF Virtual(last.via, last.method)
                                         THEN NearestBody(ClassSoFar, last.method)
                                         ELSE last.via
      BY DEF NearestRuns
    <2>2. phase \in Lowered /\ Life(object, frames, last)
      BY <1>1, <2>1 DEF Lives
    <2>3. PICK c, s, p, q : /\ Lineage(c, s, p, q)
                            /\ Stage(c, s, p, q, object, frames, last)
      BY <1>1, <2>2, TabledHolds, StageIs
    <2>4. SUFFICES Reaches(ClassSoFar, last)
      BY <2>1 DEF Reaches
    <2>5. CASE frames = <<>> /\ \E n \in 0..Len(q) : Rests(p, q, n, object, frames, last)
      BY <2>5 DEF Rests, Whole, Object, ClassSoFar
    <2>6. CASE \E k \in 1..Len(p) : HasTable(p, s, k, object, frames, last)
      <3>1. PICK k \in 1..Len(p) : HasTable(p, s, k, object, frames, last)
        BY <2>6
      <3>2. p \in Seq(Declared)
        BY <2>3 DEF Lineage, Climbs
      <3>3. frames # <<>> /\ Top.code = "ctor" /\ Top.class = p[k]
        BY <3>1, <3>2, StackIs DEF HasTable, Top
      <3>4. QED
        BY <3>1, <3>3 DEF HasTable, ClassSoFar
    <2>7. CASE \E k \in 1..Len(q) : Tears(p, q, k, object, frames, last)
      <3>1. PICK k \in 1..Len(q) : Tears(p, q, k, object, frames, last)
        BY <2>7
      <3>2. q \in Seq(Declared)
        BY <2>3 DEF Lineage, Climbs
      <3>3. Top.code = "dtor"
        BY <3>1, <3>2, StackIs DEF Tears, Top
      <3>4. QED
        BY <3>1, <3>3 DEF Tears, Whole, Object, ClassSoFar
    <2>8. QED
      BY <2>1, <2>3, <2>5, <2>6, <2>7 DEF Stage, Begins, HasBase, HasTorn, TornAbove
  <1>2. QED
    BY <1>1, Invariance, PTL DEF IInv

LEMMA ReverseIs ==
    ASSUME NEW S, NEW s \in Seq(S), NEW n \in Nat, Len(s) = n
    PROVE  /\ Reverse(s) \in Seq(S) /\ Len(Reverse(s)) = n
           /\ \A i \in 1..n : Reverse(s)[i] = s[n - i + 1]
  <1>1. PICK r : r = Reverse(s) /\ r = [i \in 1..n |-> s[n - i + 1]]
    BY DEF Reverse
  <1>2. \A i \in 1..n : n - i + 1 \in 1..n
    OBVIOUS
  <1>3. \A i \in 1..n : s[n - i + 1] \in S
    BY <1>2
  <1>4. r \in Seq(S)
    BY <1>1, <1>3, IsASeq
  <1>5. DOMAIN r = 1..n
    BY <1>1
  <1>6. Len(r) = n
    BY <1>4, <1>5
  <1>7. \A i \in 1..n : r[i] = s[n - i + 1]
    BY <1>1
  <1>8. QED
    BY <1>1, <1>4, <1>6, <1>7

LEMMA BuiltFits ==
    ASSUME NEW p, Climbs(p), NEW n \in 0..Len(p)
    PROVE  /\ Built(p, n) \in Seq(Declared) /\ Len(Built(p, n)) = n
           /\ IsSuffix(Reverse(Built(p, n)), p)
  <1>1. /\ Len(p) \in Nat /\ n \in Nat /\ p \in Seq(Declared)
        /\ \A i \in 1..Len(p) : p[i] \in Declared
    BY DEF Climbs
  <1>2. PICK b : b = Built(p, n) /\ b = [i \in 1..n |-> p[Len(p) + 1 - i]]
    BY DEF Built
  <1>3. \A i \in 1..n : Len(p) + 1 - i \in 1..Len(p)
    BY <1>1
  <1>4. b \in Seq(Declared) /\ Len(b) = n
    <2>1. \A i \in 1..n : p[Len(p) + 1 - i] \in Declared
      BY <1>1, <1>3
    <2>2. QED
      BY <1>1, <1>2, <2>1, IsASeq
  <1>5. PICK r : r = Reverse(b) /\ r \in Seq(Declared) /\ Len(r) = n
                 /\ \A i \in 1..n : r[i] = b[n - i + 1]
    BY <1>1, <1>4, ReverseIs
  <1>6. PICK u : u = Reverse(r) /\ u \in Seq(Declared) /\ Len(u) = n
                 /\ \A i \in 1..n : u[i] = b[i]
    <2>1. /\ Reverse(r) \in Seq(Declared) /\ Len(Reverse(r)) = n
          /\ \A i \in 1..n : Reverse(r)[i] = r[n - i + 1]
      BY <1>1, <1>5, ReverseIs, ZenonT(60)
    <2>2. \A i \in 1..n : n - i + 1 \in 1..n /\ n - (n - i + 1) + 1 = i
      BY <1>1
    <2>3. \A i \in 1..n : r[n - i + 1] = b[i]
      BY <1>5, <2>2
    <2>4. QED
      BY <2>1, <2>3
  <1>7. PICK t : t = Reverse(p) /\ t \in Seq(Declared) /\ Len(t) = Len(p)
                 /\ \A i \in 1..Len(p) : t[i] = p[Len(p) - i + 1]
    BY <1>1, ReverseIs
  <1>8. \A i \in 1..n : u[i] = t[i]
    <2>1. \A i \in 1..n : i \in 1..Len(p) /\ Len(p) - i + 1 = Len(p) + 1 - i
      BY <1>1
    <2>2. QED
      BY <1>2, <1>6, <1>7, <2>1
  <1>9. IsPrefix(u, t)
    BY <1>1, <1>6, <1>7, <1>8, PrefixIs
  <1>10. QED
    BY <1>2, <1>4, <1>5, <1>6, <1>7, <1>9 DEF IsSuffix

LEMMA TornFits ==
    ASSUME NEW q, Climbs(q), NEW n \in 0..Len(q)
    PROVE  /\ Torn(q, n) \in Seq(Declared) /\ IsPrefix(Torn(q, n), q)
           /\ Len(Torn(q, n)) = n /\ \A i \in 1..n : Torn(q, n)[i] = q[i]
  <1>1. Len(q) \in Nat /\ n \in Nat /\ q \in Seq(Declared)
    BY DEF Climbs
  <1>2. PICK t : /\ t = Torn(q, n) /\ t \in Seq(Declared) /\ Len(t) = n
                 /\ \A i \in 1..n : t[i] = q[i]
    <2>1. Torn(q, n) = [i \in 1..n |-> q[i]]
      BY <1>1 DEF Torn
    <2>2. \A i \in 1..n : q[i] \in Declared
      BY <1>1
    <2>3. Torn(q, n) \in Seq(Declared)
      BY <1>1, <2>1, <2>2, IsASeq
    <2>4. QED
      BY <1>1, <2>1, <2>3
  <1>3. IsPrefix(t, q)
    BY <1>1, <1>2, PrefixIs
  <1>4. QED
    BY <1>2, <1>3

\* An object, at any time of its life.
Formed(c, s, p, q, o) ==
    /\ Lineage(c, s, p, q)
    /\ \E v \in Declared \union {NoClass}, n \in 0..Len(p), k \in 0..Len(q) :
        /\ o = Object(c, s, v, Built(p, n), Torn(q, k))
        /\ k > 0 => n = Len(p)

LEMMA FormedIs ==
    ASSUME NEW c, NEW s, NEW p, NEW q, Lineage(c, s, p, q), NEW o, NEW f, NEW l,
           Stage(c, s, p, q, o, f, l)
    PROVE  Formed(c, s, p, q, o)
  <1>1. /\ c \in Declared /\ p[1] = c /\ q[1] = s /\ Climbs(p) /\ Climbs(q)
        /\ Len(p) \in Nat /\ Len(q) \in Nat
    BY DEF Lineage, Climbs
  <1>2. \A k \in 1..Len(p) : p[k] \in Declared
    BY <1>1 DEF Climbs
  <1>3. \A d : d \in Declared => Held(d) \in Declared \union {NoClass}
    BY DEF Held
  <1>4. Torn(q, 0) = <<>> /\ 0 \in 0..Len(q) /\ ~(0 > 0)
    BY <1>1, TornIs
  <1>5. CASE \E k \in 1..Len(p) : Begins(p, s, k, o, f, l)
    <2>1. Built(p, 0) = <<>> /\ 0 \in 0..Len(p)
      BY <1>1 DEF Built
    <2>2. o = Object(c, s, NoClass, Built(p, 0), Torn(q, 0))
      BY <1>1, <1>4, <1>5, <2>1 DEF Begins
    <2>3. QED
      BY <1>4, <2>1, <2>2 DEF Formed
  <1>6. CASE \E k \in 1..Len(p) : HasBase(p, s, k, o, f, l)
    <2>1. PICK k \in 1..Len(p) : HasBase(p, s, k, o, f, l)
      BY <1>6
    <2>2. PICK v : /\ v = IF k < Len(p) THEN Held(p[k + 1]) ELSE NoClass
                   /\ o = Object(c, s, v, Built(p, Len(p) - k), Torn(q, 0))
      BY <1>1, <1>4, <2>1 DEF HasBase
    <2>3. v \in Declared \union {NoClass}
      <3>1. k < Len(p) => k + 1 \in 1..Len(p)
        BY <1>1
      <3>2. QED
        BY <1>2, <1>3, <2>2, <3>1
    <2>4. Len(p) - k \in 0..Len(p)
      BY <1>1
    <2>5. QED
      BY <1>4, <2>2, <2>3, <2>4 DEF Formed
  <1>7. CASE \E k \in 1..Len(p) : HasTable(p, s, k, o, f, l)
    <2>1. PICK k \in 1..Len(p) : HasTable(p, s, k, o, f, l)
      BY <1>7
    <2>2. o = Object(c, s, Held(p[k]), Built(p, Len(p) - k), Torn(q, 0))
      BY <1>1, <1>4, <2>1 DEF HasTable
    <2>3. Len(p) - k \in 0..Len(p) /\ Held(p[k]) \in Declared \union {NoClass}
      BY <1>1, <1>2, <1>3
    <2>4. QED
      BY <1>4, <2>2, <2>3 DEF Formed
  <1>8. CASE \E n \in 0..Len(q) : o = Whole(p, q, n)
    <2>1. PICK n \in 0..Len(q) : o = Object(c, s, Held(c), Built(p, Len(p)), Torn(q, n))
      BY <1>1, <1>8 DEF Whole
    <2>2. Len(p) \in 0..Len(p) /\ Held(c) \in Declared \union {NoClass}
      BY <1>1, <1>3
    <2>3. QED
      BY <2>1, <2>2 DEF Formed
  <1>9. \/ \E k \in 1..Len(p) : Begins(p, s, k, o, f, l)
        \/ \E k \in 1..Len(p) : HasBase(p, s, k, o, f, l)
        \/ \E k \in 1..Len(p) : HasTable(p, s, k, o, f, l)
        \/ \E n \in 0..Len(q) : o = Whole(p, q, n)
    <2>1. \A k \in 1..Len(q) :
              /\ k \in 0..Len(q) /\ k - 1 \in 0..Len(q)
              /\ \A n \in (k + 1)..Len(q) : n \in 0..Len(q)
      BY <1>1
    <2>2. CASE \E n \in 0..Len(q) : Rests(p, q, n, o, f, l)
      BY <2>2 DEF Rests
    <2>3. CASE \E k \in 1..Len(q) : Tears(p, q, k, o, f, l)
      BY <2>1, <2>3 DEF Tears
    <2>4. CASE \E k \in 1..Len(q) : HasTorn(p, q, k, o, f, l)
      BY <2>1, <2>4 DEF HasTorn
    <2>5. CASE \E k \in 1..Len(q) : \E n \in (k + 1)..Len(q) : TornAbove(p, q, k, n, o, f, l)
      BY <2>1, <2>5 DEF TornAbove
    <2>6. QED
      BY <2>2, <2>3, <2>4, <2>5 DEF Stage
  <1>10. QED
    BY <1>5, <1>6, <1>7, <1>8, <1>9

(* Constructors complete from the root class down, destructors run from    *)
(* the static class up, whether or not one of them returns early           *)
(* (constructor_prelude, destructor_postlude).                             *)
THEOREM TornDownInReverse == Spec => []TornInReverse
  <1>1. ASSUME CompileInv, Lives PROVE TornInReverse
    <2>1. SUFFICES ASSUME object # None
                   PROVE  /\ IsSuffix(Reverse(object.built), Chain(object.class))
                          /\ IsPrefix(object.torn, Chain(object.static))
                          /\ object.torn # <<>> =>
                                Len(object.built) = Len(Chain(object.class))
                          /\ InCode("dtor", "done") => Base(Top.class) \in ToSet(object.torn)
      BY DEF TornInReverse
    <2>2. phase \in Lowered /\ Life(object, frames, last)
      BY <1>1, <2>1 DEF Lives
    <2>3. PICK c, s, p, q : /\ Lineage(c, s, p, q)
                            /\ Stage(c, s, p, q, object, frames, last)
      BY <1>1, <2>2, TabledHolds, StageIs
    <2>4. PICK v \in Declared \union {NoClass}, n \in 0..Len(p), k \in 0..Len(q) :
              /\ object = Object(c, s, v, Built(p, n), Torn(q, k))
              /\ k > 0 => n = Len(p)
      BY <2>3, FormedIs DEF Formed
    <2>5. /\ object.class = c /\ object.static = s
          /\ object.built = Built(p, n) /\ object.torn = Torn(q, k)
      BY <2>4 DEF Object
    <2>6. Climbs(p) /\ Climbs(q) /\ Chain(c) = p /\ Chain(s) = q
      BY <2>3 DEF Lineage
    <2>7. IsSuffix(Reverse(object.built), Chain(object.class))
      BY <2>5, <2>6, BuiltFits
    <2>8. IsPrefix(object.torn, Chain(object.static))
      BY <2>5, <2>6, TornFits
    <2>9. ASSUME object.torn # <<>> PROVE Len(object.built) = Len(Chain(object.class))
      <3>1. k # 0
        BY <2>5, <2>6, <2>9, TornIs
      <3>2. n = Len(p)
        BY <2>4, <3>1
      <3>3. QED
        BY <2>5, <2>6, <3>2, BuiltFits
    <2>10. ASSUME InCode("dtor", "done") PROVE Base(Top.class) \in ToSet(object.torn)
      <3>1. IsAt(frames, "dtor", "done")
        BY <2>10 DEF InCode, IsAt, Top
      <3>2. PICK i \in 1..Len(q) :
                \E j \in (i + 1)..Len(q) : TornAbove(p, q, i, j, object, frames, last)
        BY <2>3, <3>1 DEF Stage, IsAt
      <3>3. PICK j \in (i + 1)..Len(q) : TornAbove(p, q, i, j, object, frames, last)
        BY <3>2
      <3>4. q \in Seq(Declared) /\ Len(q) \in Nat
        BY <2>6 DEF Climbs
      <3>5. Top.class = q[i]
        BY <3>3, <3>4, StackIs DEF TornAbove, Top
      <3>6. i + 1 \in 1..j /\ j \in 0..Len(q) /\ i < Len(q)
        BY <3>4
      <3>7. Base(q[i]) = q[i + 1]
        BY <2>6, <3>6 DEF Climbs
      <3>8. PICK t : /\ t = Torn(q, j) /\ object.torn = t /\ t \in Seq(Declared)
                     /\ Len(t) = j /\ t[i + 1] = q[i + 1]
        BY <2>6, <3>3, <3>6, TornFits DEF TornAbove, Whole, Object
      <3>9. i + 1 \in DOMAIN t
        BY <3>6, <3>8
      <3>10. QED
        BY <3>5, <3>7, <3>8, <3>9 DEF ToSet
    <2>11. QED
      BY <2>7, <2>8, <2>9, <2>10
  <1>2. QED
    BY <1>1, Invariance, PTL DEF IInv

\* The frames are those of constructors or destructors on a chain.
FramesFit(f) ==
    \A i \in DOMAIN f :
        /\ f[i].code \in {"ctor", "dtor"} /\ f[i].class \in Declared
        /\ f[i].step \in {"base", "table", "body", "done"}

LEMMA FramesAre ==
    ASSUME NEW code \in {"ctor", "dtor"}, NEW p, Climbs(p), NEW k \in 1..Len(p),
           NEW waits \in {"table", "done"}, NEW step \in {"base", "table", "body", "done"},
           NEW f, f = Stack(code, p, k, waits, step)
    PROVE  FramesFit(f)
  <1>1. DOMAIN f = 1..k /\ Len(p) \in Nat /\ \A i \in 1..Len(p) : p[i] \in Declared
    BY DEF Stack, Climbs
  <1>2. ASSUME NEW i \in 1..k
        PROVE  /\ f[i].code \in {"ctor", "dtor"} /\ f[i].class \in Declared
               /\ f[i].step \in {"base", "table", "body", "done"}
    <2>1. f[i] = Frame(code, p[i], IF i < k THEN waits ELSE step)
      BY DEF Stack
    <2>2. PICK x \in {"base", "table", "body", "done"} : f[i] = Frame(code, p[i], x)
      BY <2>1
    <2>3. p[i] \in Declared
      BY <1>1
    <2>4. QED
      BY <2>2, <2>3 DEF Frame
  <1>3. QED
    BY <1>1, <1>2 DEF FramesFit

LEMMA FramesTyped ==
    ASSUME NEW c, NEW s, NEW p, NEW q, Lineage(c, s, p, q), NEW o, NEW f, NEW l,
           Stage(c, s, p, q, o, f, l)
    PROVE  FramesFit(f)
  <1>1. Climbs(p) /\ Climbs(q)
    BY DEF Lineage
  <1>2. CASE f = <<>>
    BY <1>2 DEF FramesFit
  <1>3. CASE \E k \in 1..Len(p), step \in {"base", "table", "body", "done"} :
                f = Stack("ctor", p, k, "table", step)
    BY <1>1, <1>3, FramesAre
  <1>4. CASE \E k \in 1..Len(q), step \in {"base", "table", "body", "done"} :
                f = Stack("dtor", q, k, "done", step)
    BY <1>1, <1>4, FramesAre
  <1>5. QED
    BY <1>2, <1>3, <1>4
       DEF Stage, Begins, HasBase, HasTable, Tears, HasTorn, TornAbove

\* A call is one of a declared class's methods.
LEMMA ReachesTyped ==
    ASSUME NEW c, NEW l, Reaches(c, l), l # None
    PROVE  l.method \in Methods /\ l.via \in Declared
  BY DEF Reaches

LEMMA LifeTyped ==
    ASSUME Tabled, NEW o, NEW f, NEW l, Life(o, f, l)
    PROVE  /\ o.class \in Declared /\ o.static \in Declared
           /\ o.vtable \in Declared \union {NoClass}
           /\ o.built \in Seq(Declared) /\ o.torn \in Seq(Declared)
           /\ FramesFit(f)
           /\ l # None => l.method \in Methods /\ l.via \in Declared
  <1>1. PICK c, s, p, q : Lineage(c, s, p, q) /\ Stage(c, s, p, q, o, f, l)
    BY StageIs
  <1>2. PICK v \in Declared \union {NoClass}, n \in 0..Len(p), k \in 0..Len(q) :
            o = Object(c, s, v, Built(p, n), Torn(q, k))
    BY <1>1, FormedIs DEF Formed
  <1>3. /\ Climbs(p) /\ Climbs(q) /\ c \in Declared /\ s \in Declared
    BY <1>1 DEF Lineage
  <1>4. Built(p, n) \in Seq(Declared) /\ Torn(q, k) \in Seq(Declared)
    BY <1>3, BuiltFits, TornFits
  <1>5. l # None => \E d : Reaches(d, l)
    BY <1>1 DEF Stage, Rests, Begins, HasBase, HasTable, Tears, HasTorn, TornAbove
  <1>6. FramesFit(f)
    BY <1>1, FramesTyped
  <1>7. QED
    BY <1>2, <1>3, <1>4, <1>5, <1>6, ReachesTyped DEF Object

(* The variables have their types, through all the phases of the compiler  *)
(* and the run of the program it makes.                                    *)
THEOREM WellTyped == Spec => []TypeOK
  <1>1. ASSUME CompileInv, Lives PROVE TypeOK
    <2>1. AnalysisInv /\ OrderedSoFar /\ TablesSoFar
      BY <1>1 DEF CompileInv
    <2>2. /\ unit \in Units /\ at \in 1..Len(unit)
          /\ phase \in Analyzing \union Analyzed \union {"rejected"}
          /\ UnitFits /\ DOMAIN unit = 1..Len(unit)
      BY <2>1, UnitTyped DEF AnalysisInv, Compiled
    <2>3. /\ collected \subseteq Declared /\ visited \subseteq collected
          /\ walk \in Seq(collected) /\ IsInjective(walk)
      BY <2>1 DEF AnalysisInv, CollectedSoFar, WalkedSoFar
    <2>4. Declared \subseteq Names
      BY <2>2, DeclaredAre
    <2>5. pending \in Seq(Range(unit)) /\ ordered \in Seq(Declared)
      <3>1. CASE phase \in Analyzed
        BY <2>1, <3>1 DEF OrderedSoFar, Ordering
      <3>2. CASE phase \in Analyzing \union {"rejected"}
        <4>1. ordered = <<>> /\ pending = unit
          BY <2>1, <3>2 DEF OrderedSoFar
        <4>2. unit \in Seq(Range(unit))
          <5>1. \A i \in 1..Len(unit) : unit[i] \in Range(unit)
            BY <2>2 DEF Range
          <5>2. unit \in Seq(Declarations)
            BY <2>2 DEF UnitFits
          <5>3. QED
            BY <5>1, <5>2, ElementOfSeq
        <4>3. QED
          BY <4>1, <4>2, EmptySeq
      <3>3. QED
        BY <2>2, <3>1, <3>2
    <2>6. DOMAIN slots = BuiltTables /\ DOMAIN impls = BuiltTables
      BY <2>1 DEF TablesSoFar
    <2>7. BuiltTables \subseteq Declared
      <3>1. CASE phase = "tables"
        <4>1. Sorted
          BY <2>1, <3>1, SortedHolds DEF Analyzed
        <4>2. \A i \in 1..(at - 1) : i \in 1..Len(unit)
          BY <2>2
        <4>3. \A i \in 1..Len(unit) : ordered[i] \in Declared
          BY <4>1 DEF Sorted
        <4>4. QED
          BY <3>1, <4>2, <4>3 DEF BuiltTables
      <3>2. CASE phase # "tables"
        BY <3>2 DEF BuiltTables
      <3>3. QED
        BY <3>1, <3>2
    <2>8. ASSUME NEW c \in DOMAIN slots
          PROVE  /\ slots[c] \in Seq(Methods) /\ IsInjective(slots[c])
                 /\ impls[c] \in Seq(Declared \union {NoClass})
                 /\ Len(slots[c]) = Len(impls[c])
      BY <2>1, <2>6, <2>8 DEF TablesSoFar, TableIs, TableShape
    <2>9. /\ object # None =>
              /\ object.class \in Declared /\ object.static \in Declared
              /\ object.vtable \in Declared \union {NoClass}
              /\ object.built \in Seq(Declared) /\ object.torn \in Seq(Declared)
          /\ FramesFit(frames)
          /\ last # None => last.method \in Methods /\ last.via \in Declared
      <3>1. CASE object = None /\ frames = <<>> /\ last = None
        BY <3>1 DEF FramesFit
      <3>2. CASE phase \in Lowered /\ Life(object, frames, last)
        <4>1. Tabled
          BY <1>1, <3>2, TabledHolds
        <4>2. QED
          BY <3>2, <4>1, LifeTyped
      <3>3. QED
        BY <1>1, <3>1, <3>2 DEF Lives
    <2>10. phase \in {"collect", "validate", "cycles", "order", "tables", "run",
                      "rejected", "exited"}
      BY <2>2 DEF Analyzing, Analyzed
    <2>11. QED
      BY <2>2, <2>3, <2>4, <2>5, <2>6, <2>7, <2>8, <2>9, <2>10 DEF TypeOK, FramesFit
  <1>2. QED
    BY <1>1, Invariance, PTL DEF IInv

-----------------------------------------------------------------------------
(* Templates.  One scan after the other misses nothing: what was not seen  *)
(* is still in the text, and what was seen is in the queue or answered.    *)

\* What a template is made for, and whether a use needs nothing more.
Specialising(u) == u \in TemplateUses /\ Makeable(u)
Answered(u) == ~Makeable(u) \/ Symbol(u) \in DOMAIN instances

TextsTyped ==
    /\ templates \in TemplateSets /\ program \in Programs
    /\ text \in Seq(TemplateUses) /\ queue \in Seq(TemplateUses)
    /\ seen \in SUBSET TemplateUses

InstanceIs(s, made) ==
    /\ Specialising(made.of) /\ Symbol(made.of) = s
    /\ made.body = Clone(made.of)
InstancesFit == \A s \in DOMAIN instances : InstanceIs(s, instances[s])

UsesNoticed ==
    \A u \in Uses : u \in ToSet(text) \/ u \in seen \/ u.name \notin DOMAIN templates
SeenHandled == \A u \in seen : u \in ToSet(queue) \/ Answered(u)

TInv == TextsTyped /\ InstancesFit /\ UsesNoticed /\ SeenHandled

-----------------------------------------------------------------------------
(* The arguments of a use, as a dictionary. *)

LEMMA ParamsAre ==
    ASSUME templates \in TemplateSets, NEW u, Specialising(u)
    PROVE  /\ templates[u.name] \in TemplateDecls
           /\ Params(u) \in Seq(Seq(STRING)) /\ u.args \in Seq(Types)
           /\ Len(Params(u)) = Len(u.args)
  <1>1. u.name \in DOMAIN templates /\ u \in TemplateUses
    BY DEF Specialising, Makeable
  <1>2. templates[u.name] \in TemplateDecls
    BY <1>1, TextsAssumption
  <1>3. QED
    BY <1>1, <1>2 DEF Specialising, Makeable, TemplateUses, TemplateDecls, Params

LEMMA MappingIs ==
    ASSUME templates \in TemplateSets, NEW u, Specialising(u),
           NEW p \in ToSet(Params(u))
    PROVE  Mapping(u)[p] \in Types
  <1>1. PICK n \in Nat : n = Len(u.args) /\ n = Len(Params(u))
    BY ParamsAre, LenProperties
  <1>2. DOMAIN u.args = 1..n /\ DOMAIN Params(u) = 1..n
    BY <1>1, ParamsAre, LenProperties
  <1> DEFINE S == {k \in DOMAIN u.args : Params(u)[k] = p}
  <1>3. S \in SUBSET (0..n) /\ S # {}
    <2>1. PICK k \in DOMAIN Params(u) : p = Params(u)[k]
      BY DEF ToSet
    <2>2. k \in S
      BY <1>2, <2>1
    <2>3. QED
      BY <1>2, <2>2
  <1>4. \E e \in S : \A d \in S : d <= e
    <2> HIDE DEF S
    <2>1. QED
      BY <1>1, <1>3, GreatestExists
  <1>5. Max(S) \in S
    <2>1. \E e \in S : \A d \in S : e >= d
      <3>1. S \subseteq Int
        BY <1>3
      <3>2. QED
        BY <1>4, <3>1
    <2>2. QED
      BY <2>1 DEF Max
  <1>6. Mapping(u)[p] = u.args[Max(S)]
    BY DEF Mapping
  <1>7. Max(S) \in 1..n
    BY <1>2, <1>5
  <1>8. QED
    BY <1>1, <1>6, <1>7, ParamsAre, ElementOfSeq

\* A type with an argument in the place of its name.
LEMMA PutIs ==
    ASSUME templates \in TemplateSets, NEW u, Specialising(u),
           NEW type \in Types, type.name \in ToSet(Params(u))
    PROVE  /\ Put(type, u) \in Types
           /\ Put(type, u).name = Mapping(u)[type.name].name
  <1>1. PICK a \in Types : a = Mapping(u)[type.name]
    BY MappingIs
  <1>2. a.stars \in Nat /\ type.stars \in Nat /\ a.name \in Seq(STRING)
    BY DEF Types
  <1>3. Put(type, u) = [a EXCEPT !.stars = a.stars + type.stars]
    BY <1>1 DEF Put
  <1>4. a = [name |-> a.name, stars |-> a.stars]
    BY DEF Types
  <1>5. Put(type, u) = [name |-> a.name, stars |-> a.stars + type.stars]
    BY <1>3, <1>4
  <1>6. QED
    BY <1>1, <1>2, <1>5 DEF Types

-----------------------------------------------------------------------------
(* One parameter after the other. *)

NextPut(t, k, u) ==
    IF k \in Keys(u) /\ t.name = Params(u)[k] THEN Put(t, u) ELSE t
Putting(f, type, u, n) ==
    f = [k \in 0..n |-> IF k = 0 THEN type ELSE NextPut(f[k - 1], k, u)]

LEMMA PuttingExists ==
    ASSUME NEW type, NEW u, NEW n \in Nat
    PROVE  \E f : Putting(f, type, u, n)
  <1> DEFINE Good == {m \in Nat : \E f : Putting(f, type, u, m)}
  <1>1. 0 \in Good
    <2>1. Putting([k \in 0..0 |-> type], type, u, 0)
      BY DEF Putting
    <2>2. QED
      BY <2>1
  <1>2. ASSUME NEW m \in Nat, m \in Good PROVE m + 1 \in Good
    <2>1. PICK g : Putting(g, type, u, m)
      BY <1>2
    <2> DEFINE h == [k \in 0..(m + 1) |->
                       IF k = m + 1 THEN NextPut(g[m], m + 1, u) ELSE g[k]]
    <2>2. ASSUME NEW k \in 0..(m + 1)
          PROVE  h[k] = IF k = 0 THEN type ELSE NextPut(h[k - 1], k, u)
      <3>1. CASE k = m + 1
        BY <3>1
      <3>2. CASE k # m + 1
        <4>1. k \in 0..m /\ h[k] = g[k]
          BY <3>2
        <4>2. k # 0 => k - 1 \in 0..(m + 1) /\ k - 1 # m + 1
          BY <4>1
        <4>3. k # 0 => h[k - 1] = g[k - 1]
          BY <4>2
        <4>4. g[k] = IF k = 0 THEN type ELSE NextPut(g[k - 1], k, u)
          BY <2>1, <4>1 DEF Putting
        <4>5. QED
          BY <4>1, <4>3, <4>4
      <3>3. QED
        BY <3>1, <3>2
    <2>3. Putting(h, type, u, m + 1)
      <3> DEFINE d == [k \in 0..(m + 1) |-> IF k = 0 THEN type ELSE NextPut(h[k - 1], k, u)]
      <3>1. h = d
        BY <2>2
      <3>2. QED
        BY <3>1 DEF Putting
    <2>4. QED
      <3> HIDE DEF h
      <3>1. QED
        BY <2>3
  <1>3. n \in Good
    <2> HIDE DEF Good
    <2>1. QED
      BY <1>1, <1>2, Inductive
  <1>4. QED
    BY <1>3

LEMMA SubstitutedIs ==
    ASSUME NEW type, NEW u, NEW n \in Nat, Len(u.args) = n
    PROVE  \E f : Putting(f, type, u, n) /\ Substituted(type, u) = f[n]
  <1> DEFINE Is(g) ==
        g = [k \in 0..Len(u.args) |->
                IF k = 0 THEN type
                ELSE IF k \in Keys(u) /\ g[k - 1].name = Params(u)[k]
                     THEN Put(g[k - 1], u) ELSE g[k - 1]]
      To == CHOOSE g : Is(g)
  <1>1. \A g : Is(g) <=> Putting(g, type, u, n)
    BY DEF Putting, NextPut
  <1>2. \E g : Is(g)
    BY <1>1, PuttingExists
  <1>3. Is(To)
    <2> HIDE DEF Is
    <2>1. QED
      BY <1>2
  <1>4. Substituted(type, u) = To[n]
    BY DEF Substituted
  <1>5. QED
    <2> HIDE DEF Is, To
    <2>1. QED
      BY <1>1, <1>3, <1>4

\* A parameter is in the dictionary at its first place.
LEMMA FirstIsKey ==
    ASSUME templates \in TemplateSets, NEW u, Specialising(u), NEW n \in Nat,
           n = Len(u.args), NEW k \in 1..n
    PROVE  \E f \in 1..k : f \in Keys(u) /\ Params(u)[f] = Params(u)[k]
  <1> DEFINE S == {j \in 1..k : Params(u)[j] = Params(u)[k]}
  <1>1. S \in SUBSET Nat /\ S # {}
    OBVIOUS
  <1>2. PICK f \in S : \A d \in S : f <= d
    <2> HIDE DEF S
    <2>1. QED
      BY <1>1, LeastExists
  <1>3. DOMAIN u.args = 1..n
    BY ParamsAre, LenProperties
  <1>4. ASSUME NEW j \in 1..(f - 1) PROVE Params(u)[j] # Params(u)[f]
    <2>1. j \in 1..k /\ ~(f <= j)
      BY <1>2
    <2>2. j \notin S
      BY <1>2, <2>1
    <2>3. QED
      BY <1>2, <2>1, <2>2
  <1>5. QED
    BY <1>2, <1>3, <1>4 DEF Keys

\* What the parameters up to one have done to a type.
PutTo(type, u, k) ==
    IF \E j \in 1..k : Params(u)[j] = type.name THEN Put(type, u) ELSE type

LEMMA PutNext ==
    ASSUME templates \in TemplateSets, NEW u, Specialising(u), ~Captured(u),
           NEW type \in Types, NEW n \in Nat, n = Len(u.args),
           NEW k \in 1..n
    PROVE  NextPut(PutTo(type, u, k - 1), k, u) = PutTo(type, u, k)
  <1>1. DOMAIN Params(u) = 1..n /\ DOMAIN u.args = 1..n
    BY ParamsAre, LenProperties
  <1>2. CASE \E j \in 1..(k - 1) : Params(u)[j] = type.name
    <2>1. PICK j \in 1..(k - 1) : Params(u)[j] = type.name
      BY <1>2
    <2>2. j \in 1..n /\ j \in 1..k
      OBVIOUS
    <2>3. PICK f \in 1..j : f \in Keys(u) /\ Params(u)[f] = type.name
      BY <2>1, <2>2, FirstIsKey
    <2>4. type.name \in ToSet(Params(u))
      BY <1>1, <2>1, <2>2 DEF ToSet
    <2>5. Put(type, u).name = Mapping(u)[Params(u)[f]].name
      BY <2>3, <2>4, PutIs
    <2>6. k \in Keys(u) => Put(type, u).name # Params(u)[k]
      <3>1. f < k
        BY <2>3
      <3>2. QED
        BY <2>3, <2>5, <3>1 DEF Captured
    <2>7. PutTo(type, u, k - 1) = Put(type, u) /\ PutTo(type, u, k) = Put(type, u)
      BY <2>1, <2>2 DEF PutTo
    <2>8. QED
      BY <2>6, <2>7 DEF NextPut
  <1>3. CASE /\ ~\E j \in 1..(k - 1) : Params(u)[j] = type.name
             /\ Params(u)[k] = type.name
    <2>1. k \in Keys(u)
      BY <1>1, <1>3 DEF Keys
    <2>2. PutTo(type, u, k - 1) = type /\ PutTo(type, u, k) = Put(type, u)
      BY <1>3 DEF PutTo
    <2>3. QED
      BY <1>3, <2>1, <2>2 DEF NextPut
  <1>4. CASE /\ ~\E j \in 1..(k - 1) : Params(u)[j] = type.name
             /\ Params(u)[k] # type.name
    <2>1. ~\E j \in 1..k : Params(u)[j] = type.name
      BY <1>4
    <2>2. PutTo(type, u, k - 1) = type /\ PutTo(type, u, k) = type
      BY <1>4, <2>1 DEF PutTo
    <2>3. QED
      BY <1>4, <2>2 DEF NextPut
  <1>5. QED
    BY <1>2, <1>3, <1>4

\* Without a capture the order of the parameters does not show.
LEMMA SubstitutedAtOnce ==
    ASSUME templates \in TemplateSets, NEW u, Specialising(u), ~Captured(u),
           NEW type \in Types
    PROVE  Substituted(type, u) = AtOnce(type, u)
  <1>1. PICK n \in Nat : n = Len(u.args) /\ n = Len(Params(u))
    BY ParamsAre, LenProperties
  <1>2. PICK f : Putting(f, type, u, n) /\ Substituted(type, u) = f[n]
    BY <1>1, SubstitutedIs
  <1> DEFINE S == {k \in Nat : k <= n => f[k] = PutTo(type, u, k)}
  <1>3. 0 \in S
    <2>1. f[0] = type
      BY <1>2 DEF Putting
    <2>2. QED
      BY <2>1 DEF PutTo
  <1>4. ASSUME NEW k \in Nat, k \in S PROVE k + 1 \in S
    <2>1. SUFFICES ASSUME k + 1 <= n PROVE f[k + 1] = PutTo(type, u, k + 1)
      OBVIOUS
    <2>2. PICK l \in 1..n : l = k + 1
      BY <2>1
    <2>3. l \in 0..n /\ l - 1 = k
      BY <2>2
    <2>4. f[l] = NextPut(f[l - 1], l, u)
      BY <1>2, <2>2, <2>3 DEF Putting
    <2>5. f[l - 1] = PutTo(type, u, l - 1)
      BY <1>4, <2>2, <2>3
    <2>6. NextPut(PutTo(type, u, l - 1), l, u) = PutTo(type, u, l)
      BY <1>1, PutNext
    <2>7. QED
      BY <2>2, <2>4, <2>5, <2>6
  <1>5. n \in S
    <2> HIDE DEF S
    <2>1. QED
      BY <1>3, <1>4, Inductive
  <1>6. DOMAIN Params(u) = 1..n
    BY <1>1, ParamsAre, LenProperties
  <1>7. (\E j \in 1..n : Params(u)[j] = type.name) <=> type.name \in ToSet(Params(u))
    BY <1>6 DEF ToSet
  <1>8. QED
    BY <1>2, <1>5, <1>7 DEF PutTo, AtOnce

\* With or without one, what comes of a type is a type.
LEMMA SubstitutedTyped ==
    ASSUME templates \in TemplateSets, NEW u, Specialising(u), NEW type \in Types
    PROVE  Substituted(type, u) \in Types
  <1>1. PICK n \in Nat : n = Len(u.args) /\ n = Len(Params(u))
    BY ParamsAre, LenProperties
  <1>2. PICK f : Putting(f, type, u, n) /\ Substituted(type, u) = f[n]
    BY <1>1, SubstitutedIs
  <1>3. DOMAIN Params(u) = 1..n
    BY <1>1, ParamsAre, LenProperties
  <1> DEFINE S == {k \in Nat : k <= n => f[k] \in Types}
  <1>4. 0 \in S
    BY <1>2 DEF Putting
  <1>5. ASSUME NEW k \in Nat, k \in S PROVE k + 1 \in S
    <2>1. SUFFICES ASSUME k + 1 <= n PROVE f[k + 1] \in Types
      OBVIOUS
    <2>2. k + 1 \in 1..n /\ k + 1 \in 0..n /\ k + 1 - 1 = k /\ f[k] \in Types
      BY <1>5, <2>1
    <2>3. f[k + 1] = NextPut(f[k], k + 1, u)
      BY <1>2, <2>2 DEF Putting
    <2>4. f[k].name = Params(u)[k + 1] => f[k].name \in ToSet(Params(u))
      BY <1>3, <2>2 DEF ToSet
    <2>5. f[k].name = Params(u)[k + 1] => Put(f[k], u) \in Types
      BY <2>2, <2>4, PutIs
    <2>6. QED
      BY <2>2, <2>3, <2>5 DEF NextPut
  <1>6. n \in S
    <2> HIDE DEF S
    <2>1. QED
      BY <1>4, <1>5, Inductive
  <1>7. QED
    BY <1>2, <1>6

LEMMA CloneTyped ==
    ASSUME templates \in TemplateSets, NEW u, Specialising(u)
    PROVE  Clone(u) \in Seq(TemplateUses)
  <1>1. PICK body \in Seq(TemplateUses) : body = templates[u.name].body
    BY ParamsAre DEF TemplateDecls
  <1>2. PICK n \in Nat : n = Len(body) /\ DOMAIN body = 1..n
    BY LenProperties
  <1> DEFINE With(k) == [body[k] EXCEPT !.args =
                            [j \in DOMAIN @ |-> Substituted(@[j], u)]]
  <1>3. ASSUME NEW k \in 1..n PROVE With(k) \in TemplateUses
    <2>1. body[k] \in TemplateUses
      BY <1>2, ElementOfSeq
    <2>2. PICK name \in STRING, args \in Seq(Types) : body[k] = [name |-> name, args |-> args]
      BY <2>1 DEF TemplateUses
    <2>3. PICK m \in Nat : m = Len(args) /\ DOMAIN args = 1..m
      BY LenProperties
    <2>4. \A j \in 1..m : args[j] \in Types
      BY <2>3, ElementOfSeq
    <2>5. \A j \in 1..m : Substituted(args[j], u) \in Types
      BY <2>4, SubstitutedTyped
    <2>6. [j \in 1..m |-> Substituted(args[j], u)] \in Seq(Types)
      BY <2>5
    <2>7. PICK put : put = [j \in 1..m |-> Substituted(args[j], u)]
      OBVIOUS
    <2>8. body[k].args = args
      BY <2>2
    <2>9. With(k) = [body[k] EXCEPT !.args = put]
      BY <2>3, <2>7, <2>8
    <2>10. [body[k] EXCEPT !.args = put] = [name |-> name, args |-> put]
      BY <2>2
    <2>11. QED
      BY <2>6, <2>7, <2>9, <2>10 DEF TemplateUses
  <1>4. Clone(u) = [k \in 1..n |-> With(k)]
    BY <1>1, <1>2 DEF Clone
  <1>5. QED
    <2> HIDE DEF With
    <2>1. QED
      BY <1>3, <1>4

\* What an instance is, is what it should be.
LEMMA CloneSpecialised ==
    ASSUME templates \in TemplateSets, NEW u, Specialising(u), ~Captured(u),
           NEW k \in DOMAIN templates[u.name].body,
           NEW j \in DOMAIN templates[u.name].body[k].args
    PROVE  Clone(u)[k].args[j] = AtOnce(templates[u.name].body[k].args[j], u)
  <1>1. PICK body \in Seq(TemplateUses) : body = templates[u.name].body
    BY ParamsAre DEF TemplateDecls
  <1>2. body[k] \in TemplateUses
    BY <1>1, ElementOfSeq, LenProperties
  <1>3. PICK name \in STRING, args \in Seq(Types) : body[k] = [name |-> name, args |-> args]
    BY <1>2 DEF TemplateUses
  <1>4. args[j] \in Types
    BY <1>1, <1>3, ElementOfSeq, LenProperties
  <1>5. Clone(u)[k] = [name |-> name, args |-> [l \in DOMAIN args |-> Substituted(args[l], u)]]
    BY <1>1, <1>3 DEF Clone
  <1>6. Clone(u)[k].args[j] = Substituted(args[j], u)
    BY <1>1, <1>3, <1>5
  <1>7. QED
    BY <1>1, <1>3, <1>4, <1>6, SubstitutedAtOnce

-----------------------------------------------------------------------------
(* The steps. *)

LEMMA UsesAre ==
    ASSUME NEW u
    PROVE  u \in Uses <=> \/ u \in ToSet(program)
                          \/ \E s \in DOMAIN instances : u \in ToSet(instances[s].body)
  BY DEF Uses

\* The elements of a text, those behind its head and those with one more.
LEMMA TailHolds ==
    ASSUME NEW S, NEW s \in Seq(S), s # <<>>
    PROVE  /\ Head(s) \in S /\ Tail(s) \in Seq(S)
           /\ ToSet(s) = {Head(s)} \union ToSet(Tail(s))
  <1>1. PICK n \in Nat : n = Len(s) /\ DOMAIN s = 1..n /\ n # 0
    BY LenProperties, EmptySeq
  <1>2. /\ Head(s) = s[1] /\ Tail(s) \in Seq(S) /\ Len(Tail(s)) = n - 1
        /\ \A i \in 1..(n - 1) : Tail(s)[i] = s[i + 1]
    BY <1>1, HeadTailProperties
  <1>3. DOMAIN Tail(s) = 1..(n - 1)
    BY <1>1, <1>2, LenProperties
  <1>4. \A i \in 1..n : i = 1 \/ (i - 1 \in 1..(n - 1) /\ i - 1 + 1 = i)
    BY <1>1
  <1>5. \A i \in 1..(n - 1) : i + 1 \in 1..n
    BY <1>1
  <1>6. 1 \in 1..n
    BY <1>1
  <1>7. ASSUME NEW x \in ToSet(s) PROVE x = Head(s) \/ x \in ToSet(Tail(s))
    <2>1. PICK i \in 1..n : x = s[i]
      BY <1>1 DEF ToSet
    <2>2. CASE i = 1
      BY <1>2, <2>1, <2>2
    <2>3. CASE i # 1
      <3>1. PICK l \in 1..(n - 1) : l + 1 = i
        BY <1>4, <2>3
      <3>2. x = Tail(s)[l]
        BY <1>2, <2>1, <3>1
      <3>3. QED
        BY <1>3, <3>2 DEF ToSet
    <2>4. QED
      BY <2>2, <2>3
  <1>8. ASSUME NEW x, x = Head(s) \/ x \in ToSet(Tail(s)) PROVE x \in ToSet(s)
    <2>1. CASE x = Head(s)
      BY <1>1, <1>2, <1>6, <2>1 DEF ToSet
    <2>2. CASE x \in ToSet(Tail(s))
      <3>1. PICK i \in 1..(n - 1) : x = Tail(s)[i]
        BY <1>3, <2>2 DEF ToSet
      <3>2. QED
        BY <1>1, <1>2, <1>5, <3>1 DEF ToSet
    <2>3. QED
      BY <1>8, <2>1, <2>2
  <1>9. Head(s) \in S
    BY <1>1, <1>2, <1>6, ElementOfSeq
  <1>10. QED
    BY <1>2, <1>7, <1>8, <1>9

LEMMA AppendHolds ==
    ASSUME NEW S, NEW s \in Seq(S), NEW x \in S
    PROVE  Append(s, x) \in Seq(S) /\ ToSet(Append(s, x)) = ToSet(s) \union {x}
  <1>1. PICK n \in Nat : n = Len(s) /\ DOMAIN s = 1..n
    BY LenProperties
  <1>2. /\ Append(s, x) \in Seq(S) /\ Len(Append(s, x)) = n + 1
        /\ Append(s, x)[n + 1] = x
        /\ \A i \in 1..n : Append(s, x)[i] = s[i]
    BY <1>1, AppendProperties
  <1>3. DOMAIN Append(s, x) = (1..n) \union {n + 1}
    BY <1>1, <1>2, LenProperties
  <1>4. QED
    BY <1>1, <1>2, <1>3 DEF ToSet

LEMMA ScanKeeps ==
    ASSUME TInv, Scan
    PROVE  TInv'
  <1>1. PICK h : h = Head(text)
    OBVIOUS
  <1>2. /\ h \in TemplateUses /\ text' \in Seq(TemplateUses)
        /\ ToSet(text) = {h} \union ToSet(text')
    <2>1. text # <<>> /\ text \in Seq(TemplateUses) /\ text' = Tail(text)
      BY DEF TInv, TextsTyped, Scan
    <2>2. QED
      BY <1>1, <2>1, TailHolds
  <1>3. UNCHANGED <<templates, program, instances>>
    BY DEF Scan
  <1>4. /\ \A u : Makeable(u)' <=> Makeable(u)
        /\ \A u : Symbol(u)' = Symbol(u)
        /\ \A u : Clone(u)' = Clone(u)
        /\ Uses' = Uses
    BY <1>3 DEF Makeable, Symbol, Clone, Substituted, Keys, Put, Mapping, Params, Uses
  <1>5. InstancesFit'
    BY <1>3, <1>4 DEF TInv, InstancesFit, InstanceIs, Specialising
  <1>6. CASE h.name \in DOMAIN templates /\ h \notin seen
    <2>1. seen' = seen \union {h} /\ queue' = Append(queue, h)
      BY <1>1, <1>6 DEF Scan
    <2>2. queue' \in Seq(TemplateUses) /\ ToSet(queue') = ToSet(queue) \union {h}
      BY <1>2, <2>1, AppendHolds DEF TInv, TextsTyped
    <2>3. TextsTyped'
      BY <1>2, <1>3, <2>1, <2>2 DEF TInv, TextsTyped
    <2>4. UsesNoticed'
      BY <1>2, <1>3, <1>4, <2>1 DEF TInv, UsesNoticed
    <2>5. SeenHandled'
      BY <1>3, <1>4, <2>1, <2>2 DEF TInv, SeenHandled, Answered
    <2>6. QED
      BY <1>5, <2>3, <2>4, <2>5 DEF TInv
  <1>7. CASE ~(h.name \in DOMAIN templates /\ h \notin seen)
    <2>1. seen' = seen /\ queue' = queue
      BY <1>1, <1>7 DEF Scan
    <2>2. TextsTyped'
      BY <1>2, <1>3, <2>1 DEF TInv, TextsTyped
    <2>3. UsesNoticed'
      BY <1>2, <1>3, <1>4, <1>7, <2>1 DEF TInv, UsesNoticed
    <2>4. SeenHandled'
      BY <1>3, <1>4, <2>1 DEF TInv, SeenHandled, Answered
    <2>5. QED
      BY <1>5, <2>2, <2>3, <2>4 DEF TInv
  <1>8. QED
    BY <1>6, <1>7

LEMMA DequeueReads ==
    ASSUME TInv, Dequeue
    PROVE  /\ Use \in TemplateUses /\ queue' \in Seq(TemplateUses)
           /\ ToSet(queue) = {Use} \union ToSet(queue')
           /\ UNCHANGED <<templates, program, seen>>
           /\ ToSet(text) = {}
  <1>1. queue # <<>> /\ queue \in Seq(TemplateUses) /\ queue' = Tail(queue)
    BY DEF TInv, TextsTyped, Dequeue
  <1>2. ToSet(text) = {}
    <2>1. Len(text) = 0 /\ text \in Seq(TemplateUses)
      BY EmptySeq DEF TInv, TextsTyped, Dequeue
    <2>2. QED
      BY <2>1, LenProperties DEF ToSet
  <1>3. QED
    BY <1>1, <1>2, TailHolds DEF Use, Dequeue

LEMMA PassKeeps ==
    ASSUME TInv, Pass
    PROVE  TInv'
  <1>1. PICK h : h = Use
    OBVIOUS
  <1>2. /\ h \in TemplateUses /\ queue' \in Seq(TemplateUses)
        /\ ToSet(queue) = {h} \union ToSet(queue')
        /\ UNCHANGED <<templates, program, seen>>
    BY <1>1, DequeueReads DEF Pass
  <1>3. UNCHANGED <<text, instances>> /\ Answered(h)
    BY <1>1 DEF Pass, Answered
  <1>4. /\ \A u : Makeable(u)' <=> Makeable(u)
        /\ \A u : Symbol(u)' = Symbol(u)
        /\ \A u : Clone(u)' = Clone(u)
        /\ Uses' = Uses
    BY <1>2, <1>3 DEF Makeable, Symbol, Clone, Substituted, Keys, Put, Mapping, Params, Uses
  <1>5. InstancesFit'
    BY <1>3, <1>4 DEF TInv, InstancesFit, InstanceIs, Specialising
  <1>6. TextsTyped'
    BY <1>2, <1>3 DEF TInv, TextsTyped
  <1>7. UsesNoticed'
    BY <1>2, <1>3, <1>4 DEF TInv, UsesNoticed
  <1>8. SeenHandled'
    BY <1>2, <1>3, <1>4 DEF TInv, SeenHandled, Answered
  <1>9. QED
    BY <1>5, <1>6, <1>7, <1>8 DEF TInv

LEMMA InstantiateKeeps ==
    ASSUME TInv, Instantiate
    PROVE  TInv'
  <1>1. PICK h : h = Use
    OBVIOUS
  <1>2. /\ h \in TemplateUses /\ queue' \in Seq(TemplateUses)
        /\ ToSet(queue) = {h} \union ToSet(queue')
        /\ UNCHANGED <<templates, program, seen>>
        /\ ToSet(text) = {}
    BY <1>1, DequeueReads DEF Instantiate
  <1>3. PICK s, made : s = Symbol(h) /\ made = [of |-> h, body |-> Clone(h)]
    OBVIOUS
  <1>4. /\ Makeable(h) /\ s \notin DOMAIN instances
        /\ instances' = Made(h)
        /\ text' = Clone(h)
    BY <1>1, <1>3 DEF Instantiate
  <1>5. /\ DOMAIN instances' = DOMAIN instances \union {s}
        /\ instances'[s] = made
        /\ \A r \in DOMAIN instances : instances'[r] = instances[r]
    BY <1>3, <1>4 DEF Made
  <1>6. /\ \A u : Makeable(u)' <=> Makeable(u)
        /\ \A u : Symbol(u)' = Symbol(u)
        /\ \A u : Clone(u)' = Clone(u)
    BY <1>2 DEF Makeable, Symbol, Clone, Substituted, Keys, Put, Mapping, Params
  <1>7. \A u : u \in Uses' <=> u \in Uses \/ u \in ToSet(text')
    <2>1. made.body = text'
      BY <1>3, <1>4
    <2>2. \A u : u \in Uses' <=>
              \/ u \in ToSet(program)
              \/ \E r \in DOMAIN instances' : u \in ToSet(instances'[r].body)
      BY <1>2 DEF Uses
    <2>3. QED
      BY <1>5, <2>1, <2>2, UsesAre
  <1>8. text' \in Seq(TemplateUses)
    BY <1>2, <1>4, CloneTyped DEF TInv, TextsTyped, Specialising
  <1>9. TextsTyped'
    BY <1>2, <1>8 DEF TInv, TextsTyped
  <1>10. InstancesFit'
    <2>1. made.of = h /\ made.body = Clone(h)
      BY <1>3
    <2>2. \A r, m : InstanceIs(r, m)' <=> InstanceIs(r, m)
      BY <1>6 DEF InstanceIs, Specialising
    <2>3. InstanceIs(s, made)
      BY <1>2, <1>3, <1>4, <2>1 DEF InstanceIs, Specialising
    <2>4. ASSUME NEW r \in DOMAIN instances' PROVE InstanceIs(r, instances'[r])
      BY <1>5, <2>3 DEF TInv, InstancesFit
    <2>5. QED
      BY <2>2, <2>4 DEF InstancesFit, InstanceIs, Specialising
  <1>11. UsesNoticed'
    <2>1. ASSUME NEW u \in Uses' PROVE u \in ToSet(text') \/ u \in seen \/ u.name \notin DOMAIN templates
      BY <1>2, <1>7 DEF TInv, UsesNoticed
    <2>2. QED
      BY <1>2, <2>1 DEF UsesNoticed
  <1>12. SeenHandled'
    <2>1. ASSUME NEW u \in seen
          PROVE  u \in ToSet(queue') \/ ~Makeable(u) \/ Symbol(u) \in DOMAIN instances'
      BY <1>2, <1>3, <1>5 DEF TInv, SeenHandled, Answered
    <2>2. QED
      BY <1>2, <1>6, <2>1 DEF SeenHandled, Answered
  <1>13. QED
    BY <1>9, <1>10, <1>11, <1>12 DEF TInv

LEMMA StutterKeeps ==
    ASSUME TInv, UNCHANGED templateVars
    PROVE  TInv'
  <1>1. UNCHANGED <<templates, program, text, seen, queue, instances>>
    BY DEF templateVars
  <1>2. /\ \A u : Makeable(u)' <=> Makeable(u)
        /\ \A u : Symbol(u)' = Symbol(u)
        /\ \A u : Clone(u)' = Clone(u)
        /\ Uses' = Uses
    BY <1>1 DEF Makeable, Symbol, Clone, Substituted, Keys, Put, Mapping, Params, Uses
  <1>3. InstancesFit'
    BY <1>1, <1>2 DEF TInv, InstancesFit, InstanceIs, Specialising
  <1>4. TextsTyped'
    BY <1>1 DEF TInv, TextsTyped
  <1>5. UsesNoticed'
    BY <1>1, <1>2 DEF TInv, UsesNoticed
  <1>6. SeenHandled'
    BY <1>1, <1>2 DEF TInv, SeenHandled, Answered
  <1>7. QED
    BY <1>3, <1>4, <1>5, <1>6 DEF TInv

-----------------------------------------------------------------------------
(* The results. *)

LEMMA Templated == TemplatesSpec => []TInv
  <1>1. TemplatesInit => TInv
    <2>1. SUFFICES ASSUME TemplatesInit PROVE TInv
      OBVIOUS
    <2>2. TextsTyped
      BY <2>1, TextsAssumption, EmptySeq DEF TemplatesInit, TextsTyped
    <2>3. DOMAIN instances = {}
      BY <2>1 DEF TemplatesInit
    <2>4. UsesNoticed
      <3>1. \A u \in Uses : u \in ToSet(text)
        BY <2>1, <2>3, UsesAre DEF TemplatesInit
      <3>2. QED
        BY <3>1 DEF UsesNoticed
    <2>5. QED
      BY <2>1, <2>2, <2>3, <2>4 DEF TemplatesInit, TInv, InstancesFit, SeenHandled
  <1>2. TInv /\ [TemplatesNext]_templateVars => TInv'
    <2>1. SUFFICES ASSUME TInv, [TemplatesNext]_templateVars PROVE TInv'
      OBVIOUS
    <2>2. CASE Scan
      BY <2>1, <2>2, ScanKeeps
    <2>3. CASE Pass
      BY <2>1, <2>3, PassKeeps
    <2>4. CASE Instantiate
      BY <2>1, <2>4, InstantiateKeeps
    <2>5. CASE UNCHANGED templateVars
      BY <2>1, <2>5, StutterKeeps
    <2>6. QED
      BY <2>1, <2>2, <2>3, <2>4, <2>5 DEF TemplatesNext
  <1>3. QED
    BY <1>1, <1>2, PTL DEF TemplatesSpec

\* Every use of a template in the program, or in what was made for a use,
\* waits, can not be made or has its instance, and the instance has the
\* arguments in the place of the parameters unless one is captured
\* (instantiate_all, scan_node, substitute_type): for any templates and any
\* program, also where templates use each other or themselves without end.
THEOREM EveryUseInstantiated == TemplatesSpec => []AllInstantiated
  <1>1. TInv => AllInstantiated
    <2>1. SUFFICES ASSUME TInv PROVE Closed /\ Specialised
      BY DEF AllInstantiated
    <2>2. ASSUME NEW u \in Uses
          PROVE  \/ u \in ToSet(text) \union ToSet(queue)
                 \/ ~Makeable(u)
                 \/ Symbol(u) \in DOMAIN instances
      <3>1. CASE u \in seen
        BY <2>1, <3>1 DEF TInv, SeenHandled, Answered
      <3>2. CASE u.name \notin DOMAIN templates
        BY <3>2 DEF Makeable
      <3>3. QED
        BY <2>1, <2>2, <3>1, <3>2 DEF TInv, UsesNoticed
    <2>3. ASSUME NEW s \in DOMAIN instances
          PROVE  LET of == instances[s].of
                     body == templates[of.name].body
                 IN  /\ Symbol(of) = s
                     /\ \/ Captured(of)
                        \/ \A k \in DOMAIN body : \A j \in DOMAIN body[k].args :
                              instances[s].body[k].args[j] = AtOnce(body[k].args[j], of)
      <3>1. PICK of : of = instances[s].of
        OBVIOUS
      <3>2. Specialising(of) /\ Symbol(of) = s /\ instances[s].body = Clone(of)
        BY <2>1, <3>1 DEF TInv, InstancesFit, InstanceIs
      <3>3. ASSUME ~Captured(of), NEW k \in DOMAIN templates[of.name].body,
                   NEW j \in DOMAIN templates[of.name].body[k].args
            PROVE  instances[s].body[k].args[j] = AtOnce(templates[of.name].body[k].args[j], of)
        BY <2>1, <3>2, <3>3, CloneSpecialised DEF TInv, TextsTyped
      <3>4. QED
        BY <3>1, <3>2, <3>3
    <2>4. QED
      BY <2>2, <2>3 DEF Closed, Specialised
  <1>2. QED
    BY <1>1, Templated, PTL

=============================================================================
