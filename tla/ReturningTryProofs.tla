-------------------------- MODULE ReturningTryProofs -------------------------
(***************************************************************************)
(* Proofs about ReturningTry, for any number of stack slots and scopes.    *)
(***************************************************************************)
EXTENDS ReturningTry, SequenceTheorems, WellFoundedInduction, TLAPS

USE ConstantsAssumption

\* A scope of the bootstrap's C stack.
ReturningScopes ==
    [kind : Kinds \union {"return"},
     phase : Phases,
     mark : Nat,
     prev : Nat,
     own : SUBSET Objects,
     obj : Objects \union {NoObj}]

\* TypeOK with Returns among the scopes.
Typed ==
    /\ ctl \in Seq(ReturningScopes)
    /\ exc \in Nat
    /\ cleanup \in Seq(Objects)
    /\ built \subseteq Objects
    /\ status \in Statuses
    /\ fuel \in 0..MaxOps
    /\ status # "done" => ctl # <<>> /\ ctl[1].kind = "fn"
    /\ \A i \in DOMAIN ctl : ctl[i].kind = "ctor" => ctl[i].obj \in Objects

\* Scope i is in the middle of emitted text: a Return, or a Try in its RunTo.
Waits(i) ==
    \/ ctl[i].kind = "return"
    \/ ctl[i].kind = "try" /\ ctl[i].phase \in {"ending", "unwinding"}

\* What waits, waits for a call to return.
OnlyCalls ==
    \A i \in DOMAIN ctl : Waits(i) /\ i < Len(ctl) => ctl[i + 1].kind \in Callable

-----------------------------------------------------------------------------

ArmedTrys == {i \in DOMAIN ctl : Armed(i)}

Before(i) == {j \in ArmedTrys : j < i}

\* p is the last of S, or NULL when there is none.
Last(p, S) == IF S = {} THEN p = 0 ELSE p \in S /\ \A j \in S : j <= p

\* Try i will come to entry h of the cleanup stack.
Reaches(i, h) ==
    /\ cleanup[h] \in ctl[i].own
    /\ ctl[i].mark < h
    /\ \A j \in ArmedTrys : i < j => h <= ctl[j].mark

FramesAgree ==
    /\ Last(exc, ArmedTrys)
    /\ \A i \in ArmedTrys : Last(ctl[i].prev, Before(i))

MarksAgree ==
    \A i \in ArmedTrys :
        /\ ctl[i].mark <= Len(cleanup)
        /\ \A j \in Before(i) : ctl[j].mark <= ctl[i].mark

EntriesAgree ==
    /\ built = {cleanup[h] : h \in DOMAIN cleanup}
    /\ \A g, h \in DOMAIN cleanup : cleanup[g] = cleanup[h] => g = h
    /\ \A h \in DOMAIN cleanup : \E i \in ArmedTrys : Reaches(i, h)

\* ListsAgree, and with it the order of the marks, said of the set of armed
\* Trys: a step keeps this set, adds to it above all others, or takes its last.
Agree == FramesAgree /\ MarksAgree /\ EntriesAgree

\* No slot belongs to two scopes.
OwnApart ==
    \A i, j \in DOMAIN ctl : i # j => ctl[i].own \intersect ctl[j].own = {}

\* Code above scope n, in the same function, stands in a Try body.
Sheltered(n) ==
    \E j \in 1..n :
        /\ ctl[j].kind = "try" /\ ctl[j].phase = "body"
        /\ \A k \in (j + 1)..n : ctl[k].kind \notin Callable

\* A constructor runs on an object of the scope below it, which is an armed
\* Try if the object is going to be registered.
OnOwn(f) ==
    /\ f > 1
    /\ ctl[f].obj \in ctl[f - 1].own
    /\ ctl[f].obj \notin built
    /\ Sheltered(f - 1) => Armed(f - 1)

CtorsOnOwn == \A f \in DOMAIN ctl : ctl[f].kind = "ctor" => OnOwn(f)

-----------------------------------------------------------------------------
(* The shapes of the steps on the C stack.                                 *)

\* A scope was opened on top.
Opened(sc) ==
    /\ Len(ctl') = Len(ctl) + 1
    /\ DOMAIN ctl' = 1..(Len(ctl) + 1)
    /\ \A i \in 1..Len(ctl) : ctl'[i] = ctl[i]
    /\ ctl'[Len(ctl) + 1] = sc

\* The first n scopes are left.
CutTo(n) ==
    /\ Len(ctl') = n
    /\ DOMAIN ctl' = 1..n
    /\ \A i \in 1..n : ctl'[i] = ctl[i]

\* Scope t is now sc.
Changed(t, sc) ==
    /\ Len(ctl') = Len(ctl)
    /\ DOMAIN ctl' = DOMAIN ctl
    /\ ctl'[t] = sc
    /\ \A i \in DOMAIN ctl : i # t => ctl'[i] = ctl[i]

\* The longjmp: the first t scopes are left, the last of them now sc.
CutChanged(t, sc) ==
    /\ Len(ctl') = t
    /\ DOMAIN ctl' = 1..t
    /\ ctl'[t] = sc
    /\ \A i \in 1..t : i # t => ctl'[i] = ctl[i]

\* What the type says of the C stack.
LEMMA StackTyped ==
    ASSUME Typed
    PROVE  /\ Len(ctl) \in Nat
           /\ DOMAIN ctl = 1..Len(ctl)
           /\ \A i \in DOMAIN ctl :
                 /\ ctl[i] \in ReturningScopes
                 /\ ctl[i].mark \in Nat
                 /\ ctl[i].prev \in Nat
                 /\ ctl[i].own \subseteq Objects
           /\ status # "done" => Len(ctl) \in DOMAIN ctl /\ 1 \in DOMAIN ctl
  <1>1. Len(ctl) \in Nat /\ DOMAIN ctl = 1..Len(ctl)
    BY DEF Typed
  <1>2. \A i \in DOMAIN ctl : ctl[i] \in ReturningScopes
    BY DEF Typed
  <1>3. ASSUME status # "done" PROVE Len(ctl) \in DOMAIN ctl /\ 1 \in DOMAIN ctl
    <2>1. ctl # <<>>
      BY <1>3 DEF Typed
    <2>2. Len(ctl) # 0
      BY <2>1 DEF Typed
    <2>3. QED
      BY <1>1, <2>2
  <1>4. QED
    BY <1>1, <1>2, <1>3 DEF ReturningScopes

\* A scope that is opened, other than a Try.
LEMMA ScopeTyped ==
    ASSUME NEW kind \in Kinds \union {"return"}, NEW obj \in Objects \union {NoObj}
    PROVE  /\ Scope(kind, obj) \in ReturningScopes
           /\ Scope(kind, obj).kind = kind
           /\ Scope(kind, obj).obj = obj
           /\ Scope(kind, obj).own = {}
  BY DEF Scope, ReturningScopes, Phases

\* Append opens a scope.
LEMMA AppendOpens ==
    ASSUME Typed, NEW sc \in ReturningScopes, ctl' = Append(ctl, sc)
    PROVE  ctl' \in Seq(ReturningScopes) /\ Opened(sc)
  BY AppendProperties DEF Typed, Opened

\* Keep cuts the stack.
LEMMA KeepCuts ==
    ASSUME Typed, NEW n \in 0..Len(ctl), ctl' = Keep(n)
    PROVE  ctl' \in Seq(ReturningScopes) /\ CutTo(n)
  <1>1. ctl \in Seq(ReturningScopes) /\ ctl' = SubSeq(ctl, 1, n)
    BY DEF Typed, Keep
  <1>2. CASE n = 0
    BY <1>1, <1>2, SubSeqEmpty DEF CutTo
  <1>3. CASE n # 0
    BY <1>1, <1>3, SubSeqProperties DEF CutTo
  <1>4. QED
    BY <1>2, <1>3

\* EXCEPT changes one scope.
LEMMA ExceptChanges ==
    ASSUME Typed, NEW t \in DOMAIN ctl, NEW sc \in ReturningScopes,
           ctl' = [ctl EXCEPT ![t] = sc]
    PROVE  ctl' \in Seq(ReturningScopes) /\ Changed(t, sc)
  <1>1. ctl \in Seq(ReturningScopes) /\ t \in 1..Len(ctl)
    BY DEF Typed
  <1>2. QED
    BY <1>1, ExceptSeq DEF Changed

\* Main is at the bottom, and constructors have objects, after each of them.
LEMMA OpenedTyped ==
    ASSUME Typed, status # "done", NEW sc, Opened(sc),
           sc.kind = "ctor" => sc.obj \in Objects
    PROVE  /\ ctl' # <<>> /\ ctl'[1].kind = "fn"
           /\ \A i \in DOMAIN ctl' : ctl'[i].kind = "ctor" => ctl'[i].obj \in Objects
  <1>1. PICK n \in Nat : n = Len(ctl) /\ DOMAIN ctl = 1..n /\ 1 \in 1..n
    BY StackTyped
  <1>2. /\ Len(ctl') = n + 1 /\ DOMAIN ctl' = 1..(n + 1)
        /\ \A i \in 1..n : ctl'[i] = ctl[i]
        /\ ctl'[n + 1] = sc
    BY <1>1 DEF Opened
  <1>3. ctl' # <<>> /\ ctl'[1].kind = "fn"
    BY <1>1, <1>2 DEF Typed
  <1>4. \A i \in 1..(n + 1) : i \in 1..n \/ i = n + 1
    OBVIOUS
  <1>5. \A i \in 1..n : ctl[i].kind = "ctor" => ctl[i].obj \in Objects
    BY <1>1 DEF Typed
  <1>6. QED
    BY <1>2, <1>3, <1>4, <1>5

LEMMA CutTyped ==
    ASSUME Typed, status # "done", NEW n \in 1..Len(ctl), CutTo(n)
    PROVE  /\ ctl' # <<>> /\ ctl'[1].kind = "fn"
           /\ \A i \in DOMAIN ctl' : ctl'[i].kind = "ctor" => ctl'[i].obj \in Objects
  <1>1. Len(ctl) \in Nat /\ DOMAIN ctl = 1..Len(ctl)
    BY StackTyped
  <1>2. QED
    BY <1>1 DEF CutTo, Typed

LEMMA ChangedTyped ==
    ASSUME Typed, status # "done", NEW t \in DOMAIN ctl, NEW sc,
           Changed(t, sc) \/ CutChanged(t, sc),
           sc.kind = ctl[t].kind, sc.obj = ctl[t].obj
    PROVE  /\ ctl' # <<>> /\ ctl'[1].kind = "fn"
           /\ \A i \in DOMAIN ctl' : ctl'[i].kind = "ctor" => ctl'[i].obj \in Objects
  <1>1. /\ Len(ctl) \in Nat /\ DOMAIN ctl = 1..Len(ctl) /\ 1 \in DOMAIN ctl
        /\ t \in 1..Len(ctl)
    BY StackTyped
  <1>2. /\ DOMAIN ctl' \subseteq DOMAIN ctl /\ Len(ctl') \in Nat /\ 1 \in DOMAIN ctl'
        /\ ctl'[t] = sc
        /\ \A i \in DOMAIN ctl' : i # t => ctl'[i] = ctl[i]
    BY <1>1 DEF Changed, CutChanged
  <1>3. \A i \in DOMAIN ctl' : ctl'[i].kind = ctl[i].kind /\ ctl'[i].obj = ctl[i].obj
    BY <1>2
  <1>4. ctl[1].kind = "fn" /\ \A i \in DOMAIN ctl : ctl[i].kind = "ctor" => ctl[i].obj \in Objects
    BY DEF Typed
  <1>5. ctl' # <<>>
    BY <1>2
  <1>6. QED
    BY <1>2, <1>3, <1>4, <1>5

\* What waits still waits for a call, when the top may open scope sc.
LEMMA OpenedCalls ==
    ASSUME Typed, status # "done", OnlyCalls, NEW sc, Opened(sc),
           sc.kind \in Callable \/ ~Waits(Len(ctl))
    PROVE  OnlyCalls'
  <1>1. PICK n \in Nat : n = Len(ctl) /\ DOMAIN ctl = 1..n /\ n \in 1..n
    BY StackTyped
  <1>2. /\ Len(ctl') = n + 1 /\ DOMAIN ctl' = 1..(n + 1)
        /\ \A i \in 1..n : ctl'[i] = ctl[i]
        /\ ctl'[n + 1] = sc
    BY <1>1 DEF Opened
  <1>3. ASSUME NEW i \in 1..(n + 1), Waits(i)', i < n + 1
        PROVE  ctl'[i + 1].kind \in Callable
    <2>1. i \in 1..n /\ Waits(i)
      BY <1>2, <1>3 DEF Waits
    <2>2. CASE i = n
      BY <1>1, <1>2, <2>1, <2>2
    <2>3. CASE i # n
      <3>1. i < n /\ i + 1 \in 1..n
        BY <2>1, <2>3
      <3>2. QED
        BY <1>1, <1>2, <2>1, <3>1 DEF OnlyCalls
    <2>4. QED
      BY <2>2, <2>3
  <1>4. QED
    BY <1>2, <1>3 DEF OnlyCalls

\* So it does when the stack is cut, or a scope with none or with a call on
\* it changes.
LEMMA CutCalls ==
    ASSUME Typed, OnlyCalls, NEW n \in 0..Len(ctl), CutTo(n)
    PROVE  OnlyCalls'
  <1>1. Len(ctl) \in Nat /\ DOMAIN ctl = 1..Len(ctl)
    BY StackTyped
  <1>2. ASSUME NEW i \in 1..n, Waits(i)', i < n
        PROVE  ctl'[i + 1].kind \in Callable
    <2>1. i \in DOMAIN ctl /\ i + 1 \in 1..n /\ i < Len(ctl)
      BY <1>1, <1>2
    <2>2. Waits(i)
      BY <1>2 DEF CutTo, Waits
    <2>3. QED
      BY <2>1, <2>2 DEF OnlyCalls, CutTo
  <1>3. QED
    BY <1>2 DEF OnlyCalls, CutTo

LEMMA ChangedCalls ==
    ASSUME Typed, OnlyCalls, NEW t \in DOMAIN ctl, NEW sc,
           \/ CutChanged(t, sc)
           \/ Changed(t, sc) /\ (t = Len(ctl) \/ sc.phase = "handler"),
           sc.kind = "try", ctl[t].kind = "try"
    PROVE  OnlyCalls'
  <1>1. PICK n \in Nat : n = Len(ctl) /\ DOMAIN ctl = 1..n /\ t \in 1..n
    BY StackTyped
  <1>2. PICK k \in {t, n} :
           /\ Len(ctl') = k /\ DOMAIN ctl' = 1..k
           /\ ctl'[t] = sc
           /\ \A i \in 1..k : i # t => ctl'[i] = ctl[i]
           /\ k = t \/ sc.phase = "handler"
    BY <1>1 DEF Changed, CutChanged
  <1>3. ASSUME NEW i \in 1..k, Waits(i)', i < k
        PROVE  ctl'[i + 1].kind \in Callable
    <2>1. i # t
      BY <1>2, <1>3 DEF Waits
    <2>2. i \in DOMAIN ctl /\ i + 1 \in 1..k /\ i < Len(ctl) /\ i + 1 \in DOMAIN ctl
      BY <1>1, <1>2, <1>3
    <2>3. Waits(i)
      BY <1>2, <1>3, <2>1 DEF Waits
    <2>4. ctl[i + 1].kind \in Callable
      BY <2>2, <2>3 DEF OnlyCalls
    <2>5. i + 1 # t
      BY <2>4 DEF Callable
    <2>6. QED
      BY <1>2, <2>2, <2>4, <2>5
  <1>4. QED
    BY <1>2, <1>3 DEF OnlyCalls

-----------------------------------------------------------------------------
(* Types, for every program.                                               *)

\* Each non-empty set of numbers has a least one.
LEMMA LeastExists ==
    ASSUME NEW S \in SUBSET Nat, S # {}
    PROVE  \E e \in S : \A d \in S : e <= d
  <1> DEFINE less == {ss \in Nat \X Nat : ss[1] < ss[2]}
  <1>1. IsWellFoundedOn(less, Nat)
    BY NatLessThanWellFounded DEF OpToRel
  <1>2. PICK e \in S : \A d \in S : <<d, e>> \notin less
    <2> HIDE DEF less
    <2>1. QED
      BY <1>1, WFMin
  <1>3. ASSUME NEW d \in S PROVE e <= d
    <2>1. e \in Nat /\ d \in Nat /\ <<d, e>> \in Nat \X Nat
      OBVIOUS
    <2>2. ~(<<d, e>>[1] < <<d, e>>[2])
      BY <1>2, <2>1
    <2>3. QED
      BY <2>1, <2>2
  <1>4. QED
    BY <1>3

\* There is an innermost one among the Trys a Return stands in.
LEMMA InnermostIs ==
    ASSUME Typed, Protecting(ctl) # {}
    PROVE  /\ Innermost \in Protecting(ctl)
           /\ Innermost \in DOMAIN ctl
           /\ Armed(Innermost)
           /\ ctl[Innermost].kind = "try" /\ ctl[Innermost].phase = "body"
  <1>1. PICK n \in Nat : n = Len(ctl) /\ DOMAIN ctl = 1..n
    BY StackTyped
  <1> DEFINE S == {n - j : j \in Protecting(ctl)}
  <1>2. \A j \in Protecting(ctl) : j \in 1..n
    BY <1>1 DEF Protecting
  <1>3. S \in SUBSET Nat /\ S # {}
    BY <1>2
  <1>5. PICK x \in S : \A y \in S : x <= y
    <2> HIDE DEF S
    <2>1. QED
      BY <1>3, LeastExists
  <1>6. PICK j \in Protecting(ctl) : x = n - j
    BY DEF S
  <1>7. ASSUME NEW k \in Protecting(ctl) PROVE k <= j
    <2>1. n - k \in S
      OBVIOUS
    <2>2. n - j <= n - k
      BY <1>5, <1>6, <2>1
    <2>3. QED
      BY <1>2, <2>2
  <1>8. Innermost \in Protecting(ctl)
    BY <1>7 DEF Innermost
  <1>9. QED
    BY <1>8 DEF Protecting, Armed

\* No activation but the last ends the process, and main is the first.
LEMMA ActivationCut ==
    ASSUME Typed, status = "running", NEW f \in DOMAIN ctl
    PROVE  f - 1 \in 0..Len(ctl) /\ (f # 1 => f - 1 \in 1..Len(ctl))
  BY StackTyped

TInv == Typed /\ OnlyCalls

\* Steps that open a scope and change no other variable of the lists but
\* exc, and steps that only end the process.
LEMMA OpensTyped ==
    ASSUME TInv, status = "running", NEW sc \in ReturningScopes,
           ctl' = Append(ctl, sc), exc' \in Nat, cleanup' \in Seq(Objects),
           built' \subseteq Objects, status' = status, fuel' \in 0..MaxOps,
           sc.kind = "ctor" => sc.obj \in Objects,
           sc.kind \in Callable \/ ~Waits(Len(ctl))
    PROVE  TInv'
  <1>1. ctl' \in Seq(ReturningScopes) /\ Opened(sc)
    BY AppendOpens DEF TInv
  <1>2. OnlyCalls'
    BY <1>1, OpenedCalls DEF TInv
  <1>3. /\ ctl' # <<>> /\ ctl'[1].kind = "fn"
        /\ \A i \in DOMAIN ctl' : ctl'[i].kind = "ctor" => ctl'[i].obj \in Objects
    BY <1>1, OpenedTyped DEF TInv
  <1>4. status' \in Statuses
    BY DEF TInv, Typed
  <1>5. QED
    BY <1>1, <1>2, <1>3, <1>4 DEF TInv, Typed

LEMMA CutsTyped ==
    ASSUME TInv, status = "running", NEW n \in 0..Len(ctl),
           ctl' = Keep(n), exc' \in Nat, cleanup' \in Seq(Objects),
           built' \subseteq Objects, fuel' \in 0..MaxOps,
           status' = IF n = 0 THEN "done" ELSE "running"
    PROVE  TInv'
  <1>1. ctl' \in Seq(ReturningScopes) /\ CutTo(n)
    BY KeepCuts DEF TInv
  <1>2. OnlyCalls'
    BY <1>1, CutCalls DEF TInv
  <1>3. CASE n = 0
    <2>1. DOMAIN ctl' = {}
      BY <1>1, <1>3 DEF CutTo
    <2>2. QED
      BY <1>1, <1>2, <1>3, <2>1 DEF TInv, Typed, Statuses
  <1>4. CASE n # 0
    <2>1. n \in 1..Len(ctl)
      BY <1>4, StackTyped DEF TInv
    <2>2. /\ ctl' # <<>> /\ ctl'[1].kind = "fn"
          /\ \A i \in DOMAIN ctl' : ctl'[i].kind = "ctor" => ctl'[i].obj \in Objects
      BY <1>1, <2>1, CutTyped DEF TInv
    <2>3. QED
      BY <1>1, <1>2, <1>4, <2>2 DEF TInv, Typed, Statuses
  <1>5. QED
    BY <1>3, <1>4

LEMMA ChangesTyped ==
    ASSUME TInv, status = "running", NEW t \in DOMAIN ctl, NEW sc \in ReturningScopes,
           ctl' \in Seq(ReturningScopes),
           \/ CutChanged(t, sc)
           \/ Changed(t, sc) /\ (t = Len(ctl) \/ sc.phase = "handler"),
           ctl[t].kind = "try", sc.kind = "try", sc.obj = ctl[t].obj,
           exc' \in Nat, built' \subseteq Objects,
           UNCHANGED <<cleanup, status, fuel>>
    PROVE  TInv'
  <1>1. OnlyCalls'
    BY ChangedCalls DEF TInv
  <1>2. /\ ctl' # <<>> /\ ctl'[1].kind = "fn"
        /\ \A i \in DOMAIN ctl' : ctl'[i].kind = "ctor" => ctl'[i].obj \in Objects
    BY ChangedTyped DEF TInv
  <1>3. QED
    BY <1>1, <1>2 DEF TInv, Typed

LEMMA StopsTyped ==
    ASSUME TInv, status = "running", status' \in Statuses, status' # "done",
           UNCHANGED <<ctl, exc, cleanup, built, fuel>>
    PROVE  TInv'
  BY DEF TInv, Typed, OnlyCalls, Waits

\* The scope of a Try that is entered.
LEMMA TryTyped ==
    ASSUME Typed
    PROVE  /\ TryScope \in ReturningScopes
           /\ TryScope.kind = "try" /\ TryScope.phase = "body"
           /\ TryScope.own = {} /\ TryScope.prev = exc
           /\ TryScope.mark = Len(cleanup)
  BY DEF Typed, TryScope, ReturningScopes, Kinds, Phases

\* Code of the program runs in the scope on top, which does not wait.
LEMMA BodyRuns ==
    ASSUME Typed, InBody
    PROVE  /\ status = "running" /\ Len(ctl) \in DOMAIN ctl
           /\ ~Waits(Len(ctl))
  <1>1. status = "running" /\ Top.kind # "return"
    BY DEF InBody, Executing, Returning
  <1>2. QED
    BY <1>1, StackTyped DEF InBody, Executing, Top, Waits

\* The stack after a declaration: the slot is the top's, the constructor on it.
LEMMA DeclareStack ==
    ASSUME Typed, NEW o \in Objects, Declare(o)
    PROVE  /\ ctl' \in Seq(ReturningScopes)
           /\ Len(ctl') = Len(ctl) + 1
           /\ DOMAIN ctl' = 1..(Len(ctl) + 1)
           /\ \A i \in 1..Len(ctl) : i # Len(ctl) => ctl'[i] = ctl[i]
           /\ ctl'[Len(ctl)]
                = [ctl[Len(ctl)] EXCEPT !.phase = ctl[Len(ctl)].phase,
                                        !.own = ctl[Len(ctl)].own \union {o}]
           /\ ctl'[Len(ctl) + 1] = Scope("ctor", o)
  <1>1. PICK n \in Nat : n = Len(ctl) /\ DOMAIN ctl = 1..n /\ n \in 1..n
    BY BodyRuns, StackTyped DEF Declare
  <1> DEFINE top == [ctl[n] EXCEPT !.phase = ctl[n].phase, !.own = ctl[n].own \union {o}]
             mid == [ctl EXCEPT ![n] = top]
  <1>2. ctl[n] \in ReturningScopes
    BY <1>1, StackTyped
  <1>3. top \in ReturningScopes /\ top = [ctl[n] EXCEPT !.own = ctl[n].own \union {o}]
    BY <1>2 DEF ReturningScopes
  <1>4. mid = [ctl EXCEPT ![Len(ctl)].own = @ \union {o}]
    BY <1>1, <1>3
  <1>5. ctl \in Seq(ReturningScopes) /\ n \in 1..Len(ctl) /\ top \in ReturningScopes
    BY <1>1, <1>3 DEF Typed
  <1> HIDE DEF top
  <1>6. /\ mid \in Seq(ReturningScopes) /\ Len(mid) = n
        /\ mid[n] = top /\ \A i \in 1..n : i # n => mid[i] = ctl[i]
    BY <1>1, <1>5, ExceptSeq DEF mid
  <1>7. Scope("ctor", o) \in ReturningScopes
    BY ScopeTyped DEF Kinds, Callable
  <1>8. ctl' = Append(mid, Scope("ctor", o))
    BY <1>4 DEF Declare
  <1> HIDE DEF mid
  <1>9. /\ ctl' \in Seq(ReturningScopes)
        /\ Len(ctl') = n + 1
        /\ DOMAIN ctl' = 1..(n + 1)
        /\ \A i \in 1..n : ctl'[i] = mid[i]
        /\ ctl'[n + 1] = Scope("ctor", o)
    BY <1>6, <1>7, <1>8, AppendProperties
  <1>10. QED
    BY <1>1, <1>6, <1>9 DEF top

\* A Try is left unwinding by the longjmp, with the slots of its activation.
LEMMA ThrowStack ==
    ASSUME Typed, ThrowCaught
    PROVE  /\ exc \in DOMAIN ctl /\ ctl[exc].kind = "try"
           /\ ctl' \in Seq(ReturningScopes)
           /\ \E sc \in ReturningScopes :
                 /\ CutChanged(exc, sc)
                 /\ sc.kind = "try" /\ sc.phase = "unwinding"
                 /\ sc.mark = ctl[exc].mark /\ sc.prev = ctl[exc].prev
                 /\ sc.obj = ctl[exc].obj
                 /\ sc.own = UNION {ctl[j].own : j \in SameActivation(exc)}
  <1> DEFINE own == UNION {ctl[j].own : j \in SameActivation(exc)}
             low == Keep(exc)
             sc == [ctl[exc] EXCEPT !.phase = "unwinding", !.own = own]
  <1>1. PICK n \in Nat : n = Len(ctl) /\ DOMAIN ctl = 1..n
    BY StackTyped
  <1>2. /\ exc \in DOMAIN ctl /\ ctl[exc].kind = "try" /\ exc \in 1..n /\ exc \in 0..n
        /\ ctl[exc] \in ReturningScopes
    BY <1>1, StackTyped DEF ThrowCaught, FrameInScope, Typed
  <1>3. own \subseteq Objects
    <2>1. \A j \in SameActivation(exc) : j \in DOMAIN ctl
      BY <1>1, <1>2 DEF SameActivation
    <2>2. QED
      BY <2>1, StackTyped
  <1>4. /\ low \in Seq(ReturningScopes) /\ Len(low) = exc /\ DOMAIN low = 1..exc
        /\ \A i \in 1..exc : low[i] = ctl[i]
    BY <1>1, <1>2, SubSeqProperties DEF Keep, Typed
  <1>5. ctl' = [low EXCEPT ![exc] = sc]
    BY <1>2, <1>4 DEF ThrowCaught
  <1> HIDE DEF own, low
  <1>6. /\ sc \in ReturningScopes /\ sc.kind = "try" /\ sc.phase = "unwinding"
        /\ sc.mark = ctl[exc].mark /\ sc.prev = ctl[exc].prev
        /\ sc.obj = ctl[exc].obj /\ sc.own = own
    BY <1>2, <1>3 DEF ReturningScopes, Phases
  <1> HIDE DEF sc
  <1>7. ctl' \in Seq(ReturningScopes) /\ CutChanged(exc, sc)
    <2>1. /\ ctl' \in Seq(ReturningScopes) /\ Len(ctl') = exc
          /\ ctl'[exc] = sc
          /\ \A i \in 1..exc : i # exc => ctl'[i] = low[i]
      BY <1>2, <1>4, <1>5, <1>6, ExceptSeq
    <2>2. QED
      BY <1>4, <2>1 DEF CutChanged
  <1>8. QED
    BY <1>2, <1>6, <1>7 DEF own

LEMMA InitTyped ==
    Init => TInv
  <1> SUFFICES ASSUME Init PROVE TInv
    OBVIOUS
  <1>1. Scope("fn", NoObj) \in ReturningScopes /\ Scope("fn", NoObj).kind = "fn"
    BY ScopeTyped DEF Kinds, Callable
  <1>2. /\ ctl \in Seq(ReturningScopes) /\ Len(ctl) = 1 /\ DOMAIN ctl = {1}
        /\ ctl[1] = Scope("fn", NoObj) /\ ctl # <<>>
    BY <1>1 DEF Init
  <1>3. Typed
    BY <1>1, <1>2 DEF Init, Typed, Statuses
  <1>4. OnlyCalls
    BY <1>2 DEF OnlyCalls
  <1>5. QED
    BY <1>3, <1>4 DEF TInv

\* What the statements of the program do.
LEMMA BodyTyped ==
    ASSUME TInv, Body
    PROVE  TInv'
  <1>1. /\ Typed /\ status = "running" /\ Len(ctl) \in DOMAIN ctl /\ ~Waits(Len(ctl))
        /\ Top = ctl[Len(ctl)] /\ InBody
    BY BodyRuns DEF TInv, Body, Top
  <1>2. /\ exc \in Nat /\ cleanup \in Seq(Objects) /\ built \subseteq Objects
        /\ fuel \in 0..MaxOps
        /\ Len(ctl) \in Nat /\ DOMAIN ctl = 1..Len(ctl)
    BY <1>1, StackTyped DEF Typed
  <1>3. Spend => fuel' \in 0..MaxOps
    BY <1>2 DEF Spend
  <1>4. CASE Call
    <2>1. /\ Scope("fn", NoObj) \in ReturningScopes
          /\ Scope("fn", NoObj).kind = "fn"
      BY ScopeTyped DEF Kinds, Callable
    <2>2. QED
      BY <1>1, <1>2, <1>3, <1>4, <2>1, OpensTyped DEF Call, Callable
  <1>5. CASE OpenBlock
    <2>1. /\ Scope("block", NoObj) \in ReturningScopes
          /\ Scope("block", NoObj).kind = "block"
      BY ScopeTyped DEF Kinds
    <2>2. QED
      BY <1>1, <1>2, <1>3, <1>5, <2>1, OpensTyped DEF OpenBlock
  <1>6. CASE EnterTry
    <2>1. TryScope \in ReturningScopes /\ TryScope.kind = "try"
      BY <1>1, TryTyped
    <2>2. QED
      BY <1>1, <1>2, <1>3, <1>6, <2>1, OpensTyped DEF EnterTry
  <1>7. CASE LeaveBlock
    <2>1. PICK b \in DOMAIN ctl : ctl[b].kind = "block" /\ ctl' = Keep(b - 1)
      BY <1>7 DEF LeaveBlock
    <2>2. b # 1
      BY <1>1, <2>1 DEF Typed
    <2>3. b - 1 \in 0..Len(ctl) /\ b - 1 # 0
      BY <1>2, <2>2
    <2>4. built' \subseteq Objects /\ UNCHANGED <<exc, cleanup, status, fuel>>
      BY <1>2, <1>7 DEF LeaveBlock, DropStorage
    <2>5. QED
      BY <1>1, <1>2, <2>1, <2>3, <2>4, CutsTyped
  <1>8. CASE EndBody
    <2> DEFINE sc == [Top EXCEPT !.phase = "ending"]
    <2>1. Top \in ReturningScopes /\ Top.kind = "try"
      BY <1>1, <1>8, StackTyped DEF EndBody
    <2>2. sc \in ReturningScopes /\ sc.kind = "try" /\ sc.obj = Top.obj
      BY <2>1 DEF ReturningScopes, Phases
    <2>3. ctl' = [ctl EXCEPT ![Len(ctl)] = sc]
      BY <1>1, <1>8 DEF EndBody
    <2> HIDE DEF sc
    <2>4. ctl' \in Seq(ReturningScopes) /\ Changed(Len(ctl), sc)
      BY <1>1, <2>2, <2>3, ExceptChanges
    <2>5. UNCHANGED <<exc, cleanup, built, status, fuel>>
      BY <1>8 DEF EndBody
    <2>6. QED
      BY <1>1, <1>2, <2>1, <2>2, <2>4, <2>5, ChangesTyped
  <1>9. CASE EndHandler
    <2>1. ctl' = Keep(Len(ctl) - 1) /\ ctl[Len(ctl)].kind = "try"
      BY <1>1, <1>9 DEF EndHandler
    <2>2. Len(ctl) # 1
      BY <1>1, <2>1 DEF Typed
    <2>3. Len(ctl) - 1 \in 0..Len(ctl) /\ Len(ctl) - 1 # 0
      BY <1>1, <1>2, <2>2
    <2>4. built' \subseteq Objects /\ UNCHANGED <<exc, cleanup, status, fuel>>
      BY <1>2, <1>9 DEF EndHandler, DropStorage
    <2>5. QED
      BY <1>1, <1>2, <2>1, <2>3, <2>4, CutsTyped
  <1>10. QED
    BY <1>4, <1>5, <1>6, <1>7, <1>8, <1>9 DEF Body

\* A declaration.
LEMMA DeclareTyped ==
    ASSUME TInv, NEW o \in Objects, Declare(o)
    PROVE  TInv'
  <1>1. /\ Typed /\ status = "running" /\ Len(ctl) \in DOMAIN ctl /\ ~Waits(Len(ctl))
    BY BodyRuns DEF TInv, Declare
  <1>2. PICK n \in Nat : n = Len(ctl) /\ DOMAIN ctl = 1..n /\ n \in 1..n
    BY <1>1, StackTyped
  <1>3. /\ ctl' \in Seq(ReturningScopes) /\ Len(ctl') = n + 1 /\ DOMAIN ctl' = 1..(n + 1)
        /\ \A i \in 1..n : i # n => ctl'[i] = ctl[i]
        /\ ctl'[n] = [ctl[n] EXCEPT !.phase = ctl[n].phase, !.own = ctl[n].own \union {o}]
        /\ ctl'[n + 1] = Scope("ctor", o)
    BY <1>1, <1>2, DeclareStack
  <1>4. /\ ctl'[n].kind = ctl[n].kind /\ ctl'[n].phase = ctl[n].phase
        /\ ctl'[n].obj = ctl[n].obj
    <2>1. ctl[n] \in ReturningScopes
      BY <1>1, <1>2, StackTyped
    <2>2. QED
      BY <1>3, <2>1 DEF ReturningScopes
  <1>5. \A i \in 1..n : /\ ctl'[i].kind = ctl[i].kind /\ ctl'[i].phase = ctl[i].phase
                        /\ ctl'[i].obj = ctl[i].obj
    BY <1>3, <1>4
  <1>6. /\ ctl'[n + 1].kind = "ctor" /\ ctl'[n + 1].obj = o
    BY <1>3, ScopeTyped DEF Kinds, Callable
  <1>7. \A i \in 1..(n + 1) : i \in 1..n \/ i = n + 1
    OBVIOUS
  <1>8. \A i \in 1..(n + 1) : ctl'[i].kind = "ctor" => ctl'[i].obj \in Objects
    BY <1>1, <1>2, <1>5, <1>6, <1>7 DEF Typed
  <1>9. ctl' # <<>> /\ ctl'[1].kind = "fn"
    <2>1. ctl[1].kind = "fn" /\ 1 \in 1..n
      BY <1>1, <1>2 DEF Typed
    <2>2. QED
      BY <1>3, <1>5, <2>1
  <1>10. OnlyCalls'
    <2>1. ASSUME NEW i \in 1..(n + 1), Waits(i)', i < n + 1
          PROVE  ctl'[i + 1].kind \in Callable
      <3>1. i \in 1..n /\ Waits(i)
        BY <1>5, <2>1 DEF Waits
      <3>2. i # n /\ i < n /\ i + 1 \in 1..n
        BY <1>1, <1>2, <3>1
      <3>3. ctl[i + 1].kind \in Callable
        BY <1>2, <3>1, <3>2 DEF TInv, OnlyCalls
      <3>4. QED
        BY <1>5, <3>2, <3>3
    <2>2. QED
      BY <1>3, <2>1 DEF OnlyCalls
  <1>11. fuel' \in 0..MaxOps
    BY <1>1 DEF Declare, Spend, Typed
  <1>12. UNCHANGED <<exc, cleanup, built, status>>
    BY DEF Declare
  <1>13. QED
    BY <1>1, <1>3, <1>8, <1>9, <1>10, <1>11, <1>12 DEF TInv, Typed

\* What a Return does.
LEMMA LeaveTyped ==
    ASSUME TInv, Leave
    PROVE  TInv'
  <1>1. Typed /\ status = "running"
    BY DEF TInv, Leave, BeginReturn, InBody, Executing, ReturnDestroys, ReturnPops,
           ReturnRunsTo, CallInReturn, EndReturn, RegisterFails, Returning
  <1>2. /\ exc \in Nat /\ cleanup \in Seq(Objects) /\ built \subseteq Objects
        /\ fuel \in 0..MaxOps
        /\ Len(ctl) \in DOMAIN ctl /\ Len(ctl) \in Nat /\ DOMAIN ctl = 1..Len(ctl)
    BY <1>1, StackTyped DEF Typed
  <1>3. CASE BeginReturn
    <2>1. /\ Scope("return", NoObj) \in ReturningScopes
          /\ Scope("return", NoObj).kind = "return"
      BY ScopeTyped
    <2>2. ~Waits(Len(ctl))
      BY <1>1, <1>3, BodyRuns DEF BeginReturn
    <2>3. QED
      BY <1>1, <1>2, <1>3, <2>1, <2>2, OpensTyped DEF BeginReturn
  <1>4. CASE ReturnDestroys
    <2>1. cleanup # <<>> /\ Len(cleanup) \in 1..Len(cleanup)
      BY <1>2, <1>4 DEF ReturnDestroys, ReturnRunToDone
    <2>2. CASE Victim \in built
      <3>1. Victim \in Objects
        BY <1>2, <2>2
      <3>2. /\ Scope("dtor", Victim) \in ReturningScopes
            /\ Scope("dtor", Victim).kind = "dtor"
        BY <3>1, ScopeTyped DEF Kinds, Callable
      <3>3. cleanup' \in Seq(Objects)
        <4>1. cleanup' = SubSeq(cleanup, 1, Len(cleanup) - 1)
          BY <1>4, <2>2 DEF ReturnDestroys
        <4>2. CASE Len(cleanup) = 1
          <5>1. Len(cleanup) - 1 = 0 /\ cleanup' = SubSeq(cleanup, 1, 0)
            BY <4>1, <4>2
          <5>2. QED
            BY <1>2, <5>1, SubSeqEmpty
        <4>3. CASE Len(cleanup) # 1
          BY <1>2, <2>1, <4>1, <4>3, SubSeqProperties
        <4>4. QED
          BY <4>2, <4>3
      <3>4. /\ ctl' = Append(ctl, Scope("dtor", Victim)) /\ built' \subseteq Objects
            /\ UNCHANGED <<exc, fuel, status>>
        BY <1>2, <1>4, <2>2 DEF ReturnDestroys
      <3>5. QED
        BY <1>1, <1>2, <3>2, <3>3, <3>4, OpensTyped DEF Callable
    <2>3. CASE Victim \notin built
      BY <1>1, <1>4, <2>3, StopsTyped DEF ReturnDestroys, Statuses
    <2>4. QED
      BY <2>2, <2>3
  <1>5. CASE ReturnPops
    <2> DEFINE t == Innermost
               sc == [ctl[t] EXCEPT !.phase = "handler"]
    <2>1. t \in DOMAIN ctl /\ ctl[t].kind = "try" /\ ctl[t] \in ReturningScopes
      BY <1>1, <1>5, InnermostIs, StackTyped DEF ReturnPops, ReturnRunsTo
    <2>2. ctl' = [ctl EXCEPT ![t] = sc]
      BY <1>5, <2>1 DEF ReturnPops
    <2>3. exc' \in Nat /\ UNCHANGED <<cleanup, built, status, fuel>>
      BY <1>2, <1>5, <2>1 DEF ReturnPops, ReturningScopes
    <2> HIDE DEF t
    <2>4. /\ sc \in ReturningScopes /\ sc.kind = "try" /\ sc.phase = "handler"
          /\ sc.obj = ctl[t].obj
      BY <2>1 DEF ReturningScopes, Phases
    <2> HIDE DEF sc
    <2>5. ctl' \in Seq(ReturningScopes) /\ Changed(t, sc)
      BY <1>1, <2>1, <2>2, <2>4, ExceptChanges
    <2>6. QED
      BY <1>1, <1>2, <2>1, <2>3, <2>4, <2>5, ChangesTyped
  <1>6. CASE CallInReturn
    <2>1. /\ Scope("fn", NoObj) \in ReturningScopes
          /\ Scope("fn", NoObj).kind = "fn"
      BY ScopeTyped DEF Kinds, Callable
    <2>2. Call /\ (Spend => fuel' \in 0..MaxOps)
      BY <1>2, <1>6 DEF CallInReturn, Spend
    <2>3. QED
      BY <1>1, <1>2, <2>1, <2>2, OpensTyped DEF Call, Callable
  <1>7. CASE EndReturn
    <2>1. PICK f \in DOMAIN ctl :
             /\ ctl' = Keep(f - 1)
             /\ status' = IF f = 1 THEN "done" ELSE "running"
             /\ IF ctl[f].kind = "ctor" /\ Registered(ctl')
                THEN /\ cleanup' = Append(cleanup, ctl[f].obj)
                     /\ built' = (built \intersect Owned(ctl')) \union {ctl[f].obj}
                ELSE DropStorage /\ UNCHANGED cleanup
      BY <1>7 DEF EndReturn
    <2>2. f - 1 \in 0..Len(ctl) /\ status' = IF f - 1 = 0 THEN "done" ELSE "running"
      BY <1>2, <2>1
    <2>3. exc' = exc /\ fuel' = fuel
      BY <1>7 DEF EndReturn
    <2>4. cleanup' \in Seq(Objects) /\ built' \subseteq Objects
      <3>1. CASE ctl[f].kind = "ctor" /\ Registered(ctl')
        <4>1. ctl[f].obj \in Objects
          BY <1>1, <3>1 DEF Typed
        <4>2. QED
          BY <1>2, <2>1, <3>1, <4>1
      <3>2. CASE ~(ctl[f].kind = "ctor" /\ Registered(ctl'))
        BY <1>2, <2>1, <3>2 DEF DropStorage
      <3>3. QED
        BY <3>1, <3>2
    <2>5. QED
      BY <1>1, <1>2, <2>1, <2>2, <2>3, <2>4, CutsTyped
  <1>8. CASE RegisterFails
    BY <1>1, <1>8, StopsTyped DEF RegisterFails, Statuses
  <1>9. QED
    BY <1>3, <1>4, <1>5, <1>6, <1>7, <1>8 DEF Leave

\* A Throw.
LEMMA ThrowsTyped ==
    ASSUME TInv, Throws
    PROVE  TInv'
  <1>1. Typed /\ status = "running"
    BY DEF TInv, Throws, ThrowUnhandled, ThrowCaught, ThrowDangling, Executing
  <1>2. CASE ThrowUnhandled
    BY <1>1, <1>2, StopsTyped DEF ThrowUnhandled, Statuses
  <1>3. CASE ThrowDangling
    BY <1>1, <1>3, StopsTyped DEF ThrowDangling, Statuses
  <1>4. CASE ThrowCaught
    <2>1. exc \in DOMAIN ctl /\ ctl[exc].kind = "try" /\ ctl' \in Seq(ReturningScopes)
      BY <1>1, <1>4, ThrowStack
    <2>2. PICK sc \in ReturningScopes :
             CutChanged(exc, sc) /\ sc.kind = "try" /\ sc.obj = ctl[exc].obj
      BY <1>1, <1>4, ThrowStack
    <2>3. /\ exc' \in Nat /\ built' \subseteq Objects
          /\ UNCHANGED <<cleanup, status, fuel>>
      BY <1>1, <1>4 DEF ThrowCaught, DropStorage, Typed
    <2>4. QED
      BY <1>1, <2>1, <2>2, <2>3, ChangesTyped
  <1>5. QED
    BY <1>2, <1>3, <1>4 DEF Throws

\* What RunTo of a Try does, and what follows it.
LEMMA UnwindTyped ==
    ASSUME TInv, Unwind
    PROVE  TInv'
  <1>1. Typed /\ status = "running" /\ Top.kind = "try"
    BY DEF TInv, Unwind, RunToStep, RunToDangling, LeaveTry, EnterHandler, RunningTo
  <1>2. /\ exc \in Nat /\ cleanup \in Seq(Objects) /\ built \subseteq Objects
        /\ fuel \in 0..MaxOps
        /\ Len(ctl) \in DOMAIN ctl /\ Len(ctl) \in Nat /\ DOMAIN ctl = 1..Len(ctl)
        /\ Top = ctl[Len(ctl)] /\ Top \in ReturningScopes
    BY <1>1, StackTyped DEF Typed, Top
  <1>3. PopFrame => exc' \in Nat
    BY <1>2 DEF PopFrame, ReturningScopes
  <1>4. CASE RunToStep
    <2>1. cleanup # <<>> /\ Len(cleanup) \in 1..Len(cleanup)
      BY <1>2, <1>4 DEF RunToStep, RunToDone
    <2>2. Victim \in Objects
      BY <1>2, <1>4 DEF RunToStep
    <2>3. /\ Scope("dtor", Victim) \in ReturningScopes
          /\ Scope("dtor", Victim).kind = "dtor"
      BY <2>2, ScopeTyped DEF Kinds, Callable
    <2>4. cleanup' \in Seq(Objects)
      <3>1. cleanup' = SubSeq(cleanup, 1, Len(cleanup) - 1)
        BY <1>4 DEF RunToStep
      <3>2. CASE Len(cleanup) = 1
        <4>1. cleanup' = SubSeq(cleanup, 1, 0)
          BY <3>1, <3>2
        <4>2. QED
          BY <1>2, <4>1, SubSeqEmpty
      <3>3. CASE Len(cleanup) # 1
        BY <1>2, <2>1, <3>1, <3>3, SubSeqProperties
      <3>4. QED
        BY <3>2, <3>3
    <2>5. /\ ctl' = Append(ctl, Scope("dtor", Victim)) /\ built' \subseteq Objects
          /\ UNCHANGED <<exc, fuel, status>>
      BY <1>2, <1>4 DEF RunToStep
    <2>6. QED
      BY <1>1, <1>2, <2>3, <2>4, <2>5, OpensTyped DEF Callable
  <1>5. CASE RunToDangling
    BY <1>1, <1>5, StopsTyped DEF RunToDangling, Statuses
  <1>6. CASE LeaveTry
    <2>1. ctl' = Keep(Len(ctl) - 1) /\ ctl[Len(ctl)].kind = "try"
      BY <1>1, <1>2, <1>6 DEF LeaveTry
    <2>2. Len(ctl) # 1
      BY <1>1, <2>1 DEF Typed
    <2>3. Len(ctl) - 1 \in 0..Len(ctl) /\ Len(ctl) - 1 # 0
      BY <1>2, <2>2
    <2>4. built' \subseteq Objects /\ exc' \in Nat /\ UNCHANGED <<cleanup, status, fuel>>
      BY <1>2, <1>3, <1>6 DEF LeaveTry, DropStorage
    <2>5. QED
      BY <1>1, <1>2, <2>1, <2>3, <2>4, CutsTyped
  <1>7. CASE EnterHandler
    <2> DEFINE sc == [Top EXCEPT !.phase = "handler", !.own = {}]
    <2>1. sc \in ReturningScopes /\ sc.kind = "try" /\ sc.obj = Top.obj
      BY <1>1, <1>2 DEF ReturningScopes, Phases
    <2>2. ctl' = [ctl EXCEPT ![Len(ctl)] = sc]
      BY <1>2, <1>7 DEF EnterHandler
    <2> HIDE DEF sc
    <2>3. ctl' \in Seq(ReturningScopes) /\ Changed(Len(ctl), sc)
      BY <1>1, <1>2, <2>1, <2>2, ExceptChanges
    <2>4. /\ exc' \in Nat /\ built' \subseteq Objects
          /\ UNCHANGED <<cleanup, status, fuel>>
      BY <1>2, <1>3, <1>7 DEF EnterHandler, DropStorage
    <2>5. QED
      BY <1>1, <1>2, <2>1, <2>3, <2>4, ChangesTyped
  <1>8. QED
    BY <1>4, <1>5, <1>6, <1>7 DEF Unwind

LEMMA StepTyped ==
    ASSUME TInv, [ReturningNext]_vars
    PROVE  TInv'
  <1>1. CASE UNCHANGED vars
    BY <1>1 DEF vars, TInv, Typed, OnlyCalls, Waits
  <1>2. QED
    BY <1>1, BodyTyped, DeclareTyped, LeaveTyped, ThrowsTyped, UnwindTyped
       DEF ReturningNext

\* Every variable keeps its type, and a Return in the middle of its work is
\* always on top of the C stack or waits for a call, in every program.
THEOREM ReturningTypesHold == ReturningSpec => []ReturningTypeOK
  <1>1. TInv => ReturningTypeOK
    <2> SUFFICES ASSUME TInv PROVE ReturningTypeOK
      OBVIOUS
    <2>1. \A i \in DOMAIN ctl : ctl[i] \in ReturningScopes
      BY DEF TInv, Typed
    <2>2. QED
      BY <2>1 DEF TInv, Typed, OnlyCalls, Waits, ReturningTypeOK, ReturningScopes
  <1>2. QED
    BY <1>1, InitTyped, StepTyped, PTL DEF ReturningSpec

-----------------------------------------------------------------------------
(* The two lists, said of the set of armed Trys.                           *)

\* Which Trys are armed, by their positions.
LEMMA ArmedIs ==
    ASSUME Typed
    PROVE  /\ \A i \in ArmedTrys :
                 /\ i \in Nat /\ i \in DOMAIN ctl /\ 1 <= i /\ i <= Len(ctl)
                 /\ Armed(i)
                 /\ ctl[i].mark \in Nat /\ ctl[i].prev \in Nat
           /\ \A i \in 1..Len(ctl) : Armed(i) <=> i \in ArmedTrys
           /\ ArmedTrys \in SUBSET Nat
  BY StackTyped DEF ArmedTrys

\* The frames are those of the Trys that run: exc is the last of them, and
\* each prev the last one before.
LEMMA FramesAre ==
    Typed => (FramesMatchTries <=> FramesAgree)
  <1> SUFFICES ASSUME Typed PROVE FramesMatchTries <=> FramesAgree
    OBVIOUS
  <1>1. PICK n \in Nat : n = Len(ctl) /\ DOMAIN ctl = 1..n
    BY StackTyped
  <1>2. ArmedTrys = {i \in 1..n : Armed(i)}
    BY <1>1 DEF ArmedTrys
  <1>3. ASSUME NEW m \in 0..n, NEW p \in Nat
        PROVE  InnermostFrame(p, m) <=> Last(p, {j \in ArmedTrys : j < m + 1})
    <2>0. PICK S : S = {j \in ArmedTrys : j < m + 1}
      OBVIOUS
    <2>1. \A j \in Nat : j \in S <=> j \in 1..m /\ Armed(j)
      BY <1>2, <2>0
    <2>2. \A j \in S : j \in Nat
      BY <1>2, <2>0
    <2>3. CASE S = {}
      <3>1. \A j \in 1..m : ~Armed(j)
        BY <2>1, <2>3
      <3>2. p = 0 <=> InnermostFrame(p, m)
        BY <3>1 DEF InnermostFrame
      <3>3. QED
        BY <2>0, <2>3, <3>2 DEF Last
    <2>4. CASE S # {}
      <3>1. PICK s \in S : s \in 1..m /\ Armed(s)
        BY <2>1, <2>2, <2>4
      <3>2. ASSUME InnermostFrame(p, m) PROVE Last(p, S)
        <4>1. p \in 1..m /\ Armed(p) /\ \A j \in (p + 1)..m : ~Armed(j)
          BY <3>1, <3>2 DEF InnermostFrame
        <4>2. \A j \in S : j <= p
          BY <2>1, <2>2, <4>1
        <4>3. QED
          BY <2>1, <2>4, <4>1, <4>2 DEF Last
      <3>3. ASSUME Last(p, S) PROVE InnermostFrame(p, m)
        <4>1. p \in S /\ \A j \in S : j <= p
          BY <2>4, <3>3 DEF Last
        <4>2. \A j \in (p + 1)..m : ~Armed(j)
          BY <2>1, <4>1
        <4>3. QED
          BY <2>1, <4>1, <4>2 DEF InnermostFrame
      <3>4. QED
        BY <2>0, <3>2, <3>3, Zenon
    <2>5. QED
      BY <2>3, <2>4
  <1>4. InnermostFrame(exc, n) <=> Last(exc, ArmedTrys)
    <2>1. {j \in ArmedTrys : j < n + 1} = ArmedTrys
      BY <1>2
    <2>2. exc \in Nat /\ n \in 0..n
      BY DEF Typed
    <2>3. QED
      BY <1>3, <2>1, <2>2
  <1>5. ASSUME NEW i \in ArmedTrys
        PROVE  InnermostFrame(ctl[i].prev, i - 1) <=> Last(ctl[i].prev, Before(i))
    <2>1. i \in 1..n /\ ctl[i].prev \in Nat
      BY <1>1, ArmedIs
    <2>2. i - 1 \in 0..n /\ (i - 1) + 1 = i
      BY <2>1
    <2>3. InnermostFrame(ctl[i].prev, i - 1)
             <=> Last(ctl[i].prev, {j \in ArmedTrys : j < (i - 1) + 1})
      BY <1>3, <2>1, <2>2
    <2>4. QED
      BY <2>2, <2>3 DEF Before
  <1>6. \A i \in DOMAIN ctl : Armed(i) <=> i \in ArmedTrys
    BY DEF ArmedTrys
  <1>7. QED
    BY <1>1, <1>4, <1>5, <1>6, ArmedIs DEF FramesMatchTries, FramesAgree

\* The cleanup stack names what is built, in reach of the Trys.
LEMMA EntriesAre ==
    Typed => (CleanupMatchesBuilt <=> EntriesAgree)
  <1> SUFFICES ASSUME Typed PROVE CleanupMatchesBuilt <=> EntriesAgree
    OBVIOUS
  <1>1. PICK n \in Nat : n = Len(ctl) /\ DOMAIN ctl = 1..n
    BY StackTyped
  <1>2. ASSUME NEW h \in DOMAIN cleanup, NEW i \in ArmedTrys
        PROVE  Guards(i, h) <=> Reaches(i, h)
    <2>1. i \in 1..n /\ Armed(i)
      BY <1>1, ArmedIs
    <2>2. \A j \in Nat : j \in (i + 1)..n /\ Armed(j) <=> j \in ArmedTrys /\ i < j
      BY <1>1, <2>1 DEF ArmedTrys
    <2>3. ArmedTrys \in SUBSET Nat /\ \A j \in (i + 1)..n : j \in Nat
      BY <2>1, ArmedIs
    <2>4. QED
      BY <1>1, <2>1, <2>2, <2>3 DEF Guards, Reaches
  <1>3. \A h \in DOMAIN cleanup :
           (\E i \in DOMAIN ctl : Guards(i, h)) <=> (\E i \in ArmedTrys : Reaches(i, h))
    BY <1>2 DEF ArmedTrys, Guards
  <1>4. QED
    BY <1>3 DEF CleanupMatchesBuilt, EntriesAgree

\* The Trys that are armed stay so, with their frames and marks, and own what
\* they did.
SameTrys ==
    /\ ArmedTrys' = ArmedTrys
    /\ \A i \in ArmedTrys :
          /\ ctl'[i].mark = ctl[i].mark
          /\ ctl'[i].prev = ctl[i].prev
          /\ ctl[i].own \subseteq ctl'[i].own

\* The armed Trys are the same when they stand among scopes that stay, and
\* no other scope, before or after, is an armed Try.
LEMMA SameIf ==
    ASSUME Typed, Typed', NEW n \in Nat, n <= Len(ctl), n <= Len(ctl'),
           \A i \in 1..n : /\ Armed(i)' <=> Armed(i)
                           /\ ctl'[i].mark = ctl[i].mark
                           /\ ctl'[i].prev = ctl[i].prev
                           /\ ctl[i].own \subseteq ctl'[i].own,
           \A i \in (n + 1)..Len(ctl) : ~Armed(i),
           \A i \in (n + 1)..Len(ctl') : ~Armed(i)'
    PROVE  SameTrys
  <1>1. PICK a \in Nat : a = Len(ctl) /\ DOMAIN ctl = 1..a
    BY StackTyped
  <1>2. PICK b \in Nat : b = Len(ctl') /\ DOMAIN ctl' = 1..b
    BY DEF Typed
  <1>3. ArmedTrys = {i \in 1..a : Armed(i)} /\ ArmedTrys' = {i \in 1..b : Armed(i)'}
    BY <1>1, <1>2 DEF ArmedTrys
  <1>4. \A i \in 1..a : Armed(i) => i \in 1..n
    BY <1>1
  <1>5. \A i \in 1..b : Armed(i)' => i \in 1..n
    BY <1>2
  <1>6. \A i \in 1..n : i \in 1..a /\ i \in 1..b
    BY <1>1, <1>2
  <1>7. ArmedTrys' = ArmedTrys /\ \A i \in ArmedTrys : i \in 1..n
    BY <1>3, <1>4, <1>5, <1>6
  <1>8. QED
    BY <1>7 DEF SameTrys

\* The cleanup stack keeps its first m entries, and what was built of them.
Entries(m) ==
    /\ m <= Len(cleanup)
    /\ Len(cleanup') = m
    /\ \A h \in 1..m : cleanup'[h] = cleanup[h]
    /\ built' = {cleanup[h] : h \in 1..m}
    /\ \A i \in ArmedTrys : ctl[i].mark <= m

\* The lists agree when the armed Trys are the same, and entries above their
\* marks may be taken off.
LEMMA SameAgrees ==
    ASSUME Typed, Typed', Agree, SameTrys, exc' = exc, NEW m \in Nat, Entries(m)
    PROVE  Agree' /\ built' \subseteq built
  <1>1. PICK c \in Nat : c = Len(cleanup) /\ DOMAIN cleanup = 1..c /\ m <= c
    BY DEF Typed, Entries
  <1>2. Len(cleanup') = m /\ DOMAIN cleanup' = 1..m
    BY DEF Typed, Entries
  <1>3. \A i \in ArmedTrys : Before(i)' = Before(i) /\ Before(i) \subseteq ArmedTrys
    BY DEF SameTrys, Before
  <1>4. FramesAgree'
    BY <1>3 DEF Agree, FramesAgree, SameTrys
  <1>5. MarksAgree'
    BY <1>2, <1>3 DEF Agree, MarksAgree, SameTrys, Entries
  <1>6. ASSUME NEW h \in 1..m PROVE \E i \in ArmedTrys' : Reaches(i, h)'
    <2>1. PICK i \in ArmedTrys : Reaches(i, h)
      BY <1>1 DEF Agree, EntriesAgree
    <2>2. QED
      BY <2>1 DEF Reaches, SameTrys, Entries
  <1>7. \A g, h \in 1..m : cleanup'[g] = cleanup'[h] => g = h
    BY <1>1 DEF Agree, EntriesAgree, Entries
  <1>8. EntriesAgree' /\ built' \subseteq built
    BY <1>1, <1>2, <1>6, <1>7 DEF Agree, EntriesAgree, Entries
  <1>9. QED
    BY <1>4, <1>5, <1>8 DEF Agree

\* When no entry is taken off either.
LEMMA Untouched ==
    ASSUME Typed, Agree, cleanup' = cleanup, built' = built
    PROVE  Len(cleanup) \in Nat /\ Entries(Len(cleanup))
  BY DEF Typed, Agree, MarksAgree, EntriesAgree, Entries

\* An object that is built is in the slots of an armed Try.
LEMMA BuiltOwned ==
    ASSUME Agree, NEW o \in built
    PROVE  \E i \in ArmedTrys : o \in ctl[i].own
  <1>1. PICK h \in DOMAIN cleanup : cleanup[h] = o
    BY DEF Agree, EntriesAgree
  <1>2. QED
    BY <1>1 DEF Agree, EntriesAgree, Reaches

\* So no built object loses its storage with a scope that is no armed Try.
LEMMA StorageStays ==
    ASSUME Agree, SameTrys
    PROVE  built \intersect Owned(ctl') = built
  <1>1. ASSUME NEW o \in built PROVE o \in Owned(ctl')
    <2>1. PICK i \in ArmedTrys : o \in ctl[i].own
      BY BuiltOwned
    <2>2. i \in DOMAIN ctl' /\ o \in ctl'[i].own
      BY <2>1 DEF SameTrys, ArmedTrys
    <2>3. QED
      BY <2>2 DEF Owned
  <1>2. QED
    BY <1>1

\* An object is registered that the last of the armed Trys owns.
LEMMA PushAgrees ==
    ASSUME Typed, Typed', Agree, SameTrys, exc' = exc,
           NEW o, o \notin built, cleanup' = Append(cleanup, o),
           built' = built \union {o},
           NEW t \in ArmedTrys, \A j \in ArmedTrys : j <= t, o \in ctl[t].own
    PROVE  Agree'
  <1>1. PICK c \in Nat : c = Len(cleanup) /\ DOMAIN cleanup = 1..c
    BY DEF Typed
  <1>2. /\ Len(cleanup') = c + 1 /\ DOMAIN cleanup' = 1..(c + 1)
        /\ \A h \in 1..c : cleanup'[h] = cleanup[h]
        /\ cleanup'[c + 1] = o
    BY <1>1 DEF Typed
  <1>3. \A i \in ArmedTrys : Before(i)' = Before(i) /\ Before(i) \subseteq ArmedTrys
    BY DEF SameTrys, Before
  <1>4. \A i \in ArmedTrys : i \in Nat /\ ctl[i].mark \in Nat /\ ctl[i].mark <= c
    BY <1>1, ArmedIs DEF Agree, MarksAgree
  <1>5. FramesAgree'
    BY <1>3 DEF Agree, FramesAgree, SameTrys
  <1>6. MarksAgree'
    BY <1>1, <1>2, <1>3, <1>4 DEF Agree, MarksAgree, SameTrys
  <1>7. ASSUME NEW h \in 1..c PROVE \E i \in ArmedTrys' : Reaches(i, h)'
    <2>1. PICK i \in ArmedTrys : Reaches(i, h)
      BY <1>1 DEF Agree, EntriesAgree
    <2>2. QED
      BY <1>2, <2>1 DEF Reaches, SameTrys
  <1>8. Reaches(t, c + 1)' /\ t \in ArmedTrys'
    BY <1>1, <1>2, <1>4 DEF Reaches, SameTrys
  <1>9. \A h \in 1..(c + 1) : h \in 1..c \/ h = c + 1
    OBVIOUS
  <1>10. \A h \in 1..(c + 1) : \E i \in ArmedTrys' : Reaches(i, h)'
    BY <1>7, <1>8, <1>9
  <1>11. built = {cleanup[h] : h \in 1..c}
    BY <1>1 DEF Agree, EntriesAgree
  <1>12. built' = {cleanup'[h] : h \in 1..(c + 1)}
    BY <1>2, <1>9, <1>11
  <1>13. \A g, h \in 1..c : cleanup[g] = cleanup[h] => g = h
    BY <1>1 DEF Agree, EntriesAgree
  <1>14. \A g, h \in 1..(c + 1) : cleanup'[g] = cleanup'[h] => g = h
    BY <1>2, <1>9, <1>11, <1>13
  <1>15. QED
    BY <1>2, <1>5, <1>6, <1>10, <1>12, <1>14 DEF Agree, EntriesAgree

\* A Try is armed above all others.
LEMMA ArmAgrees ==
    ASSUME Typed, Typed', Agree, UNCHANGED <<cleanup, built>>,
           NEW t \in Nat, ArmedTrys' = ArmedTrys \union {t},
           \A i \in ArmedTrys : i < t,
           \A i \in ArmedTrys : ctl'[i] = ctl[i],
           exc' = t, ctl'[t].prev = exc, ctl'[t].mark = Len(cleanup)
    PROVE  Agree'
  <1>1. PICK c \in Nat : c = Len(cleanup) /\ DOMAIN cleanup = 1..c
    BY DEF Typed
  <1>2. \A i \in ArmedTrys : i \in Nat /\ ctl[i].mark \in Nat
    BY ArmedIs
  <1>3. \A i \in ArmedTrys : Before(i)' = Before(i) /\ Before(i) \subseteq ArmedTrys
    BY <1>2 DEF Before
  <1>4. Before(t)' = ArmedTrys
    BY DEF Before
  <1>5. FramesAgree'
    <2>1. Last(exc, ArmedTrys)'
      BY <1>2 DEF Last
    <2>2. Last(ctl[t].prev, Before(t))'
      BY <1>4 DEF Agree, FramesAgree, Last
    <2>3. \A i \in ArmedTrys : Last(ctl[i].prev, Before(i))'
      BY <1>3 DEF Agree, FramesAgree, Last
    <2>4. QED
      BY <2>1, <2>2, <2>3 DEF FramesAgree
  <1>6. MarksAgree'
    BY <1>1, <1>3, <1>4 DEF Agree, MarksAgree
  <1>7. ASSUME NEW h \in DOMAIN cleanup PROVE \E i \in ArmedTrys' : Reaches(i, h)'
    <2>1. PICK i \in ArmedTrys : Reaches(i, h)
      BY DEF Agree, EntriesAgree
    <2>2. h <= c
      BY <1>1
    <2>3. QED
      BY <1>1, <2>1, <2>2 DEF Reaches
  <1>8. QED
    BY <1>5, <1>6, <1>7 DEF Agree, EntriesAgree

\* The last of the armed Trys is no longer one, its entries gone.
LEMMA DisarmAgrees ==
    ASSUME Typed, Typed', Agree, cleanup' = cleanup,
           NEW t \in ArmedTrys, ArmedTrys' = ArmedTrys \ {t},
           \A i \in ArmedTrys : i <= t,
           \A i \in ArmedTrys' : ctl'[i] = ctl[i],
           exc' = ctl[t].prev, cleanup = <<>> \/ Len(cleanup) = ctl[t].mark,
           built' = built \/ built' = built \intersect Owned(ctl')
    PROVE  Agree' /\ built' = built
  <1>1. PICK c \in Nat : c = Len(cleanup) /\ DOMAIN cleanup = 1..c
    BY DEF Typed
  <1>2. \A i \in ArmedTrys : i \in Nat /\ ctl[i].mark \in Nat
    BY ArmedIs
  <1>3. \A i \in ArmedTrys' : i \in ArmedTrys /\ Before(i)' = Before(i)
    BY <1>2 DEF Before
  <1>4. Before(t) = ArmedTrys'
    BY <1>2 DEF Before
  <1>5. FramesAgree'
    <2>1. Last(exc, ArmedTrys)'
      BY <1>4 DEF Agree, FramesAgree, Last
    <2>2. \A i \in ArmedTrys' : Last(ctl[i].prev, Before(i))'
      BY <1>3 DEF Agree, FramesAgree, Last
    <2>3. QED
      BY <2>1, <2>2 DEF FramesAgree
  <1>6. MarksAgree'
    BY <1>3 DEF Agree, MarksAgree, Before
  <1>7. \A h \in DOMAIN cleanup : h <= ctl[t].mark
    BY <1>1
  <1>8. ASSUME NEW h \in DOMAIN cleanup
        PROVE  \E i \in ArmedTrys' : Reaches(i, h) /\ Reaches(i, h)'
    <2>1. PICK i \in ArmedTrys : Reaches(i, h)
      BY DEF Agree, EntriesAgree
    <2>2. i # t
      BY <1>1, <1>2, <1>7, <2>1 DEF Reaches
    <2>3. i \in ArmedTrys'
      BY <2>1, <2>2
    <2>4. QED
      BY <1>3, <2>1, <2>3 DEF Reaches
  <1>9. built' = built
    <2>1. ASSUME NEW o \in built PROVE o \in Owned(ctl')
      <3>1. PICK h \in DOMAIN cleanup : cleanup[h] = o
        BY DEF Agree, EntriesAgree
      <3>2. PICK i \in ArmedTrys' : Reaches(i, h)
        BY <1>8
      <3>3. i \in DOMAIN ctl' /\ o \in ctl'[i].own
        BY <3>1, <3>2 DEF Reaches, ArmedTrys
      <3>4. QED
        BY <3>3 DEF Owned
    <2>2. QED
      BY <2>1
  <1>10. QED
    BY <1>5, <1>6, <1>8, <1>9 DEF Agree, EntriesAgree

-----------------------------------------------------------------------------
(* Slots and constructors.                                                 *)

\* Slots stay apart when no scope gets one.
LEMMA ApartKept ==
    ASSUME OwnApart,
           \A i \in DOMAIN ctl' :
              \/ i \in DOMAIN ctl /\ ctl'[i].own \subseteq ctl[i].own
              \/ ctl'[i].own = {}
    PROVE  OwnApart'
  <1> SUFFICES ASSUME NEW i \in DOMAIN ctl', NEW j \in DOMAIN ctl', i # j,
                      NEW o \in ctl'[i].own, o \in ctl'[j].own
               PROVE  FALSE
    BY DEF OwnApart
  <1>1. i \in DOMAIN ctl /\ j \in DOMAIN ctl /\ o \in ctl[i].own /\ o \in ctl[j].own
    OBVIOUS
  <1>2. ctl[i].own \intersect ctl[j].own = {}
    BY <1>1 DEF OwnApart
  <1>3. QED
    BY <1>1, <1>2

\* A constructor that runs was running, and all below it is as it was.
SameCtor(f) ==
    /\ f \in DOMAIN ctl
    /\ ctl[f].kind = "ctor"
    /\ ctl'[f].obj = ctl[f].obj
    /\ \A i \in 1..(f - 1) : ctl'[i] = ctl[i]

\* Whether code above a scope is sheltered depends on that and those below.
LEMMA ShelterSame ==
    ASSUME NEW n \in Nat, \A i \in 1..n : ctl'[i] = ctl[i]
    PROVE  Sheltered(n)' <=> Sheltered(n)
  <1>1. ASSUME NEW j \in 1..n
        PROVE  /\ ctl'[j] = ctl[j]
               /\ \A k \in (j + 1)..n : ctl'[k] = ctl[k]
    OBVIOUS
  <1>2. QED
    BY <1>1 DEF Sheltered

LEMMA CtorKept ==
    ASSUME Typed, CtorsOnOwn, NEW f \in DOMAIN ctl', SameCtor(f),
           ctl[f].obj \notin built => ctl[f].obj \notin built'
    PROVE  OnOwn(f)'
  <1>1. /\ f \in DOMAIN ctl /\ ctl[f].kind = "ctor" /\ ctl'[f].obj = ctl[f].obj
        /\ \A i \in 1..(f - 1) : ctl'[i] = ctl[i]
    BY DEF SameCtor
  <1>2. /\ f > 1 /\ ctl[f].obj \in ctl[f - 1].own /\ ctl[f].obj \notin built
        /\ Sheltered(f - 1) => Armed(f - 1)
    BY <1>1 DEF CtorsOnOwn, OnOwn
  <1>3. f - 1 \in Nat /\ f - 1 \in 1..(f - 1) /\ ctl'[f - 1] = ctl[f - 1]
    BY <1>1, <1>2, StackTyped
  <1>4. Sheltered(f - 1)' <=> Sheltered(f - 1)
    BY <1>1, <1>3, ShelterSame
  <1>5. QED
    BY <1>1, <1>2, <1>3, <1>4 DEF Armed, OnOwn

LEMMA CtorsKept ==
    ASSUME Typed, CtorsOnOwn,
           \A f \in DOMAIN ctl' : ctl'[f].kind = "ctor" =>
              SameCtor(f) /\ (ctl[f].obj \notin built => ctl[f].obj \notin built')
    PROVE  CtorsOnOwn'
  BY CtorKept DEF CtorsOnOwn

-----------------------------------------------------------------------------
(* What the steps preserve.                                                *)

Safe == Agree /\ OwnApart /\ CtorsOnOwn

\* A scope is opened that is no Try, has no slots and is no constructor; the
\* topmost entries may be taken off.
LEMMA OpensSafe ==
    ASSUME Typed, Typed', Safe, NEW sc, Opened(sc), sc.own = {},
           sc.kind \notin {"try", "ctor"}, exc' = exc, NEW m \in Nat, Entries(m)
    PROVE  Safe'
  <1>1. PICK n \in Nat : n = Len(ctl) /\ DOMAIN ctl = 1..n
    BY StackTyped
  <1>2. /\ Len(ctl') = n + 1 /\ DOMAIN ctl' = 1..(n + 1)
        /\ \A i \in 1..n : ctl'[i] = ctl[i]
        /\ ctl'[n + 1] = sc
        /\ \A i \in 1..(n + 1) : i \in 1..n \/ i = n + 1
    BY <1>1 DEF Opened
  <1>3. SameTrys
    <2>1. \A i \in 1..n : /\ Armed(i)' <=> Armed(i)
                          /\ ctl'[i].mark = ctl[i].mark
                          /\ ctl'[i].prev = ctl[i].prev
                          /\ ctl[i].own \subseteq ctl'[i].own
      BY <1>2 DEF Armed
    <2>2. ~Armed(n + 1)'
      BY <1>2 DEF Armed
    <2>3. \A i \in (n + 1)..Len(ctl') : i = n + 1
      BY <1>2
    <2>4. QED
      BY <1>1, <1>2, <2>1, <2>2, <2>3, SameIf
  <1>4. Agree' /\ built' \subseteq built
    BY <1>3, SameAgrees DEF Safe
  <1>5. OwnApart'
    BY <1>1, <1>2, ApartKept DEF Safe
  <1>6. CtorsOnOwn'
    <2>1. ASSUME NEW f \in DOMAIN ctl', ctl'[f].kind = "ctor"
          PROVE  SameCtor(f) /\ (ctl[f].obj \notin built => ctl[f].obj \notin built')
      <3>1. f \in 1..n /\ \A i \in 1..(f - 1) : i \in 1..n
        BY <1>2, <2>1
      <3>2. QED
        BY <1>1, <1>2, <1>4, <2>1, <3>1 DEF SameCtor
    <2>2. QED
      BY <2>1, CtorsKept DEF Safe
  <1>7. QED
    BY <1>4, <1>5, <1>6 DEF Safe

\* Scopes are left none of which is an armed Try.
LEMMA CutsSafe ==
    ASSUME Typed, Typed', Safe, NEW n \in 0..Len(ctl), CutTo(n),
           \A i \in (n + 1)..Len(ctl) : ~Armed(i),
           exc' = exc, cleanup' = cleanup, DropStorage
    PROVE  Safe' /\ built' = built
  <1>1. Len(ctl) \in Nat /\ DOMAIN ctl = 1..Len(ctl) /\ n \in Nat /\ n <= Len(ctl)
    BY StackTyped
  <1>2. SameTrys
    <2>1. \A i \in 1..n : /\ Armed(i)' <=> Armed(i)
                          /\ ctl'[i].mark = ctl[i].mark
                          /\ ctl'[i].prev = ctl[i].prev
                          /\ ctl[i].own \subseteq ctl'[i].own
      BY DEF CutTo, Armed
    <2>2. n <= Len(ctl') /\ \A i \in (n + 1)..Len(ctl') : ~Armed(i)'
      BY <1>1 DEF CutTo
    <2>3. QED
      BY <1>1, <2>1, <2>2, SameIf
  <1>3. built' = built
    BY <1>2, StorageStays DEF Safe, DropStorage
  <1>4. Agree'
    <2>1. Len(cleanup) \in Nat /\ Entries(Len(cleanup))
      BY <1>3, Untouched DEF Safe
    <2>2. QED
      BY <1>2, <2>1, SameAgrees DEF Safe
  <1>5. OwnApart'
    BY <1>1, ApartKept DEF Safe, CutTo
  <1>6. CtorsOnOwn'
    <2>1. ASSUME NEW f \in DOMAIN ctl', ctl'[f].kind = "ctor"
          PROVE  SameCtor(f) /\ (ctl[f].obj \notin built => ctl[f].obj \notin built')
      <3>1. f \in 1..n /\ \A i \in 1..(f - 1) : i \in 1..n
        BY <1>1 DEF CutTo
      <3>2. QED
        BY <1>1, <1>3, <2>1, <3>1 DEF SameCtor, CutTo
    <2>2. QED
      BY <2>1, CtorsKept DEF Safe
  <1>7. QED
    BY <1>3, <1>4, <1>5, <1>6 DEF Safe

\* A Try is entered.
LEMMA EnterTrySafe ==
    ASSUME Typed, Typed', Safe, EnterTry
    PROVE  Safe'
  <1>1. PICK n \in Nat : n = Len(ctl) /\ DOMAIN ctl = 1..n
    BY StackTyped
  <1>2. Opened(TryScope)
    BY TryTyped, AppendOpens DEF EnterTry
  <1>3. /\ Len(ctl') = n + 1 /\ DOMAIN ctl' = 1..(n + 1)
        /\ \A i \in 1..n : ctl'[i] = ctl[i]
        /\ ctl'[n + 1] = TryScope
        /\ \A i \in 1..(n + 1) : i \in 1..n \/ i = n + 1
    BY <1>1, <1>2 DEF Opened
  <1>4. /\ Armed(n + 1)' /\ ctl'[n + 1].own = {} /\ ctl'[n + 1].kind = "try"
        /\ ctl'[n + 1].prev = exc /\ ctl'[n + 1].mark = Len(cleanup)
    BY <1>3, TryTyped DEF Armed
  <1>5. exc' = n + 1 /\ cleanup' = cleanup /\ built' = built
    BY <1>1 DEF EnterTry
  <1>6. \A i \in ArmedTrys : i \in 1..n /\ i < n + 1
    BY <1>1, ArmedIs
  <1>7. \A i \in 1..n : Armed(i)' <=> Armed(i)
    BY <1>3 DEF Armed
  <1>8. ArmedTrys' = ArmedTrys \union {n + 1}
    BY <1>1, <1>3, <1>4, <1>7 DEF ArmedTrys
  <1>9. Agree'
    BY <1>3, <1>4, <1>5, <1>6, <1>8, ArmAgrees DEF Safe
  <1>10. OwnApart'
    BY <1>1, <1>3, <1>4, ApartKept DEF Safe
  <1>11. CtorsOnOwn'
    <2>1. ASSUME NEW f \in DOMAIN ctl', ctl'[f].kind = "ctor"
          PROVE  SameCtor(f) /\ (ctl[f].obj \notin built => ctl[f].obj \notin built')
      <3>1. f \in 1..n /\ \A i \in 1..(f - 1) : i \in 1..n
        BY <1>3, <1>4, <2>1
      <3>2. QED
        BY <1>1, <1>3, <1>5, <2>1, <3>1 DEF SameCtor
    <2>2. QED
      BY <2>1, CtorsKept DEF Safe
  <1>12. QED
    BY <1>9, <1>10, <1>11 DEF Safe

\* The scope on top changes its phase, armed or not as before, and its slots.
LEMMA TopChangesSame ==
    ASSUME Typed, Typed', Agree, NEW t \in DOMAIN ctl, NEW sc,
           \/ Changed(t, sc)
           \/ CutChanged(t, sc) /\ \A i \in (t + 1)..Len(ctl) : ~Armed(i),
           sc.mark = ctl[t].mark, sc.prev = ctl[t].prev,
           ctl[t].own \subseteq sc.own,
           Armed(t) <=> sc.kind = "try" /\ sc.phase # "handler"
    PROVE  SameTrys
  <1>1. PICK n \in Nat : n = Len(ctl) /\ DOMAIN ctl = 1..n /\ t \in 1..n /\ t \in Nat
    BY StackTyped
  <1>2. PICK k \in {t, n} :
           /\ Len(ctl') = k /\ ctl'[t] = sc
           /\ \A i \in 1..k : i # t => ctl'[i] = ctl[i]
           /\ \A i \in (k + 1)..n : ~Armed(i)
    BY <1>1 DEF Changed, CutChanged
  <1>3. \A i \in 1..k : /\ Armed(i)' <=> Armed(i)
                        /\ ctl'[i].mark = ctl[i].mark
                        /\ ctl'[i].prev = ctl[i].prev
                        /\ ctl[i].own \subseteq ctl'[i].own
    BY <1>2 DEF Armed
  <1>4. k \in Nat /\ k <= Len(ctl) /\ k <= Len(ctl')
        /\ \A i \in (k + 1)..Len(ctl') : ~Armed(i)'
    BY <1>1, <1>2
  <1>5. QED
    BY <1>1, <1>2, <1>3, <1>4, SameIf

\* The body of a Try ends.
LEMMA EndBodySafe ==
    ASSUME Typed, Typed', Safe, EndBody
    PROVE  Safe'
  <1>1. PICK n \in Nat : n = Len(ctl) /\ DOMAIN ctl = 1..n /\ n \in 1..n
    BY StackTyped DEF EndBody, Executing
  <1> DEFINE sc == [Top EXCEPT !.phase = "ending"]
  <1>2. Top \in ReturningScopes /\ Top.kind = "try" /\ Top = ctl[n] /\ Top.phase = "body"
    BY <1>1, StackTyped DEF EndBody, Top
  <1>3. /\ sc \in ReturningScopes /\ sc.kind = "try" /\ sc.phase = "ending"
        /\ sc.mark = Top.mark /\ sc.prev = Top.prev /\ sc.own = Top.own
    BY <1>2 DEF ReturningScopes, Phases
  <1>4. ctl' = [ctl EXCEPT ![n] = sc]
    BY <1>1, <1>2 DEF EndBody
  <1> HIDE DEF sc
  <1>5. Changed(n, sc)
    BY <1>1, <1>3, <1>4, ExceptChanges
  <1>6. exc' = exc /\ cleanup' = cleanup /\ built' = built
    BY DEF EndBody
  <1>7. SameTrys
    BY <1>1, <1>2, <1>3, <1>5, TopChangesSame DEF Safe, Armed
  <1>8. Agree'
    <2>1. Len(cleanup) \in Nat /\ Entries(Len(cleanup))
      BY <1>6, Untouched DEF Safe
    <2>2. QED
      BY <1>6, <1>7, <2>1, SameAgrees DEF Safe
  <1>9. OwnApart'
    BY <1>1, <1>2, <1>3, <1>5, ApartKept DEF Safe, Changed
  <1>10. CtorsOnOwn'
    <2>1. ASSUME NEW f \in DOMAIN ctl', ctl'[f].kind = "ctor"
          PROVE  SameCtor(f) /\ (ctl[f].obj \notin built => ctl[f].obj \notin built')
      <3>1. f \in 1..n /\ f # n
        BY <1>1, <1>3, <1>5, <2>1 DEF Changed
      <3>2. \A i \in 1..(f - 1) : i \in 1..n /\ i # n
        BY <1>1, <3>1
      <3>3. QED
        BY <1>1, <1>5, <1>6, <2>1, <3>1, <3>2 DEF SameCtor, Changed
    <2>2. QED
      BY <2>1, CtorsKept DEF Safe
  <1>11. QED
    BY <1>8, <1>9, <1>10 DEF Safe

\* The frame of the innermost armed Try is popped, its entries gone: it is
\* left, or is not armed any more; nothing it called runs.
LEMMA DisarmSafe ==
    ASSUME Typed, Typed', Safe, NEW t \in ArmedTrys,
           \A i \in ArmedTrys : i <= t,
           \A i \in (t + 1)..Len(ctl) : ctl[i].kind \notin Callable,
           \/ t = Len(ctl) /\ CutTo(t - 1)
           \/ \E sc : /\ Changed(t, sc) /\ sc.phase = "handler" /\ sc.kind = "try"
                      /\ sc.own \subseteq ctl[t].own,
           exc' = ctl[t].prev, cleanup' = cleanup,
           cleanup = <<>> \/ Len(cleanup) = ctl[t].mark,
           built' = built \/ DropStorage
    PROVE  Safe' /\ built' = built
  <1>1. PICK n \in Nat : /\ n = Len(ctl) /\ DOMAIN ctl = 1..n
                         /\ t \in 1..n /\ t \in Nat /\ Armed(t)
    BY StackTyped, ArmedIs
  <1>2. /\ \A i \in DOMAIN ctl' : i \in 1..n /\ ctl'[i].own \subseteq ctl[i].own
        /\ \A i \in 1..n : i # t => i \in DOMAIN ctl' /\ ctl'[i] = ctl[i]
        /\ t \in DOMAIN ctl' => ctl'[t].phase = "handler" /\ ctl'[t].kind = "try"
    <2>1. CASE t = Len(ctl) /\ CutTo(t - 1)
      <3>1. DOMAIN ctl' = 1..(n - 1) /\ \A i \in 1..(n - 1) : ctl'[i] = ctl[i]
        BY <1>1, <2>1 DEF CutTo
      <3>2. \A i \in 1..(n - 1) : i \in 1..n /\ i # n
        BY <1>1
      <3>3. \A i \in 1..n : i # n => i \in 1..(n - 1)
        BY <1>1
      <3>4. t = n
        BY <1>1, <2>1
      <3>5. QED
        BY <3>1, <3>2, <3>3, <3>4
    <2>2. CASE \E sc : /\ Changed(t, sc) /\ sc.phase = "handler" /\ sc.kind = "try"
                       /\ sc.own \subseteq ctl[t].own
      BY <1>1, <2>2 DEF Changed
    <2>3. QED
      BY <2>1, <2>2
  <1>3. ArmedTrys' = ArmedTrys \ {t}
    <2>1. \A i \in 1..n : i # t => (Armed(i)' <=> Armed(i))
      BY <1>2 DEF Armed
    <2>2. t \in DOMAIN ctl' => ~Armed(t)'
      BY <1>2 DEF Armed
    <2>3. QED
      BY <1>1, <1>2, <2>1, <2>2 DEF ArmedTrys
  <1>4. \A i \in ArmedTrys' : ctl'[i] = ctl[i]
    BY <1>1, <1>2, <1>3 DEF ArmedTrys
  <1>5. Agree' /\ built' = built
    BY <1>3, <1>4, DisarmAgrees DEF Safe, DropStorage
  <1>6. OwnApart'
    BY <1>1, <1>2, ApartKept DEF Safe
  <1>7. CtorsOnOwn'
    <2>1. ASSUME NEW f \in DOMAIN ctl', ctl'[f].kind = "ctor"
          PROVE  SameCtor(f) /\ (ctl[f].obj \notin built => ctl[f].obj \notin built')
      <3>1. f \in 1..n /\ f # t /\ ctl'[f] = ctl[f]
        BY <1>2, <2>1
      <3>2. f < t
        <4>1. CASE f > t
          <5>1. f \in (t + 1)..Len(ctl)
            BY <1>1, <3>1, <4>1
          <5>2. QED
            BY <2>1, <3>1, <5>1 DEF Callable
        <4>2. QED
          BY <1>1, <3>1, <4>1
      <3>3. \A i \in 1..(f - 1) : i \in 1..n /\ i # t
        BY <1>1, <3>1, <3>2
      <3>4. QED
        BY <1>1, <1>2, <1>5, <2>1, <3>1, <3>3 DEF SameCtor
    <2>2. QED
      BY <2>1, CtorsKept DEF Safe
  <1>8. QED
    BY <1>5, <1>6, <1>7 DEF Safe

\* Code of the program stands in a Try body exactly if one shelters it.
LEMMA ShelterIs ==
    ASSUME Typed, NEW n \in 0..Len(ctl)
    PROVE  /\ Protecting(Keep(n)) # {} <=> Sheltered(n)
           /\ n = Len(ctl) => (Protecting(ctl) # {} <=> Sheltered(n))
  <1>1. Len(ctl) \in Nat /\ DOMAIN ctl = 1..Len(ctl) /\ n \in Nat
    BY StackTyped
  <1>2. PICK s : /\ s = Keep(n) /\ Len(s) = n /\ DOMAIN s = 1..n
                 /\ \A i \in 1..n : s[i] = ctl[i]
    <2>1. ctl \in Seq(ReturningScopes) /\ Keep(n) = SubSeq(ctl, 1, n)
      BY DEF Typed, Keep
    <2>2. CASE n = 0
      <3>1. Keep(n) = <<>>
        BY <2>1, <2>2, SubSeqEmpty
      <3>2. QED
        BY <2>2, <3>1
    <2>3. CASE n # 0
      <3>1. /\ Len(SubSeq(ctl, 1, n)) = n /\ DOMAIN SubSeq(ctl, 1, n) = 1..n
            /\ \A i \in 1..n : SubSeq(ctl, 1, n)[i] = ctl[i]
        BY <1>1, <2>1, <2>3, SubSeqProperties
      <3>2. QED
        BY <2>1, <3>1
    <2>4. QED
      BY <2>2, <2>3
  <1>3. Protecting(s) # {} <=> Sheltered(n)
    <2>1. \A j \in 1..n : \A k \in (j + 1)..n : k \in 1..n
      BY <1>1
    <2>2. QED
      BY <1>2, <2>1 DEF Protecting, Sheltered
  <1>4. n = Len(ctl) => (Protecting(ctl) # {} <=> Sheltered(n))
    BY <1>1 DEF Protecting, Sheltered
  <1>5. QED
    BY <1>2, <1>3, <1>4

\* A class object is declared, in a Try body itself or outside of all.
LEMMA DeclareSafe ==
    ASSUME Typed, Typed', Safe, ~LocalsAnywhere, NEW o \in Objects, Declare(o)
    PROVE  Safe'
  <1>1. PICK n \in Nat : n = Len(ctl) /\ DOMAIN ctl = 1..n /\ n \in 1..n
    BY BodyRuns, StackTyped DEF Declare
  <1>2. /\ Len(ctl') = n + 1 /\ DOMAIN ctl' = 1..(n + 1)
        /\ \A i \in 1..n : i # n => ctl'[i] = ctl[i]
        /\ ctl'[n] = [ctl[n] EXCEPT !.phase = ctl[n].phase, !.own = ctl[n].own \union {o}]
        /\ ctl'[n + 1] = Scope("ctor", o)
    BY <1>1, DeclareStack
  <1>3. /\ ctl'[n].kind = ctl[n].kind /\ ctl'[n].phase = ctl[n].phase
        /\ ctl'[n].obj = ctl[n].obj /\ ctl'[n].own = ctl[n].own \union {o}
        /\ ctl'[n].mark = ctl[n].mark /\ ctl'[n].prev = ctl[n].prev
    <2>1. ctl[n] \in ReturningScopes
      BY <1>1, StackTyped
    <2>2. QED
      BY <1>2, <2>1 DEF ReturningScopes
  <1>4. /\ ctl'[n + 1].kind = "ctor" /\ ctl'[n + 1].obj = o /\ ctl'[n + 1].own = {}
        /\ \A i \in 1..(n + 1) : i \in 1..n \/ i = n + 1
    BY <1>2, ScopeTyped DEF Kinds, Callable
  <1>5. \A i \in 1..n :
           /\ ctl'[i].kind = ctl[i].kind /\ ctl'[i].phase = ctl[i].phase
           /\ ctl'[i].obj = ctl[i].obj
           /\ ctl'[i].mark = ctl[i].mark /\ ctl'[i].prev = ctl[i].prev
           /\ i # n => ctl'[i].own = ctl[i].own
    BY <1>2, <1>3
  <1>6. exc' = exc /\ cleanup' = cleanup /\ built' = built /\ o \notin Owned(ctl)
    BY DEF Declare
  <1>7. \A i \in 1..n : o \notin ctl[i].own
    BY <1>1, <1>6 DEF Owned
  <1>8. SameTrys
    <2>1. \A i \in 1..n : /\ Armed(i)' <=> Armed(i)
                          /\ ctl'[i].mark = ctl[i].mark
                          /\ ctl'[i].prev = ctl[i].prev
                          /\ ctl[i].own \subseteq ctl'[i].own
      BY <1>3, <1>5 DEF Armed
    <2>2. ~Armed(n + 1)'
      BY <1>4 DEF Armed
    <2>3. /\ n <= Len(ctl) /\ n <= Len(ctl')
          /\ \A i \in (n + 1)..Len(ctl) : ~Armed(i)
          /\ \A i \in (n + 1)..Len(ctl') : ~Armed(i)'
      BY <1>1, <1>2, <2>2
    <2>4. QED
      BY <2>1, <2>3, SameIf
  <1>9. Agree'
    <2>1. Len(cleanup) \in Nat /\ Entries(Len(cleanup))
      BY <1>6, Untouched DEF Safe
    <2>2. QED
      BY <1>6, <1>8, <2>1, SameAgrees DEF Safe
  <1>10. OwnApart'
    <2> SUFFICES ASSUME NEW i \in 1..(n + 1), NEW j \in 1..(n + 1), i # j,
                        NEW x \in ctl'[i].own, x \in ctl'[j].own
                 PROVE  FALSE
      BY <1>2 DEF OwnApart
    <2>1. i \in 1..n /\ j \in 1..n
      BY <1>4
    <2>2. ctl[i].own \intersect ctl[j].own = {}
      BY <1>1, <2>1 DEF Safe, OwnApart
    <2>3. CASE i = n
      <3>1. ctl'[j].own = ctl[j].own /\ (x \in ctl[i].own \/ x = o)
        BY <1>3, <1>5, <2>1, <2>3
      <3>2. QED
        BY <1>7, <2>1, <2>2, <3>1
    <2>4. CASE i # n
      <3>1. ctl'[i].own = ctl[i].own /\ (x \in ctl[j].own \/ x = o)
        BY <1>3, <1>5, <2>1, <2>4
      <3>2. QED
        BY <1>7, <2>1, <2>2, <3>1
    <2>5. QED
      BY <2>3, <2>4
  <1>11. CtorsOnOwn'
    <2>1. ASSUME NEW f \in 1..n, ctl'[f].kind = "ctor" PROVE OnOwn(f)'
      <3>1. \A i \in 1..(f - 1) : i \in 1..n /\ i # n
        BY <1>1
      <3>2. SameCtor(f) /\ f \in DOMAIN ctl'
        BY <1>1, <1>2, <1>5, <2>1, <3>1 DEF SameCtor
      <3>3. QED
        BY <1>6, <3>2, CtorKept DEF Safe
    <2>2. o \notin built
      <3>1. ASSUME o \in built PROVE FALSE
        <4>1. PICK i \in ArmedTrys : o \in ctl[i].own
          BY <3>1, BuiltOwned DEF Safe
        <4>2. QED
          BY <1>1, <1>7, <4>1, ArmedIs
      <3>2. QED
        BY <3>1
    <2>3. Sheltered(n)' => Armed(n)'
      <3>1. Sheltered(n)' => Sheltered(n)
        <4>1. \A j \in 1..n : \A k \in (j + 1)..n : k \in 1..n
          OBVIOUS
        <4>2. QED
          BY <1>5, <4>1 DEF Sheltered
      <3>2. Sheltered(n) => Protecting(ctl) # {}
        BY <1>1, ShelterIs
      <3>3. Protecting(ctl) # {} => ctl[n].kind = "try" /\ ctl[n].phase = "body"
        BY <1>1 DEF Declare, Top
      <3>4. QED
        BY <1>3, <3>1, <3>2, <3>3 DEF Armed
    <2>4. OnOwn(n + 1)'
      <3>1. (n + 1) - 1 = n /\ n + 1 > 1
        BY <1>1
      <3>2. QED
        BY <1>3, <1>4, <1>6, <2>2, <2>3, <3>1 DEF OnOwn
    <2>5. QED
      BY <1>2, <1>4, <2>1, <2>4 DEF CtorsOnOwn
  <1>12. QED
    BY <1>9, <1>10, <1>11 DEF Safe

\* A Return that has popped what it stands in leaves no armed Try.
LEMMA ReturnLeaves ==
    ASSUME Typed, OnlyCalls, Returning, Protecting(ctl) = {},
           NEW f \in DOMAIN ctl, Activation(f)
    PROVE  \A j \in f..Len(ctl) : ~Armed(j)
  <1>1. PICK n \in Nat : n = Len(ctl) /\ DOMAIN ctl = 1..n /\ f \in 1..n
    BY StackTyped
  <1> SUFFICES ASSUME NEW j \in f..n, Armed(j) PROVE FALSE
    BY <1>1
  <1>2. j # f /\ j \in 1..n /\ ctl[j].kind = "try"
    BY <1>1 DEF Activation, Armed, Callable
  <1>3. \A k \in (j + 1)..n : ctl[k].kind \notin Callable
    BY <1>1, <1>2 DEF Activation
  <1>4. ctl[j].phase # "body"
    BY <1>1, <1>2, <1>3 DEF Protecting
  <1>5. ctl[j].phase \in Phases
    <2>1. ctl[j] \in ReturningScopes
      BY <1>1, <1>2, StackTyped
    <2>2. QED
      BY <2>1 DEF ReturningScopes
  <1>6. Waits(j)
    BY <1>2, <1>4, <1>5 DEF Waits, Phases, Armed
  <1>7. j # n
    BY <1>1, <1>2 DEF Returning, Top
  <1>8. j + 1 \in (j + 1)..n /\ j < Len(ctl) /\ j \in DOMAIN ctl
    BY <1>1, <1>2, <1>7
  <1>9. QED
    BY <1>3, <1>6, <1>8 DEF OnlyCalls

\* A Return ends, and registers what a constructor made in a Try body.
LEMMA EndReturnSafe ==
    ASSUME TInv, Typed', Safe, EndReturn
    PROVE  Safe' /\ built \subseteq built'
  <1>1. PICK f \in DOMAIN ctl :
           /\ Activation(f)
           /\ ctl' = Keep(f - 1)
           /\ IF ctl[f].kind = "ctor" /\ Registered(ctl')
              THEN /\ cleanup' = Append(cleanup, ctl[f].obj)
                   /\ built' = (built \intersect Owned(ctl')) \union {ctl[f].obj}
              ELSE DropStorage /\ UNCHANGED cleanup
    BY DEF EndReturn
  <1>2. Typed /\ OnlyCalls /\ exc' = exc
    BY DEF TInv, EndReturn
  <1>3. PICK n \in Nat : n = f - 1 /\ n \in 0..Len(ctl) /\ n + 1 = f
    BY <1>2, StackTyped
  <1>4. \A j \in (n + 1)..Len(ctl) : ~Armed(j)
    BY <1>1, <1>2, <1>3, ReturnLeaves DEF EndReturn
  <1>5. CutTo(n)
    BY <1>1, <1>2, <1>3, KeepCuts
  <1>6. CASE ~(ctl[f].kind = "ctor" /\ Registered(ctl'))
    <2>1. DropStorage /\ cleanup' = cleanup
      BY <1>1, <1>6
    <2>2. QED
      BY <1>2, <1>3, <1>4, <1>5, <2>1, CutsSafe
  <1>7. CASE ctl[f].kind = "ctor" /\ Registered(ctl')
    <2>1. PICK o \in Objects : o = ctl[f].obj
      BY <1>2, <1>7 DEF Typed
    <2>2. Sheltered(n)
      BY <1>1, <1>2, <1>3, <1>7, ShelterIs DEF Registered
    <2>3. /\ f > 1 /\ o \in ctl[n].own /\ o \notin built /\ Armed(n)
      BY <1>3, <1>7, <2>1, <2>2 DEF Safe, CtorsOnOwn, OnOwn
    <2>4. /\ n \in 1..Len(ctl) /\ n \in ArmedTrys
          /\ Len(ctl) \in Nat /\ DOMAIN ctl = 1..Len(ctl)
      BY <1>2, <1>3, <2>3, StackTyped, ArmedIs
    <2>5. \A j \in ArmedTrys : j <= n
      BY <1>2, <1>4, ArmedIs
    <2>6. SameTrys
      <3>1. \A i \in 1..n : /\ Armed(i)' <=> Armed(i)
                            /\ ctl'[i].mark = ctl[i].mark
                            /\ ctl'[i].prev = ctl[i].prev
                            /\ ctl[i].own \subseteq ctl'[i].own
        BY <1>5 DEF CutTo, Armed
      <3>2. n <= Len(ctl) /\ n <= Len(ctl') /\ \A i \in (n + 1)..Len(ctl') : ~Armed(i)'
        BY <1>5, <2>4 DEF CutTo
      <3>3. QED
        BY <1>2, <1>4, <3>1, <3>2, SameIf
    <2>7. cleanup' = Append(cleanup, o) /\ built' = built \union {o}
      BY <1>1, <1>7, <2>1, <2>6, StorageStays DEF Safe
    <2>8. Agree'
      BY <1>2, <2>3, <2>4, <2>5, <2>6, <2>7, PushAgrees DEF Safe
    <2>9. OwnApart'
      BY <1>5, <2>4, ApartKept DEF Safe, CutTo
    <2>10. CtorsOnOwn'
      <3>1. ASSUME NEW g \in DOMAIN ctl', ctl'[g].kind = "ctor"
            PROVE  SameCtor(g) /\ (ctl[g].obj \notin built => ctl[g].obj \notin built')
        <4>1. g \in 1..n /\ \A i \in 1..(g - 1) : i \in 1..n
          BY <1>5 DEF CutTo
        <4>2. SameCtor(g)
          BY <1>5, <2>4, <3>1, <4>1 DEF SameCtor, CutTo
        <4>3. g > 1 /\ ctl[g].obj \in ctl[g - 1].own
          BY <4>2 DEF Safe, CtorsOnOwn, OnOwn, SameCtor
        <4>4. g - 1 \in DOMAIN ctl /\ n \in DOMAIN ctl /\ g - 1 # n
          BY <2>4, <4>1, <4>3
        <4>5. ctl[g].obj # o
          BY <2>3, <4>3, <4>4 DEF Safe, OwnApart
        <4>6. QED
          BY <2>7, <4>2, <4>5
      <3>2. QED
        BY <1>2, <3>1, CtorsKept DEF Safe
    <2>11. QED
      BY <2>7, <2>8, <2>9, <2>10 DEF Safe
  <1>8. QED
    BY <1>6, <1>7

\* A Throw unwinds to the innermost Try that is armed, and loses no object.
LEMMA ThrowCaughtSafe ==
    ASSUME Typed, Typed', Safe, ThrowCaught
    PROVE  Safe' /\ built' = built
  <1>1. /\ exc \in DOMAIN ctl
        /\ exc' = exc /\ cleanup' = cleanup /\ DropStorage
    BY DEF ThrowCaught, FrameInScope
  <1>2. PICK n \in Nat : n = Len(ctl) /\ DOMAIN ctl = 1..n /\ exc \in 1..n
    BY <1>1, StackTyped
  <1>3. exc \in ArmedTrys /\ \A j \in ArmedTrys : j <= exc
    BY <1>2 DEF Safe, Agree, FramesAgree, Last
  <1>4. PICK t \in Nat : t = exc /\ t \in 1..n /\ t \in DOMAIN ctl /\ Armed(t)
    BY <1>2, <1>3, ArmedIs
  <1>5. \A j \in (t + 1)..n : ~Armed(j)
    BY <1>2, <1>3, <1>4, ArmedIs
  <1>6. PICK sc \in ReturningScopes :
           /\ CutChanged(t, sc)
           /\ sc.kind = "try" /\ sc.phase = "unwinding"
           /\ sc.mark = ctl[t].mark /\ sc.prev = ctl[t].prev
           /\ sc.own = UNION {ctl[j].own : j \in SameActivation(t)}
    BY <1>4, ThrowStack
  <1>7. \A j \in SameActivation(t) : j \in 1..n /\ t <= j
    BY <1>2, <1>4 DEF SameActivation
  <1>8. ctl[t].own \subseteq sc.own
    <2>1. t \in SameActivation(t)
      BY <1>2, <1>4 DEF SameActivation
    <2>2. QED
      BY <1>6, <2>1
  <1>9. SameTrys
    BY <1>2, <1>4, <1>5, <1>6, <1>8, TopChangesSame DEF Safe
  <1>10. built' = built
    BY <1>1, <1>9, StorageStays DEF Safe, DropStorage
  <1>11. Agree'
    <2>1. Len(cleanup) \in Nat /\ Entries(Len(cleanup))
      BY <1>1, <1>10, Untouched DEF Safe
    <2>2. QED
      BY <1>1, <1>9, <2>1, SameAgrees DEF Safe
  <1>12. /\ DOMAIN ctl' = 1..t /\ ctl'[t] = sc
         /\ \A i \in 1..t : i # t => ctl'[i] = ctl[i]
         /\ \A i \in 1..t : i \in 1..n
    BY <1>2, <1>4, <1>6 DEF CutChanged
  <1>13. OwnApart'
    <2>1. ASSUME NEW i \in 1..t, i # t PROVE ctl[i].own \intersect sc.own = {}
      <3>1. \A j \in SameActivation(t) : ctl[i].own \intersect ctl[j].own = {}
        BY <1>2, <1>4, <1>7, <2>1 DEF Safe, OwnApart
      <3>2. QED
        BY <1>6, <3>1
    <2>2. \A i, j \in 1..t : i # j => ctl[i].own \intersect ctl[j].own = {}
      BY <1>2, <1>12 DEF Safe, OwnApart
    <2>3. QED
      BY <1>12, <2>1, <2>2 DEF OwnApart
  <1>14. CtorsOnOwn'
    <2>1. ASSUME NEW f \in DOMAIN ctl', ctl'[f].kind = "ctor"
          PROVE  SameCtor(f) /\ (ctl[f].obj \notin built => ctl[f].obj \notin built')
      <3>1. f \in 1..t /\ f # t /\ f \in 1..n
        BY <1>6, <1>12, <2>1
      <3>2. \A i \in 1..(f - 1) : i \in 1..t /\ i # t
        BY <1>4, <3>1
      <3>3. QED
        BY <1>2, <1>10, <1>12, <2>1, <3>1, <3>2 DEF SameCtor
    <2>2. QED
      BY <2>1, CtorsKept DEF Safe
  <1>15. QED
    BY <1>10, <1>11, <1>13, <1>14 DEF Safe

\* The entry on top is of the innermost armed Try, unless that is done: its
\* object is there, and the Try declared it.
LEMMA VictimIs ==
    ASSUME Typed, Typed', Agree, NEW t \in ArmedTrys, \A j \in ArmedTrys : j <= t,
           ~(cleanup = <<>> \/ Len(cleanup) = ctl[t].mark)
    PROVE  /\ Victim \in built /\ Victim \in ctl[t].own
           /\ Len(cleanup) - 1 \in Nat
           /\ cleanup' = SubSeq(cleanup, 1, Len(cleanup) - 1) /\ built' = built \ {Victim}
                => Entries(Len(cleanup) - 1)
  <1>1. PICK c \in Nat : c = Len(cleanup) /\ DOMAIN cleanup = 1..c /\ c \in 1..c
    BY DEF Typed
  <1>2. \A i \in ArmedTrys : i \in Nat /\ ctl[i].mark \in Nat
    BY ArmedIs
  <1>3. ctl[t].mark < c
    BY <1>1, <1>2 DEF Agree, MarksAgree
  <1>4. \A i \in ArmedTrys : ctl[i].mark <= ctl[t].mark
    BY <1>2 DEF Agree, MarksAgree, Before
  <1>5. PICK i \in ArmedTrys : Reaches(i, c)
    BY <1>1 DEF Agree, EntriesAgree
  <1>6. i = t
    BY <1>2, <1>3, <1>5 DEF Reaches
  <1>7. Victim \in built /\ Victim \in ctl[t].own
    BY <1>1, <1>5, <1>6 DEF Reaches, Victim, Agree, EntriesAgree
  <1>8. ASSUME cleanup' = SubSeq(cleanup, 1, c - 1), built' = built \ {Victim}
        PROVE  Entries(c - 1)
    <2>1. Len(cleanup') = c - 1 /\ \A h \in 1..(c - 1) : cleanup'[h] = cleanup[h]
      <3>1. CASE c = 1
        <4>1. cleanup' = SubSeq(cleanup, 1, 0)
          BY <1>8, <3>1
        <4>2. QED
          BY <3>1, <4>1, SubSeqEmpty DEF Typed
      <3>2. CASE c # 1
        BY <1>1, <1>8, <3>2, SubSeqProperties DEF Typed
      <3>3. QED
        BY <3>1, <3>2
    <2>2. built = {cleanup[h] : h \in 1..c} /\ \A g, h \in 1..c : cleanup[g] = cleanup[h] => g = h
      BY <1>1 DEF Agree, EntriesAgree
    <2>3. \A h \in 1..c : h \in 1..(c - 1) <=> h # c
      BY <1>1
    <2>4. built' = {cleanup[h] : h \in 1..(c - 1)}
      <3>1. Victim = cleanup[c]
        BY <1>1 DEF Victim
      <3>2. \A h \in 1..(c - 1) : h \in 1..c
        BY <1>1
      <3>3. QED
        BY <1>1, <1>8, <2>2, <2>3, <3>1, <3>2
    <2>5. \A j \in ArmedTrys : ctl[j].mark <= c - 1
      BY <1>1, <1>2, <1>3, <1>4
    <2>6. QED
      BY <1>1, <2>1, <2>4, <2>5 DEF Entries
  <1>9. QED
    BY <1>1, <1>7, <1>8

\* The Try that runs its RunTo is the innermost armed one.
LEMMA RunningIsLast ==
    ASSUME Typed, Agree, RunningTo
    PROVE  /\ Len(ctl) \in ArmedTrys /\ \A j \in ArmedTrys : j <= Len(ctl)
           /\ exc = Len(ctl) /\ Top = ctl[Len(ctl)]
  <1>1. PICK n \in Nat : n = Len(ctl) /\ DOMAIN ctl = 1..n /\ n \in 1..n
    BY StackTyped DEF RunningTo
  <1>2. n \in ArmedTrys /\ Top = ctl[n]
    BY <1>1 DEF RunningTo, Top, ArmedTrys, Armed
  <1>3. \A j \in ArmedTrys : j \in Nat /\ j <= n
    BY <1>1, ArmedIs
  <1>4. exc \in ArmedTrys /\ n <= exc
    BY <1>2 DEF Agree, FramesAgree, Last
  <1>5. QED
    BY <1>1, <1>2, <1>3, <1>4

\* So is the one a Return is about to leave.
LEMMA InnermostIsLast ==
    ASSUME Typed, OnlyCalls, Agree, ReturnRunsTo
    PROVE  /\ Innermost \in ArmedTrys /\ \A j \in ArmedTrys : j <= Innermost
           /\ exc = Innermost
           /\ \A k \in (Innermost + 1)..Len(ctl) : ctl[k].kind \notin Callable
  <1>1. PICK n \in Nat : n = Len(ctl) /\ DOMAIN ctl = 1..n /\ n \in 1..n
    BY StackTyped DEF ReturnRunsTo, Returning
  <1>2. \A j \in ArmedTrys : j \in Nat /\ j \in 1..n
    BY <1>1, ArmedIs
  <1>3. PICK s \in Protecting(ctl) : s \in ArmedTrys
    BY DEF ReturnRunsTo, Protecting, ArmedTrys, Armed
  <1>4. exc \in ArmedTrys /\ \A j \in ArmedTrys : j <= exc
    BY <1>3 DEF Agree, FramesAgree, Last
  <1>5. PICK t \in Nat : t = exc /\ t \in 1..n /\ ctl[t].kind = "try" /\ ctl[t].phase # "handler"
    BY <1>1, <1>2, <1>4 DEF ArmedTrys, Armed
  <1>6. \A k \in (t + 1)..n : ctl[k].kind \notin Callable
    <2>1. s <= t /\ s \in Nat
      BY <1>2, <1>3, <1>4, <1>5
    <2>2. QED
      BY <1>1, <1>5, <2>1 DEF Protecting
  <1>7. ctl[t].phase = "body"
    <2>1. ASSUME ctl[t].phase # "body" PROVE FALSE
      <3>1. ctl[t] \in ReturningScopes
        BY <1>1, <1>5, StackTyped
      <3>2. Waits(t)
        BY <1>5, <2>1, <3>1 DEF Waits, ReturningScopes, Phases
      <3>3. t # n
        BY <1>1, <1>5 DEF ReturnRunsTo, Returning, Top
      <3>4. t + 1 \in (t + 1)..n /\ t < Len(ctl) /\ t \in DOMAIN ctl
        BY <1>1, <1>5, <3>3
      <3>5. QED
        BY <1>6, <3>2, <3>4 DEF OnlyCalls
    <2>2. QED
      BY <2>1
  <1>8. t \in Protecting(ctl)
    BY <1>1, <1>5, <1>6, <1>7 DEF Protecting
  <1>9. Innermost \in Protecting(ctl) /\ \A k \in Protecting(ctl) : k <= Innermost
    <2>1. \A k \in Protecting(ctl) : k <= t
      BY <1>4, <1>5 DEF Protecting, ArmedTrys, Armed
    <2>2. QED
      BY <1>8, <2>1 DEF Innermost
  <1>10. Innermost = t
    <2>1. Innermost <= t /\ t <= Innermost /\ Innermost \in Nat
      BY <1>1, <1>2, <1>4, <1>5, <1>8, <1>9 DEF Protecting, ArmedTrys, Armed
    <2>2. QED
      BY <2>1
  <1>11. QED
    BY <1>1, <1>4, <1>5, <1>6, <1>10

-----------------------------------------------------------------------------
(* The theorems.  The inductive invariant: types, and the lists agreeing   *)
(* with the C stack for a reason.                                          *)

IInv == TInv /\ NeverUndefined /\ Safe

\* The object that a step takes away, if it takes one, is the one on top of
\* the cleanup stack, and the Try whose RunTo makes the step declared it.
ByItsTry ==
    \A o \in built \ built' :
        /\ o = Victim
        /\ \/ RunToStep /\ o \in Top.own
           \/ ReturnDestroys /\ o \in ctl[Innermost].own

Good == NeverUndefined' /\ Safe' /\ ByItsTry

\* A step that takes nothing away, of a process that goes on.
LEMMA TakesNothing ==
    ASSUME Safe', built \subseteq built', status' # "undefined"
    PROVE  Good
  BY DEF Good, ByItsTry, NeverUndefined

\* A step that only ends the process.
LEMMA StopsSafe ==
    ASSUME Safe, UNCHANGED <<ctl, exc, cleanup, built>>, status' # "undefined"
    PROVE  Good
  <1>1. Safe'
    BY DEF Safe, Agree, FramesAgree, MarksAgree, EntriesAgree, Reaches, Last, Before,
           ArmedTrys, Armed, OwnApart, CtorsOnOwn, OnOwn, Sheltered
  <1>2. QED
    BY <1>1, TakesNothing

LEMMA InitSafe ==
    Init => IInv
  <1> SUFFICES ASSUME Init PROVE IInv
    OBVIOUS
  <1>1. TInv
    BY InitTyped
  <1>2. Scope("fn", NoObj).kind = "fn" /\ Scope("fn", NoObj).own = {}
    BY ScopeTyped DEF Kinds, Callable
  <1>3. DOMAIN ctl = {1} /\ ctl[1] = Scope("fn", NoObj)
    BY DEF Init
  <1>4. ArmedTrys = {}
    BY <1>2, <1>3 DEF ArmedTrys, Armed
  <1>5. cleanup = <<>> /\ DOMAIN cleanup = {} /\ built = {} /\ exc = 0
    BY DEF Init
  <1>6. Agree
    BY <1>4, <1>5 DEF Agree, FramesAgree, MarksAgree, EntriesAgree, Last
  <1>7. OwnApart /\ CtorsOnOwn
    BY <1>2, <1>3 DEF OwnApart, CtorsOnOwn
  <1>8. QED
    BY <1>1, <1>6, <1>7 DEF Init, IInv, Safe, NeverUndefined

\* Statements of the program.
LEMMA BodySafe ==
    ASSUME IInv, TInv', ~EarlyExit, Body
    PROVE  Good
  <1>1. Typed /\ Typed' /\ Safe /\ status = "running" /\ Agree
    BY DEF IInv, TInv, Body, InBody, Executing, Safe
  <1>2. Len(ctl) \in DOMAIN ctl /\ Len(ctl) \in Nat /\ DOMAIN ctl = 1..Len(ctl)
        /\ Top = ctl[Len(ctl)]
    BY <1>1, StackTyped DEF Top
  <1>3. ASSUME exc' = exc, cleanup' = cleanup, built' = built,
               NEW kind \in {"fn", "block"}, ctl' = Append(ctl, Scope(kind, NoObj))
        PROVE  Safe'
    <2>1. /\ Scope(kind, NoObj) \in ReturningScopes
          /\ Scope(kind, NoObj).kind = kind /\ Scope(kind, NoObj).own = {}
      BY ScopeTyped DEF Kinds, Callable
    <2>2. Opened(Scope(kind, NoObj))
      BY <1>1, <1>3, <2>1, AppendOpens
    <2>3. Len(cleanup) \in Nat /\ Entries(Len(cleanup))
      BY <1>1, <1>3, Untouched
    <2>4. QED
      BY <1>1, <1>3, <2>1, <2>2, <2>3, OpensSafe
  <1>4. ASSUME NEW n \in 0..Len(ctl), ctl' = Keep(n),
               \A j \in (n + 1)..Len(ctl) : ~Armed(j),
               exc' = exc, cleanup' = cleanup, DropStorage
        PROVE  Safe' /\ built' = built
    <2>1. CutTo(n)
      BY <1>1, <1>4, KeepCuts
    <2>2. QED
      BY <1>1, <1>4, <2>1, CutsSafe
  <1>5. CASE Call
    BY <1>1, <1>3, <1>5, TakesNothing DEF Call
  <1>6. CASE OpenBlock
    BY <1>1, <1>3, <1>6, TakesNothing DEF OpenBlock
  <1>7. CASE EnterTry
    <2>1. Safe'
      BY <1>1, <1>7, EnterTrySafe
    <2>2. QED
      BY <1>1, <1>7, <2>1, TakesNothing DEF EnterTry
  <1>8. CASE LeaveBlock
    <2>1. PICK b \in DOMAIN ctl : MayLeave(b) /\ ctl' = Keep(b - 1)
      BY <1>8 DEF LeaveBlock
    <2>2. PICK n \in 0..Len(ctl) : n = b - 1 /\ n + 1 = b
      BY <1>2
    <2>3. \A j \in (n + 1)..Len(ctl) : ~Armed(j)
      BY <2>1, <2>2 DEF MayLeave
    <2>4. exc' = exc /\ cleanup' = cleanup /\ DropStorage /\ status' = status
      BY <1>8 DEF LeaveBlock
    <2>5. Safe' /\ built' = built
      BY <1>4, <2>1, <2>2, <2>3, <2>4
    <2>6. QED
      BY <1>1, <2>4, <2>5, TakesNothing
  <1>9. CASE EndBody
    <2>1. Safe'
      BY <1>1, <1>9, EndBodySafe
    <2>2. QED
      BY <1>1, <1>9, <2>1, TakesNothing DEF EndBody
  <1>10. CASE EndHandler
    <2>0. Len(ctl) \in 1..Len(ctl)
      BY <1>2
    <2>1. PICK n \in 0..Len(ctl) : n = Len(ctl) - 1
      <3>1. \A k \in Nat : k \in 1..k => k - 1 \in 0..k
        BY SMT
      <3>2. Len(ctl) - 1 \in 0..Len(ctl)
        BY <1>2, <2>0, <3>1
      <3>3. QED
        BY <3>2
    <2>2. \A j \in (n + 1)..Len(ctl) : ~Armed(j)
      BY <1>2, <1>10, <2>1 DEF EndHandler, Armed
    <2>3. ctl' = Keep(n) /\ exc' = exc /\ cleanup' = cleanup /\ DropStorage /\ status' = status
      BY <1>10, <2>1 DEF EndHandler
    <2>4. Safe' /\ built' = built
      BY <1>4, <2>2, <2>3
    <2>5. QED
      BY <1>1, <2>3, <2>4, TakesNothing
  <1>11. QED
    BY <1>5, <1>6, <1>7, <1>8, <1>9, <1>10 DEF Body

\* An entry is taken off by the RunTo of the innermost armed Try.
LEMMA DestroysSafe ==
    ASSUME Typed, Typed', Safe, NEW t \in ArmedTrys, \A j \in ArmedTrys : j <= t,
           ~(cleanup = <<>> \/ Len(cleanup) = ctl[t].mark),
           cleanup' = SubSeq(cleanup, 1, Len(cleanup) - 1),
           built' = built \ {Victim},
           ctl' = Append(ctl, Scope("dtor", Victim)), exc' = exc
    PROVE  Safe' /\ Victim \in ctl[t].own /\ \A o \in built \ built' : o = Victim
  <1>1. /\ Victim \in built /\ Victim \in ctl[t].own
        /\ Len(cleanup) - 1 \in Nat /\ Entries(Len(cleanup) - 1)
    BY VictimIs DEF Safe
  <1>2. Victim \in Objects
    BY <1>1 DEF Typed
  <1>3. /\ Scope("dtor", Victim) \in ReturningScopes
        /\ Scope("dtor", Victim).kind = "dtor" /\ Scope("dtor", Victim).own = {}
    BY <1>2, ScopeTyped DEF Kinds, Callable
  <1>4. Opened(Scope("dtor", Victim))
    BY <1>3, AppendOpens
  <1>5. Safe'
    BY <1>1, <1>3, <1>4, OpensSafe
  <1>6. QED
    BY <1>1, <1>5

\* Returns.
LEMMA LeaveSafe ==
    ASSUME IInv, TInv', Leave
    PROVE  Good
  <1>1. Typed /\ Typed' /\ Safe /\ Agree /\ OnlyCalls /\ TInv /\ status # "undefined"
    BY DEF IInv, TInv, Safe, NeverUndefined
  <1>2. CASE BeginReturn
    <2>1. /\ Scope("return", NoObj) \in ReturningScopes
          /\ Scope("return", NoObj).kind = "return" /\ Scope("return", NoObj).own = {}
      BY ScopeTyped
    <2>2. /\ ctl' = Append(ctl, Scope("return", NoObj))
          /\ UNCHANGED <<exc, cleanup, built, status>>
      BY <1>2 DEF BeginReturn
    <2>3. Opened(Scope("return", NoObj))
      BY <1>1, <2>1, <2>2, AppendOpens
    <2>4. Len(cleanup) \in Nat /\ Entries(Len(cleanup))
      BY <1>1, <2>2, Untouched
    <2>5. Safe'
      BY <1>1, <2>1, <2>2, <2>3, <2>4, OpensSafe
    <2>6. QED
      BY <1>1, <2>2, <2>5, TakesNothing
  <1>3. CASE ReturnDestroys
    <2>1. /\ Innermost \in ArmedTrys /\ \A j \in ArmedTrys : j <= Innermost
      BY <1>1, <1>3, InnermostIsLast DEF ReturnDestroys
    <2>2. ~(cleanup = <<>> \/ Len(cleanup) = ctl[Innermost].mark)
      BY <1>3 DEF ReturnDestroys, ReturnRunToDone
    <2>3. Victim \in built
      BY <1>1, <2>1, <2>2, VictimIs
    <2>4. /\ cleanup' = SubSeq(cleanup, 1, Len(cleanup) - 1)
          /\ built' = built \ {Victim}
          /\ ctl' = Append(ctl, Scope("dtor", Victim))
          /\ exc' = exc /\ status' = status
      BY <1>3, <2>3 DEF ReturnDestroys
    <2>5. /\ Safe' /\ Victim \in ctl[Innermost].own
          /\ \A o \in built \ built' : o = Victim
      BY <1>1, <2>1, <2>2, <2>4, DestroysSafe
    <2>6. QED
      BY <1>1, <1>3, <2>4, <2>5 DEF Good, ByItsTry, NeverUndefined
  <1>4. CASE ReturnPops
    <2>1. PICK t \in ArmedTrys :
             /\ t = Innermost /\ exc = t /\ \A j \in ArmedTrys : j <= t
             /\ \A k \in (t + 1)..Len(ctl) : ctl[k].kind \notin Callable
      BY <1>1, <1>4, InnermostIsLast DEF ReturnPops
    <2>2. /\ t \in DOMAIN ctl /\ ctl[t].kind = "try" /\ ctl[t] \in ReturningScopes
      BY <1>1, <2>1, StackTyped DEF ArmedTrys, Armed
    <2> DEFINE sc == [ctl[t] EXCEPT !.phase = "handler"]
    <2>3. ctl' = [ctl EXCEPT ![t] = sc]
      BY <1>4, <2>1, <2>2 DEF ReturnPops
    <2>4. /\ sc \in ReturningScopes /\ sc.kind = "try" /\ sc.phase = "handler"
          /\ sc.own = ctl[t].own
      BY <2>2 DEF ReturningScopes, Phases
    <2> HIDE DEF sc
    <2>5. Changed(t, sc)
      BY <1>1, <2>2, <2>3, <2>4, ExceptChanges
    <2>6. /\ exc' = ctl[t].prev /\ UNCHANGED <<cleanup, built, status>>
          /\ cleanup = <<>> \/ Len(cleanup) = ctl[t].mark
      BY <1>4, <2>1 DEF ReturnPops, ReturnRunToDone
    <2>7. Safe'
      BY <1>1, <2>1, <2>4, <2>5, <2>6, DisarmSafe
    <2>8. QED
      BY <1>1, <2>6, <2>7, TakesNothing
  <1>5. CASE CallInReturn
    <2>1. /\ Scope("fn", NoObj) \in ReturningScopes
          /\ Scope("fn", NoObj).kind = "fn" /\ Scope("fn", NoObj).own = {}
      BY ScopeTyped DEF Kinds, Callable
    <2>2. /\ ctl' = Append(ctl, Scope("fn", NoObj))
          /\ UNCHANGED <<exc, cleanup, built, status>>
      BY <1>5 DEF CallInReturn, Call
    <2>3. Opened(Scope("fn", NoObj))
      BY <1>1, <2>1, <2>2, AppendOpens
    <2>4. Len(cleanup) \in Nat /\ Entries(Len(cleanup))
      BY <1>1, <2>2, Untouched
    <2>5. Safe'
      BY <1>1, <2>1, <2>2, <2>3, <2>4, OpensSafe
    <2>6. QED
      BY <1>1, <2>2, <2>5, TakesNothing
  <1>6. CASE EndReturn
    <2>1. status' # "undefined"
      BY <1>6 DEF EndReturn
    <2>2. Safe' /\ built \subseteq built'
      BY <1>1, <1>6, EndReturnSafe
    <2>3. QED
      BY <2>1, <2>2, TakesNothing
  <1>7. CASE RegisterFails
    BY <1>1, <1>7, StopsSafe DEF RegisterFails
  <1>8. QED
    BY <1>2, <1>3, <1>4, <1>5, <1>6, <1>7 DEF Leave

\* Throws: exc is 0 or an armed Try, so none dangles.
LEMMA ThrowsSafe ==
    ASSUME IInv, TInv', Throws
    PROVE  Good
  <1>1. Typed /\ Typed' /\ Safe /\ Agree /\ status # "undefined"
    BY DEF IInv, TInv, Safe, NeverUndefined
  <1>2. CASE ThrowUnhandled
    BY <1>1, <1>2, StopsSafe DEF ThrowUnhandled
  <1>3. CASE ThrowCaught
    <2>1. Safe' /\ built' = built
      BY <1>1, <1>3, ThrowCaughtSafe
    <2>2. QED
      BY <1>1, <1>3, <2>1, TakesNothing DEF ThrowCaught
  <1>4. CASE ThrowDangling
    <2>1. exc \in ArmedTrys
      BY <1>1, <1>4 DEF ThrowDangling, Agree, FramesAgree, Last
    <2>2. FrameInScope
      BY <2>1 DEF ArmedTrys, Armed, FrameInScope
    <2>3. QED
      BY <1>4, <2>2 DEF ThrowDangling
  <1>5. QED
    BY <1>2, <1>3, <1>4 DEF Throws

\* RunTo at the end of a Try or after the longjmp, and what follows it.
LEMMA UnwindSafe ==
    ASSUME IInv, TInv', Unwind
    PROVE  Good
  <1>1. Typed /\ Typed' /\ Safe /\ Agree /\ status # "undefined"
    BY DEF IInv, TInv, Safe, NeverUndefined
  <1>2. RunningTo
    BY DEF Unwind, RunToStep, RunToDangling, LeaveTry, EnterHandler
  <1>3. PICK t \in ArmedTrys :
           /\ t = Len(ctl) /\ exc = t /\ Top = ctl[t]
           /\ \A j \in ArmedTrys : j <= t
    BY <1>1, <1>2, RunningIsLast
  <1>4. /\ t \in DOMAIN ctl /\ t \in 1..Len(ctl) /\ t - 1 \in 0..Len(ctl)
        /\ ctl[t].kind = "try" /\ ctl[t] \in ReturningScopes
        /\ \A k \in (t + 1)..Len(ctl) : ctl[k].kind \notin Callable
    BY <1>1, <1>2, <1>3, StackTyped DEF ArmedTrys, Armed
  <1>5. ~RunToDone => ~(cleanup = <<>> \/ Len(cleanup) = ctl[t].mark)
    BY <1>3 DEF RunToDone
  <1>6. RunToDone => cleanup = <<>> \/ Len(cleanup) = ctl[t].mark
    BY <1>3 DEF RunToDone
  <1>7. CASE RunToStep
    <2>1. /\ cleanup' = SubSeq(cleanup, 1, Len(cleanup) - 1)
          /\ built' = built \ {Victim}
          /\ ctl' = Append(ctl, Scope("dtor", Victim))
          /\ exc' = exc /\ status' = status /\ ~RunToDone
      BY <1>7 DEF RunToStep
    <2>2. Safe' /\ Victim \in ctl[t].own /\ \A o \in built \ built' : o = Victim
      BY <1>1, <1>3, <1>5, <2>1, DestroysSafe
    <2>3. QED
      BY <1>1, <1>3, <1>7, <2>1, <2>2 DEF Good, ByItsTry, NeverUndefined
  <1>8. CASE RunToDangling
    <2>1. Victim \in built
      BY <1>1, <1>3, <1>5, <1>8, VictimIs DEF RunToDangling
    <2>2. QED
      BY <1>8, <2>1 DEF RunToDangling
  <1>9. CASE LeaveTry
    <2>1. /\ ctl' = Keep(t - 1) /\ exc' = ctl[t].prev
          /\ DropStorage /\ UNCHANGED <<cleanup, status>> /\ RunToDone
      BY <1>3, <1>9 DEF LeaveTry, PopFrame
    <2>2. CutTo(t - 1)
      BY <1>1, <1>4, <2>1, KeepCuts
    <2>3. Safe' /\ built' = built
      BY <1>1, <1>3, <1>4, <1>6, <2>1, <2>2, DisarmSafe
    <2>4. QED
      BY <1>1, <2>1, <2>3, TakesNothing
  <1>10. CASE EnterHandler
    <2> DEFINE sc == [ctl[t] EXCEPT !.phase = "handler", !.own = {}]
    <2>1. /\ exc' = ctl[t].prev
          /\ DropStorage /\ UNCHANGED <<cleanup, status>> /\ RunToDone
      BY <1>3, <1>10 DEF EnterHandler, PopFrame
    <2>2. ctl' = [ctl EXCEPT ![t] = sc]
      BY <1>3, <1>4, <1>10 DEF EnterHandler
    <2>3. /\ sc \in ReturningScopes /\ sc.kind = "try" /\ sc.phase = "handler"
          /\ sc.own = {}
      BY <1>4 DEF ReturningScopes, Phases
    <2> HIDE DEF sc
    <2>4. Changed(t, sc)
      BY <1>1, <1>4, <2>2, <2>3, ExceptChanges
    <2>5. Safe' /\ built' = built
      BY <1>1, <1>3, <1>4, <1>6, <2>1, <2>3, <2>4, DisarmSafe
    <2>6. QED
      BY <1>1, <2>1, <2>5, TakesNothing
  <1>11. QED
    BY <1>7, <1>8, <1>9, <1>10 DEF Unwind

LEMMA StepSafe ==
    ASSUME ~EarlyExit, ~LocalsAnywhere, IInv, [ReturningNext]_vars
    PROVE  IInv' /\ ByItsTry
  <1>1. TInv'
    BY StepTyped DEF IInv
  <1>2. CASE UNCHANGED vars
    <2>1. Safe /\ status # "undefined" /\ UNCHANGED <<ctl, exc, cleanup, built, status>>
      BY <1>2 DEF vars, IInv, NeverUndefined
    <2>2. Good
      BY <2>1, StopsSafe
    <2>3. QED
      BY <1>1, <2>2 DEF IInv, Good
  <1>3. CASE ReturningNext
    <2>1. ASSUME NEW o \in Objects, Declare(o) PROVE Good
      <3>1. Typed /\ Typed' /\ Safe /\ status # "undefined"
        BY <1>1 DEF IInv, TInv, NeverUndefined
      <3>2. Safe'
        BY <2>1, <3>1, DeclareSafe
      <3>3. built' = built /\ status' = status
        BY <2>1 DEF Declare
      <3>4. QED
        BY <3>1, <3>2, <3>3, TakesNothing
    <2>2. Good
      BY <1>1, <1>3, <2>1, BodySafe, LeaveSafe, ThrowsSafe, UnwindSafe DEF ReturningNext
    <2>3. QED
      BY <1>1, <2>2 DEF IInv, Good
  <1>4. QED
    BY <1>2, <1>3

\* In every program that leaves no Try by Break or Continue and declares no
\* class object in a block of a Try body, the exception stack is at every
\* point, in the middle of a Return and of an unwinding as well, the list of
\* the Trys that still run, and the cleanup stack that of the objects that are
\* registered, each in the reach of the Try that declared it.
THEOREM ListsAlwaysAgree ==
    ASSUME ~EarlyExit, ~LocalsAnywhere
    PROVE  ReturningSpec => []ListsAgree
  <1>1. IInv /\ [ReturningNext]_vars => IInv'
    BY StepSafe
  <1>2. IInv => ListsAgree
    BY FramesAre, EntriesAre DEF IInv, TInv, Safe, Agree, ListsAgree
  <1>3. QED
    BY <1>1, <1>2, InitSafe, PTL DEF ReturningSpec

\* No Return and no Throw of such a program longjmps to a Try that was left
\* or destroys an object that is gone.
THEOREM ReturnsNeverUndefined ==
    ASSUME ~EarlyExit, ~LocalsAnywhere
    PROVE  ReturningSpec => []NeverUndefined
  <1>1. IInv /\ [ReturningNext]_vars => IInv'
    BY StepSafe
  <1>2. IInv => NeverUndefined
    BY DEF IInv
  <1>3. QED
    BY <1>1, <1>2, InitSafe, PTL DEF ReturningSpec

\* In such a program a registered object goes away only when the Try that
\* declared it calls its destructor: ending, unwinding, or left by a Return.
THEOREM AlwaysDestroyedByItsTry ==
    ASSUME ~EarlyExit, ~LocalsAnywhere
    PROVE  ReturningSpec => DestroyedByItsTry
  <1>1. IInv /\ [ReturningNext]_vars => IInv'
    BY StepSafe
  <1>2. IInv /\ [ReturningNext]_vars =>
           [\A o \in built \ built' :
              /\ o = Victim
              /\ \/ RunToStep /\ o \in Top.own
                 \/ ReturnDestroys /\ o \in ctl[Innermost].own]_vars
    BY StepSafe DEF ByItsTry
  <1>3. QED
    BY <1>1, <1>2, InitSafe, PTL DEF ReturningSpec, DestroyedByItsTry
=============================================================================
