--------------------------- MODULE ExceptionsProofs --------------------------
(***************************************************************************)
(* Proofs about Exceptions, for any number of stack slots and scopes, and  *)
(* that it implements ScopedTry.                                           *)
(***************************************************************************)
EXTENDS ExceptionsRefinement, SequenceTheorems, WellFoundedInduction, TLAPS

USE ConstantsAssumption

\* What is left of a stack that is cut back is a stack of scopes, unchanged.
LEMMA CutStack ==
    ASSUME NEW S, NEW s \in Seq(S), NEW n \in 0..Len(s)
    PROVE  /\ SubSeq(s, 1, n) \in Seq(S)
           /\ Len(SubSeq(s, 1, n)) = n
           /\ DOMAIN SubSeq(s, 1, n) = 1..n
           /\ \A i \in 1..n : SubSeq(s, 1, n)[i] = s[i]
  <1>1. CASE n = 0
    BY <1>1, SubSeqEmpty
  <1>2. CASE n # 0
    BY <1>2, SubSeqProperties
  <1>3. QED
    BY <1>1, <1>2

\* A scope that is opened has the type of a scope.
LEMMA ScopeHasType ==
    ASSUME NEW kind \in Kinds, NEW obj \in Objects \union {NoObj}
    PROVE  Scope(kind, obj) \in ScopeType
  BY DEF Scope, ScopeType, Phases

\* Cutting the stack back above main keeps the type of the stack.
LEMMA CutKeepsType ==
    ASSUME TypeOK, status # "done", NEW n \in 1..Len(ctl), ctl' = Keep(n)
    PROVE  /\ ctl' \in Seq(ScopeType)
           /\ ctl' # <<>> /\ ctl'[1].kind = "fn"
           /\ \A i \in DOMAIN ctl' : ctl'[i].kind = "ctor" => ctl'[i].obj \in Objects
  <1>1. n \in 0..Len(ctl) /\ ctl \in Seq(ScopeType)
    BY DEF TypeOK
  <1>2. /\ ctl' \in Seq(ScopeType)
        /\ Len(ctl') = n
        /\ DOMAIN ctl' = 1..n
        /\ \A i \in 1..n : ctl'[i] = ctl[i]
    BY <1>1, CutStack DEF Keep
  <1>3. QED
    BY <1>1, <1>2 DEF TypeOK

\* So does changing the scope on top, when it is a Try.
LEMMA TopKeepsType ==
    ASSUME TypeOK, status # "done", NEW top \in ScopeType, top.kind = "try",
           Top.kind = "try", ctl' = [ctl EXCEPT ![Len(ctl)] = top]
    PROVE  /\ ctl' \in Seq(ScopeType)
           /\ ctl' # <<>> /\ ctl'[1].kind = "fn"
           /\ \A i \in DOMAIN ctl' : ctl'[i].kind = "ctor" => ctl'[i].obj \in Objects
  <1>1. Len(ctl) \in 1..Len(ctl) /\ ctl \in Seq(ScopeType) /\ ctl[1].kind = "fn"
    BY DEF TypeOK
  <1>2. /\ ctl' \in Seq(ScopeType)
        /\ Len(ctl') = Len(ctl)
        /\ ctl'[Len(ctl)] = top
        /\ \A i \in 1..Len(ctl) : i # Len(ctl) => ctl'[i] = ctl[i]
    BY <1>1, ExceptSeq
  <1>3. ctl' # <<>> /\ ctl'[1].kind = "fn"
    <2>1. ctl[Len(ctl)].kind = "try"
      BY DEF Top
    <2>2. Len(ctl) # 1
      BY <1>1, <2>1
    <2>3. 1 \in 1..Len(ctl) /\ 1 # Len(ctl)
      BY <1>1, <2>2
    <2>4. ctl'[1] = ctl[1]
      BY <1>2, <2>3
    <2>5. ctl'[1].kind = "fn"
      BY <1>1, <2>4, Zenon
    <2>6. Len(ctl) # 0
      BY DEF TypeOK
    <2>7. Len(ctl') # 0
      BY <1>2, <2>6, ZenonT(60)
    <2>8. QED
      BY <2>5, <2>7, EmptySeq, Zenon
  <1>4. ASSUME NEW i \in DOMAIN ctl', ctl'[i].kind = "ctor"
        PROVE  ctl'[i].obj \in Objects
    <2>1. i \in DOMAIN ctl /\ i # Len(ctl)
      BY <1>1, <1>2, <1>4
    <2>2. QED
      BY <1>2, <1>4, <2>1, ZenonT(60) DEF TypeOK
  <1>5. QED
    BY <1>1, <1>2, <1>3, <1>4

\* Every variable keeps its type in every program, disciplined or not.
THEOREM TypeCorrect == Spec => []TypeOK
  <1>1. Init => TypeOK
    BY ScopeHasType DEF Init, TypeOK, Statuses, Kinds, Callable, Scope
  <1>2. TypeOK /\ [Next]_vars => TypeOK'
    <2> SUFFICES ASSUME TypeOK, [Next]_vars PROVE TypeOK'
      OBVIOUS
    <2>1. CASE Call
      <3>1. Scope("fn", NoObj) \in ScopeType /\ Scope("fn", NoObj).kind = "fn"
        BY ScopeHasType DEF Scope, Kinds, Callable
      <3>2. QED
        BY <2>1, <3>1 DEF Call, Spend, Executing, TypeOK
    <2>2. CASE OpenBlock
      <3>1. Scope("block", NoObj) \in ScopeType /\ Scope("block", NoObj).kind = "block"
        BY ScopeHasType DEF Scope, Kinds, Callable
      <3>2. QED
        BY <2>2, <3>1 DEF OpenBlock, Spend, Executing, TypeOK
    <2>3. CASE EnterTry
      <3>1. TryScope \in ScopeType /\ TryScope.kind = "try"
        BY DEF TypeOK, TryScope, ScopeType, Kinds, Phases, Callable
      <3>2. QED
        BY <2>3, <3>1 DEF EnterTry, Spend, Executing, TypeOK
    <2>4. ASSUME NEW o \in Objects, Construct(o) PROVE TypeOK'
      <3> DEFINE mid == [ctl EXCEPT ![Len(ctl)].own = @ \union {o}]
      <3>1. Len(ctl) \in DOMAIN ctl /\ ctl[Len(ctl)] \in ScopeType
        BY <2>4 DEF Construct, Executing, TypeOK
      <3>2. /\ mid \in Seq(ScopeType)
            /\ Len(mid) = Len(ctl)
            /\ \A i \in DOMAIN ctl : mid[i].kind = ctl[i].kind /\ mid[i].obj = ctl[i].obj
        <4>1. [ctl[Len(ctl)] EXCEPT !.own = @ \union {o}] \in ScopeType
          BY <3>1 DEF ScopeType
        <4>2. mid = [ctl EXCEPT ![Len(ctl)] = [ctl[Len(ctl)] EXCEPT !.own = @ \union {o}]]
          BY <3>1
        <4>3. mid \in Seq(ScopeType) /\ Len(mid) = Len(ctl)
          BY <3>1, <4>1, <4>2, ExceptSeq DEF TypeOK
        <4>4. QED
          BY <3>1, <4>3 DEF ScopeType, TypeOK
      <3>3. /\ Scope("ctor", o) \in ScopeType
            /\ Scope("ctor", o).kind = "ctor" /\ Scope("ctor", o).obj = o
        BY ScopeHasType DEF Scope, Kinds, Callable
      <3>4. ctl' = Append(mid, Scope("ctor", o)) /\ status = "running"
        BY <2>4 DEF Construct, Executing
      <3> DEFINE callee == Scope("ctor", o)
      <3> HIDE DEF mid, callee
      <3>5. /\ ctl' \in Seq(ScopeType)
            /\ Len(ctl') = Len(ctl) + 1
            /\ \A i \in 1..Len(ctl) : ctl'[i] = mid[i]
            /\ ctl'[Len(ctl) + 1] = callee
        BY <3>2, <3>3, <3>4 DEF callee, TypeOK
      <3>6. /\ ctl' # <<>> /\ ctl'[1].kind = "fn"
            /\ \A i \in DOMAIN ctl' : ctl'[i].kind = "ctor" => ctl'[i].obj \in Objects
        BY <3>1, <3>2, <3>3, <3>4, <3>5, SMTT(30) DEF callee, TypeOK
      <3>7. QED
        BY <2>4, <3>4, <3>5, <3>6 DEF Construct, Spend, TypeOK
    <2>5. CASE LeaveBlock
      <3>1. PICK b \in DOMAIN ctl : ctl[b].kind = "block" /\ ctl' = Keep(b - 1)
        BY <2>5 DEF LeaveBlock
      <3>2. status = "running" /\ b - 1 \in 1..Len(ctl)
        BY <2>5, <3>1 DEF LeaveBlock, Executing, TypeOK
      <3>3. QED
        BY <2>5, <3>1, <3>2, CutKeepsType DEF LeaveBlock, DropStorage, TypeOK
    <2>6. CASE Return
      <3>1. PICK f \in DOMAIN ctl :
               ctl' = Keep(f - 1) /\ status' = IF f = 1 THEN "done" ELSE "running"
        BY <2>6 DEF Return
      <3>2. status = "running" /\ UNCHANGED <<exc, cleanup, fuel>> /\ built' \subseteq built
        BY <2>6 DEF Return, Executing, DropStorage
      <3>3. CASE f = 1
        <4>1. ctl' = <<>> /\ ctl' \in Seq(ScopeType)
          BY <3>1, <3>3, SubSeqEmpty DEF Keep, TypeOK
        <4>2. QED
          BY <3>1, <3>2, <3>3, <4>1 DEF TypeOK, Statuses
      <3>4. CASE f # 1
        <4>1. f - 1 \in 1..Len(ctl)
          BY <3>4 DEF TypeOK
        <4>2. QED
          BY <3>1, <3>2, <3>4, <4>1, CutKeepsType DEF TypeOK, Statuses
      <3>5. QED
        BY <3>3, <3>4
    <2>7. CASE ReturnCtor
      <3>1. PICK f \in DOMAIN ctl :
               /\ ctl[f].kind = "ctor"
               /\ ctl' = Keep(f - 1)
               /\ cleanup' = Append(cleanup, ctl[f].obj)
               /\ built' = (built \intersect Owned(ctl')) \union {ctl[f].obj}
        BY <2>7 DEF ReturnCtor
      <3>2. status = "running" /\ f - 1 \in 1..Len(ctl)
        BY <2>7, <3>1 DEF ReturnCtor, Executing, TypeOK
      <3>3. ctl[f].obj \in Objects
        BY <3>1 DEF TypeOK
      <3>4. QED
        BY <2>7, <3>1, <3>2, <3>3, CutKeepsType DEF ReturnCtor, TypeOK
    <2>8. CASE PushFails
      BY <2>8 DEF PushFails, Executing, TypeOK, Statuses
    <2>9. CASE ReturnDtor
      <3>1. PICK f \in DOMAIN ctl : ctl[f].kind = "dtor" /\ ctl' = Keep(f - 1)
        BY <2>9 DEF ReturnDtor
      <3>2. status = "running" /\ f - 1 \in 1..Len(ctl)
        BY <2>9, <3>1 DEF ReturnDtor, Executing, TypeOK
      <3>3. QED
        BY <2>9, <3>1, <3>2, CutKeepsType DEF ReturnDtor, DropStorage, TypeOK
    <2>10. CASE EndBody
      <3> DEFINE top == [Top EXCEPT !.phase = "ending"]
      <3>1. /\ status = "running" /\ Len(ctl) \in 1..Len(ctl)
            /\ Top \in ScopeType /\ Top.kind = "try"
        BY <2>10 DEF EndBody, Executing, Top, TypeOK
      <3>2. top \in ScopeType /\ top.kind = "try"
        BY <3>1 DEF ScopeType, Phases
      <3>3. ctl' = [ctl EXCEPT ![Len(ctl)] = top]
        BY <2>10, <3>1 DEF EndBody, Top, TypeOK
      <3> HIDE DEF top
      <3>4. QED
        BY <2>10, <3>1, <3>2, <3>3, TopKeepsType DEF EndBody, TypeOK
    <2>11. CASE EndHandler
      <3>1. status = "running" /\ Len(ctl) - 1 \in 1..Len(ctl)
        BY <2>11 DEF EndHandler, Executing, Top, TypeOK
      <3>2. QED
        BY <2>11, <3>1, CutKeepsType DEF EndHandler, DropStorage, TypeOK
    <2>12. CASE ThrowUnhandled
      BY <2>12 DEF ThrowUnhandled, Executing, TypeOK, Statuses
    <2>13. CASE ThrowCaught
      <3> DEFINE own == UNION {ctl[j].own : j \in SameActivation(exc)}
                 low == Keep(exc)
                 top == [low[exc] EXCEPT !.phase = "unwinding", !.own = own]
      <3>1. /\ status = "running" /\ exc \in 1..Len(ctl) /\ exc \in 0..Len(ctl)
            /\ ctl[exc].kind = "try"
        BY <2>13 DEF ThrowCaught, FrameInScope, Executing, TypeOK
      <3>2. /\ low \in Seq(ScopeType) /\ Len(low) = exc /\ DOMAIN low = 1..exc
            /\ \A i \in 1..exc : low[i] = ctl[i]
        BY <3>1, CutStack DEF Keep, TypeOK
      <3>3. own \subseteq Objects
        <4>1. ASSUME NEW j \in SameActivation(exc) PROVE ctl[j].own \subseteq Objects
          <5>1. j \in DOMAIN ctl
            BY <3>1 DEF SameActivation, TypeOK
          <5>2. ctl[j] \in ScopeType
            BY <5>1 DEF TypeOK
          <5>3. QED
            BY <5>2 DEF ScopeType
        <4>2. QED
          BY <4>1
      <3>4. ctl' = [low EXCEPT ![exc] = top]
        BY <2>13, <3>1, <3>2 DEF ThrowCaught
      <3>5. top \in ScopeType /\ top.kind = "try"
        <4>1. low[exc] \in ScopeType /\ low[exc].kind = "try"
          BY <3>1, <3>2 DEF TypeOK
        <4> HIDE DEF own, low
        <4>2. QED
          BY <3>3, <4>1 DEF ScopeType, Phases
      <3> HIDE DEF own, low, top
      <3>6. /\ ctl' \in Seq(ScopeType)
            /\ Len(ctl') = exc
            /\ ctl'[exc] = top
            /\ \A i \in 1..exc : i # exc => ctl'[i] = ctl[i]
        BY <3>1, <3>2, <3>4, <3>5, ExceptSeq
      <3>7. /\ ctl' # <<>> /\ ctl'[1].kind = "fn"
            /\ \A i \in DOMAIN ctl' : ctl'[i].kind = "ctor" => ctl'[i].obj \in Objects
        BY <3>1, <3>5, <3>6 DEF TypeOK
      <3>8. QED
        BY <2>13, <3>6, <3>7 DEF ThrowCaught, DropStorage, TypeOK
    <2>14. CASE ThrowDangling
      BY <2>14 DEF ThrowDangling, Executing, TypeOK, Statuses
    <2>15. CASE RunToStep
      <3>1. /\ status = "running" /\ cleanup # <<>> /\ Len(cleanup) \in DOMAIN cleanup
            /\ Len(cleanup) - 1 \in 0..Len(cleanup)
        BY <2>15 DEF RunToStep, RunningTo, RunToDone, TypeOK
      <3>2. Victim \in Objects
        BY <3>1 DEF Victim, TypeOK
      <3>3. /\ Scope("dtor", Victim) \in ScopeType
            /\ Scope("dtor", Victim).kind = "dtor"
        BY <3>2, ScopeHasType DEF Scope, Kinds, Callable
      <3>4. cleanup' \in Seq(Objects)
        BY <2>15, <3>1, CutStack DEF RunToStep, TypeOK
      <3>5. QED
        BY <2>15, <3>1, <3>3, <3>4 DEF RunToStep, TypeOK
    <2>16. CASE RunToDangling
      BY <2>16 DEF RunToDangling, RunningTo, TypeOK, Statuses
    <2>17. CASE LeaveTry
      <3>1. /\ status = "running" /\ Len(ctl) - 1 \in 1..Len(ctl)
            /\ Top \in ScopeType
        BY <2>17 DEF LeaveTry, RunningTo, Top, TypeOK
      <3>2. exc' \in Nat
        BY <2>17, <3>1 DEF LeaveTry, PopFrame, TypeOK, ScopeType
      <3>3. QED
        BY <2>17, <3>1, <3>2, CutKeepsType DEF LeaveTry, DropStorage, TypeOK
    <2>18. CASE EnterHandler
      <3> DEFINE top == [Top EXCEPT !.phase = "handler", !.own = {}]
      <3>1. /\ status = "running" /\ Len(ctl) \in 1..Len(ctl)
            /\ Top \in ScopeType /\ Top.kind = "try"
        BY <2>18 DEF EnterHandler, RunningTo, Top, TypeOK
      <3>2. top \in ScopeType /\ top.kind = "try"
        BY <3>1 DEF ScopeType, Phases
      <3>3. ctl' = [ctl EXCEPT ![Len(ctl)] = top]
        BY <2>18, <3>1 DEF EnterHandler, Top, TypeOK
      <3> HIDE DEF top
      <3>4. exc' \in Nat
        BY <2>18, <3>1 DEF EnterHandler, PopFrame, TypeOK, ScopeType
      <3>5. QED
        BY <2>18, <3>1, <3>2, <3>3, <3>4, TopKeepsType
           DEF EnterHandler, DropStorage, TypeOK
    <2>20. CASE UNCHANGED vars
      BY <2>20 DEF vars, TypeOK
    <2>21. QED
      BY <2>1, <2>2, <2>3, <2>4, <2>5, <2>6, <2>7, <2>8, <2>9, <2>10, <2>11,
         <2>12, <2>13, <2>14, <2>15, <2>16, <2>17, <2>18, <2>20 DEF Next
  <1>3. QED
    BY <1>1, <1>2, PTL DEF Spec

-----------------------------------------------------------------------------
(* The disciplined program.                                                *)

\* Scope i is what it was, up to a phase that leaves it armed or not armed.
Stays(i) ==
    /\ ctl'[i].kind = ctl[i].kind
    /\ ctl'[i].mark = ctl[i].mark
    /\ ctl'[i].prev = ctl[i].prev
    /\ ctl'[i].own = ctl[i].own
    /\ ctl'[i].obj = ctl[i].obj
    /\ Armed(i)' <=> Armed(i)

\* The C stack was cut back to its first n scopes, and no armed Try was on
\* the part that is gone.
CutAt(n) ==
    /\ Len(ctl') = n
    /\ DOMAIN ctl' = 1..n
    /\ \A i \in 1..n : Stays(i)
    /\ \A j \in (n + 1)..Len(ctl) : ~Armed(j)

\* Every scope on the stack has the type of a scope.
LEMMA ScopesTyped ==
    ASSUME TypeOK
    PROVE  /\ Len(ctl) \in Nat /\ DOMAIN ctl = 1..Len(ctl)
           /\ \A i \in DOMAIN ctl :
                 /\ ctl[i].mark \in Nat
                 /\ ctl[i].prev \in Nat
                 /\ ctl[i].own \subseteq Objects
  <1>1. Len(ctl) \in Nat /\ DOMAIN ctl = 1..Len(ctl)
    BY DEF TypeOK
  <1>2. \A i \in DOMAIN ctl : ctl[i] \in ScopeType
    BY DEF TypeOK
  <1>3. QED
    BY <1>1, <1>2 DEF ScopeType

\* The exception stack still fits the C stack after a cut.
LEMMA CutFrames ==
    ASSUME TypeOK, NEW n \in 0..Len(ctl), CutAt(n), exc' = exc, FramesMatchTries
    PROVE  FramesMatchTries'
  <1>1. Len(ctl) \in Nat /\ DOMAIN ctl = 1..Len(ctl)
    BY DEF TypeOK
  <1>2. \A i \in 1..n : Armed(i)' <=> Armed(i)
    BY DEF CutAt, Stays
  <1>3. InnermostFrame(exc, n)
    BY <1>1 DEF CutAt, InnermostFrame, FramesMatchTries
  <1>4. InnermostFrame(exc, Len(ctl))'
    BY <1>1, <1>2, <1>3 DEF CutAt, InnermostFrame
  <1>5. ASSUME NEW i \in 1..n, Armed(i)' PROVE InnermostFrame(ctl[i].prev, i - 1)'
    <2>1. InnermostFrame(ctl[i].prev, i - 1)
      BY <1>1, <1>2, <1>5 DEF FramesMatchTries
    <2>2. ctl'[i].prev = ctl[i].prev
      BY DEF CutAt, Stays
    <2>3. \A j \in 1..(i - 1) : Armed(j)' <=> Armed(j)
      BY <1>1, <1>2
    <2>4. QED
      BY <1>1, <2>1, <2>2, <2>3 DEF InnermostFrame
  <1>6. QED
    BY <1>4, <1>5 DEF FramesMatchTries, CutAt

\* Objects still have a slot of their own after a cut.
LEMMA CutSlots ==
    ASSUME TypeOK, NEW n \in 0..Len(ctl), CutAt(n), SlotsSeparate
    PROVE  SlotsSeparate'
  <1>1. Len(ctl) \in Nat /\ DOMAIN ctl = 1..Len(ctl)
    BY DEF TypeOK
  <1>2. 1..n \subseteq DOMAIN ctl
    BY <1>1
  <1>3. QED
    BY <1>2 DEF CutAt, Stays, SlotsSeparate

\* Constructors still run on an object below them after a cut.
LEMMA CutCtors ==
    ASSUME TypeOK, NEW n \in 0..Len(ctl), CutAt(n), CtorsInTry,
           built' \subseteq built
    PROVE  CtorsInTry'
  <1>1. Len(ctl) \in Nat /\ DOMAIN ctl = 1..Len(ctl)
    BY DEF TypeOK
  <1>2. ASSUME NEW f \in 1..n, ctl'[f].kind = "ctor"
        PROVE  /\ f > 1
               /\ Armed(f - 1)'
               /\ ctl'[f].obj \in ctl'[f - 1].own
               /\ ctl'[f].obj \notin built'
    <2>1. /\ f > 1 /\ Armed(f - 1) /\ ctl[f].obj \in ctl[f - 1].own
          /\ ctl[f].obj \notin built
      BY <1>1, <1>2 DEF CutAt, Stays, CtorsInTry
    <2>2. f - 1 \in 1..n
      BY <1>1, <2>1
    <2>3. Stays(f) /\ Stays(f - 1)
      BY <2>2 DEF CutAt
    <2>4. QED
      BY <2>1, <2>3 DEF Stays
  <1>3. QED
    BY <1>2 DEF CutAt, CtorsInTry

\* Marks are still nested after a cut that takes nothing off the cleanup stack.
LEMMA CutMarks ==
    ASSUME TypeOK, NEW n \in 0..Len(ctl), CutAt(n), MarksNested,
           Len(cleanup') \in Nat, Len(cleanup) <= Len(cleanup')
    PROVE  MarksNested'
  <1>1. Len(ctl) \in Nat /\ DOMAIN ctl = 1..Len(ctl) /\ Len(cleanup) \in Nat
    BY DEF TypeOK
  <1>2. \A i \in 1..n : (Armed(i)' <=> Armed(i)) /\ ctl'[i].mark = ctl[i].mark
    BY DEF CutAt, Stays
  <1>3. ASSUME NEW i \in 1..n, Armed(i)'
        PROVE  /\ ctl'[i].mark <= Len(cleanup')
               /\ \A j \in 1..(i - 1) : Armed(j)' => ctl'[j].mark <= ctl'[i].mark
    <2>1. /\ ctl[i].mark <= Len(cleanup)
          /\ \A j \in 1..(i - 1) : Armed(j) => ctl[j].mark <= ctl[i].mark
      BY <1>1, <1>2, <1>3 DEF MarksNested
    <2>2. ctl[i].mark \in Nat
      BY <1>1, ScopesTyped
    <2>3. \A j \in 1..(i - 1) : j \in 1..n
      BY <1>1
    <2>4. QED
      BY <1>1, <1>2, <2>1, <2>2, <2>3
  <1>4. QED
    BY <1>3 DEF CutAt, MarksNested

\* No registered object loses its storage in a cut.
LEMMA CutKeepsBuilt ==
    ASSUME TypeOK, NEW n \in 0..Len(ctl), CutAt(n), CleanupMatchesBuilt
    PROVE  built \intersect Owned(ctl') = built
  <1>1. Len(ctl) \in Nat /\ DOMAIN ctl = 1..Len(ctl)
    BY DEF TypeOK
  <1>2. ASSUME NEW o \in built PROVE o \in Owned(ctl')
    <2>1. PICK h \in DOMAIN cleanup : cleanup[h] = o
      BY DEF CleanupMatchesBuilt
    <2>2. PICK i \in DOMAIN ctl : Armed(i) /\ o \in ctl[i].own
      BY <2>1 DEF CleanupMatchesBuilt, Guards
    <2>3. i \in 1..n
      BY <1>1, <2>2 DEF CutAt
    <2>4. QED
      BY <2>2, <2>3 DEF CutAt, Stays, Owned
  <1>3. QED
    BY <1>2

\* The cleanup stack still names what is there after a cut.
LEMMA CutCleanup ==
    ASSUME TypeOK, NEW n \in 0..Len(ctl), CutAt(n), CleanupMatchesBuilt,
           cleanup' = cleanup, built' = built
    PROVE  CleanupMatchesBuilt'
  <1>1. Len(ctl) \in Nat /\ DOMAIN ctl = 1..Len(ctl)
    BY DEF TypeOK
  <1>2. ASSUME NEW h \in DOMAIN cleanup
        PROVE  \E i \in DOMAIN ctl' : Guards(i, h)'
    <2>1. PICK i \in DOMAIN ctl : Guards(i, h)
      BY DEF CleanupMatchesBuilt
    <2>2. i \in 1..n /\ \A j \in (i + 1)..n : j \in 1..n /\ j \in (i + 1)..Len(ctl)
      BY <1>1, <2>1 DEF CutAt, Guards
    <2>3. QED
      BY <2>1, <2>2 DEF CutAt, Stays, Guards
  <1>3. QED
    BY <1>2 DEF CleanupMatchesBuilt

\* All stacks still agree when scopes without an armed Try are left.
LEMMA CutAgrees ==
    ASSUME TypeOK, StacksAgree, NEW n \in 0..Len(ctl), CutAt(n),
           exc' = exc, cleanup' = cleanup, DropStorage
    PROVE  StacksAgree' /\ built' = built
  <1>1. built' = built
    BY CutKeepsBuilt DEF StacksAgree, DropStorage
  <1>2. Len(cleanup) \in Nat
    BY DEF TypeOK
  <1>3. FramesMatchTries' /\ SlotsSeparate'
    BY CutFrames, CutSlots DEF StacksAgree
  <1>4. CtorsInTry' /\ CleanupMatchesBuilt'
    BY <1>1, CutCtors, CutCleanup DEF StacksAgree
  <1>5. MarksNested'
    BY <1>2, CutMarks DEF StacksAgree
  <1>6. QED
    BY <1>1, <1>3, <1>4, <1>5 DEF StacksAgree

\* A cut by Keep is a cut.
LEMMA KeepCuts ==
    ASSUME TypeOK, NEW n \in 0..Len(ctl), ctl' = Keep(n),
           \A j \in (n + 1)..Len(ctl) : ~Armed(j)
    PROVE  CutAt(n)
  <1>1. /\ Len(ctl') = n
        /\ DOMAIN ctl' = 1..n
        /\ \A i \in 1..n : ctl'[i] = ctl[i]
    BY CutStack DEF Keep, TypeOK
  <1>2. QED
    BY <1>1 DEF CutAt, Stays, Armed

\* A scope sc was opened, and nothing below it changed.
OpenedScope(sc) ==
    /\ Len(ctl') = Len(ctl) + 1
    /\ DOMAIN ctl' = 1..(Len(ctl) + 1)
    /\ \A i \in 1..Len(ctl) : Stays(i)
    /\ ctl'[Len(ctl) + 1] = sc

\* Opening a scope by Append opens it.
LEMMA AppendOpens ==
    ASSUME TypeOK, NEW sc \in ScopeType, ctl' = Append(ctl, sc)
    PROVE  OpenedScope(sc)
  <1>1. /\ Len(ctl') = Len(ctl) + 1
        /\ DOMAIN ctl' = 1..(Len(ctl) + 1)
        /\ \A i \in 1..Len(ctl) : ctl'[i] = ctl[i]
        /\ ctl'[Len(ctl) + 1] = sc
    BY AppendProperties DEF TypeOK
  <1>2. QED
    BY <1>1 DEF OpenedScope, Stays, Armed

\* A scope that is no Try, holds no object and is no constructor.
Plain(sc) == sc.kind \in {"fn", "block", "dtor"} /\ sc.own = {}

\* The cleanup stack was cut back to m entries, above every armed mark.
CleanupCutAt(m) ==
    /\ m <= Len(cleanup)
    /\ Len(cleanup') = m
    /\ DOMAIN cleanup' = 1..m
    /\ \A h \in 1..m : cleanup'[h] = cleanup[h]
    /\ built' = {cleanup[h] : h \in 1..m}
    /\ \A i \in DOMAIN ctl : Armed(i) => ctl[i].mark <= m

\* The exception stack fits the C stack when a plain scope is opened.
LEMMA OpenFrames ==
    ASSUME TypeOK, NEW sc, Plain(sc), OpenedScope(sc), exc' = exc, FramesMatchTries
    PROVE  FramesMatchTries'
  <1>1. PICK n \in Nat : n = Len(ctl) /\ DOMAIN ctl = 1..n
    BY DEF TypeOK
  <1>2. /\ DOMAIN ctl' = 1..(n + 1) /\ Len(ctl') = n + 1
        /\ \A i \in 1..n : (Armed(i)' <=> Armed(i)) /\ ctl'[i].prev = ctl[i].prev
    BY <1>1 DEF OpenedScope, Stays
  <1>3. ~Armed(n + 1)'
    BY <1>1 DEF OpenedScope, Plain, Armed
  <1>4. InnermostFrame(exc, n) /\ \A i \in 1..n : Armed(i) => InnermostFrame(ctl[i].prev, i - 1)
    BY <1>1 DEF FramesMatchTries
  <1>5. InnermostFrame(exc, n + 1)'
    BY <1>1, <1>2, <1>3, <1>4 DEF InnermostFrame
  <1>6. ASSUME NEW i \in 1..n, Armed(i) PROVE InnermostFrame(ctl[i].prev, i - 1)'
    <2>1. InnermostFrame(ctl[i].prev, i - 1)
      BY <1>4, <1>6
    <2>2. \A j \in 1..(i - 1) : j \in 1..n
      BY <1>1
    <2>3. QED
      BY <1>1, <1>2, <2>1, <2>2 DEF InnermostFrame
  <1>7. \A i \in 1..(n + 1) : Armed(i)' => InnermostFrame(ctl[i].prev, i - 1)'
    BY <1>1, <1>2, <1>3, <1>6
  <1>8. QED
    BY <1>2, <1>5, <1>7 DEF FramesMatchTries

\* A plain scope has no slot that another has.
LEMMA OpenSlots ==
    ASSUME TypeOK, NEW sc, Plain(sc), OpenedScope(sc), SlotsSeparate
    PROVE  SlotsSeparate'
  <1>1. PICK n \in Nat : n = Len(ctl) /\ DOMAIN ctl = 1..n
    BY DEF TypeOK
  <1>2. DOMAIN ctl' = 1..(n + 1) /\ ctl'[n + 1].own = {}
    BY <1>1 DEF OpenedScope, Plain
  <1>3. \A i \in 1..n : (Armed(i)' <=> Armed(i)) /\ ctl'[i].own = ctl[i].own
    BY <1>1 DEF OpenedScope, Stays
  <1>4. QED
    BY <1>1, <1>2, <1>3 DEF SlotsSeparate

\* Constructors stay where they are when a plain scope is opened.
LEMMA OpenCtors ==
    ASSUME TypeOK, NEW sc, Plain(sc), OpenedScope(sc), CtorsInTry, built' \subseteq built
    PROVE  CtorsInTry'
  <1>1. PICK n \in Nat : n = Len(ctl) /\ DOMAIN ctl = 1..n
    BY DEF TypeOK
  <1>2. DOMAIN ctl' = 1..(n + 1) /\ ctl'[n + 1].kind # "ctor"
    BY <1>1 DEF OpenedScope, Plain
  <1>3. \A i \in 1..n : Stays(i)
    BY <1>1 DEF OpenedScope
  <1>4. ASSUME NEW f \in 1..n, ctl'[f].kind = "ctor"
        PROVE  /\ f > 1
               /\ Armed(f - 1)'
               /\ ctl'[f].obj \in ctl'[f - 1].own
               /\ ctl'[f].obj \notin built'
    <2>1. /\ f > 1 /\ Armed(f - 1) /\ ctl[f].obj \in ctl[f - 1].own
          /\ ctl[f].obj \notin built
      BY <1>1, <1>3, <1>4 DEF Stays, CtorsInTry
    <2>2. Stays(f) /\ Stays(f - 1)
      BY <1>1, <1>3, <2>1
    <2>3. QED
      BY <2>1, <2>2 DEF Stays
  <1>5. QED
    BY <1>1, <1>2, <1>4 DEF CtorsInTry

\* Marks stay nested when a plain scope is opened.
LEMMA OpenMarks ==
    ASSUME TypeOK, NEW sc, Plain(sc), OpenedScope(sc), MarksNested,
           NEW m \in Nat, CleanupCutAt(m)
    PROVE  MarksNested'
  <1>1. PICK n \in Nat : n = Len(ctl) /\ DOMAIN ctl = 1..n
    BY DEF TypeOK
  <1>2. DOMAIN ctl' = 1..(n + 1) /\ ~Armed(n + 1)'
    BY <1>1 DEF OpenedScope, Plain, Armed
  <1>3. \A i \in 1..n : (Armed(i)' <=> Armed(i)) /\ ctl'[i].mark = ctl[i].mark
    BY <1>1 DEF OpenedScope, Stays
  <1>4. \A i \in 1..n : Armed(i) => ctl[i].mark <= Len(cleanup')
    BY <1>1 DEF CleanupCutAt
  <1>5. \A i \in 1..n : \A j \in 1..(i - 1) : j \in 1..n
    BY <1>1
  <1>6. \A i \in 1..n : Armed(i)' =>
           /\ ctl'[i].mark <= Len(cleanup')
           /\ \A j \in 1..(i - 1) : Armed(j)' => ctl'[j].mark <= ctl'[i].mark
    BY <1>1, <1>3, <1>4, <1>5 DEF MarksNested
  <1>7. QED
    BY <1>1, <1>2, <1>6 DEF MarksNested

\* The entries that are left name what is there when a plain scope is opened.
LEMMA OpenCleanup ==
    ASSUME TypeOK, NEW sc, Plain(sc), OpenedScope(sc), CleanupMatchesBuilt,
           NEW m \in Nat, CleanupCutAt(m)
    PROVE  CleanupMatchesBuilt' /\ built' \subseteq built
  <1>1. /\ Len(ctl) \in Nat /\ DOMAIN ctl = 1..Len(ctl)
        /\ Len(cleanup) \in Nat /\ DOMAIN cleanup = 1..Len(cleanup)
    BY DEF TypeOK
  <1>2. 1..m \subseteq DOMAIN cleanup
    BY <1>1 DEF CleanupCutAt
  <1>3. ASSUME NEW h \in 1..m
        PROVE  \E i \in DOMAIN ctl' : Guards(i, h)'
    <2>1. PICK i \in DOMAIN ctl : Guards(i, h)
      BY <1>2 DEF CleanupMatchesBuilt
    <2>2. i \in DOMAIN ctl' /\ Stays(i)
      BY <1>1 DEF OpenedScope
    <2>3. \A j \in (i + 1)..Len(ctl') : Armed(j)' => h <= ctl'[j].mark
      <3>1. \A j \in (i + 1)..Len(ctl') : j \in (i + 1)..Len(ctl) \/ ~Armed(j)'
        BY <1>1, <2>1 DEF OpenedScope, Plain, Armed
      <3>2. \A j \in (i + 1)..Len(ctl) : Stays(j)
        BY <1>1 DEF OpenedScope
      <3>3. QED
        BY <2>1, <3>1, <3>2 DEF Guards, Stays
    <2>4. QED
      BY <2>1, <2>2, <2>3 DEF CleanupCutAt, Stays, Guards
  <1>4. built' = {cleanup'[h] : h \in DOMAIN cleanup'}
    BY DEF CleanupCutAt
  <1>5. \A g, h \in DOMAIN cleanup' : cleanup'[g] = cleanup'[h] => g = h
    BY <1>2 DEF CleanupCutAt, CleanupMatchesBuilt
  <1>6. built' \subseteq built
    BY <1>2 DEF CleanupCutAt, CleanupMatchesBuilt
  <1>7. QED
    BY <1>3, <1>4, <1>5, <1>6 DEF CleanupMatchesBuilt, CleanupCutAt

\* Opening a plain scope keeps the stacks in agreement, even when the topmost
\* cleanup entries are taken off.
LEMMA OpenAgrees ==
    ASSUME TypeOK, StacksAgree, NEW sc, Plain(sc), OpenedScope(sc),
           NEW m \in Nat, CleanupCutAt(m), exc' = exc
    PROVE  StacksAgree'
  <1>1. FramesMatchTries' /\ SlotsSeparate'
    BY OpenFrames, OpenSlots DEF StacksAgree
  <1>2. MarksNested'
    BY OpenMarks DEF StacksAgree
  <1>3. CleanupMatchesBuilt' /\ built' \subseteq built
    BY OpenCleanup DEF StacksAgree
  <1>4. CtorsInTry'
    BY <1>3, OpenCtors DEF StacksAgree
  <1>5. QED
    BY <1>1, <1>2, <1>3, <1>4 DEF StacksAgree

\* A cleanup stack that is left alone is not cut.
LEMMA CleanupUncut ==
    ASSUME TypeOK, StacksAgree, cleanup' = cleanup, built' = built
    PROVE  Len(cleanup) \in Nat /\ CleanupCutAt(Len(cleanup))
  BY DEF TypeOK, StacksAgree, CleanupMatchesBuilt, MarksNested, CleanupCutAt

\* Entering a Try keeps the stacks in agreement.
LEMMA EnterTryAgrees ==
    ASSUME TypeOK, StacksAgree, EnterTry
    PROVE  StacksAgree'
  <1>1. PICK n \in Nat : n = Len(ctl) /\ DOMAIN ctl = 1..n
    BY DEF TypeOK
  <1>2. PICK m \in Nat : m = Len(cleanup) /\ DOMAIN cleanup = 1..m
    BY DEF TypeOK
  <1>3. TryScope \in ScopeType
    BY DEF TypeOK, TryScope, ScopeType, Kinds, Phases, Callable
  <1>4. OpenedScope(TryScope)
    BY <1>3, AppendOpens DEF EnterTry
  <1>5. /\ DOMAIN ctl' = 1..(n + 1) /\ Len(ctl') = n + 1
        /\ \A i \in 1..n : Stays(i)
        /\ ctl'[n + 1] = TryScope
    BY <1>1, <1>4 DEF OpenedScope
  <1>6. /\ Armed(n + 1)' /\ ctl'[n + 1].own = {} /\ ctl'[n + 1].kind = "try"
        /\ ctl'[n + 1].mark = m /\ ctl'[n + 1].prev = exc
    BY <1>2, <1>5 DEF TryScope, Armed
  <1>7. exc' = n + 1 /\ cleanup' = cleanup /\ built' = built
    BY <1>1 DEF EnterTry
  <1>8. FramesMatchTries'
    <2>1. /\ InnermostFrame(exc, n)
          /\ \A i \in 1..n : Armed(i) => InnermostFrame(ctl[i].prev, i - 1)
      BY <1>1 DEF StacksAgree, FramesMatchTries
    <2>2. \A i \in 1..n : (Armed(i)' <=> Armed(i)) /\ ctl'[i].prev = ctl[i].prev
      BY <1>5 DEF Stays
    <2>3. InnermostFrame(exc, n + 1)'
      BY <1>6, <1>7 DEF InnermostFrame
    <2>4. ASSUME NEW i \in 1..n, Armed(i) PROVE InnermostFrame(ctl[i].prev, i - 1)'
      <3>1. InnermostFrame(ctl[i].prev, i - 1)
        BY <2>1, <2>4
      <3>2. \A j \in 1..(i - 1) : j \in 1..n
        OBVIOUS
      <3>3. QED
        BY <2>2, <3>1, <3>2 DEF InnermostFrame
    <2>5. InnermostFrame(ctl[n + 1].prev, n)'
      BY <1>6, <2>1, <2>2 DEF InnermostFrame
    <2>6. \A i \in 1..(n + 1) : Armed(i)' => InnermostFrame(ctl[i].prev, i - 1)'
      <3>1. (n + 1) - 1 = n /\ \A i \in 1..(n + 1) : i \in 1..n \/ i = n + 1
        OBVIOUS
      <3>2. QED
        BY <2>2, <2>4, <2>5, <3>1
    <2>7. QED
      BY <1>5, <2>3, <2>6 DEF FramesMatchTries
  <1>9. SlotsSeparate'
    BY <1>1, <1>5, <1>6 DEF StacksAgree, SlotsSeparate, Stays
  <1>10. CtorsInTry'
    <2>1. ASSUME NEW f \in 1..n, ctl'[f].kind = "ctor"
          PROVE  /\ f > 1
                 /\ Armed(f - 1)'
                 /\ ctl'[f].obj \in ctl'[f - 1].own
                 /\ ctl'[f].obj \notin built'
      <3>1. /\ f > 1 /\ Armed(f - 1) /\ ctl[f].obj \in ctl[f - 1].own
            /\ ctl[f].obj \notin built
        BY <1>1, <1>5, <2>1 DEF Stays, StacksAgree, CtorsInTry
      <3>2. Stays(f) /\ Stays(f - 1)
        BY <1>1, <1>5, <3>1
      <3>3. QED
        BY <1>7, <3>1, <3>2 DEF Stays
    <2>2. QED
      BY <1>5, <1>6, <2>1 DEF CtorsInTry
  <1>11. MarksNested'
    <2>1. \A i \in 1..n : (Armed(i)' <=> Armed(i)) /\ ctl'[i].mark = ctl[i].mark
      BY <1>5 DEF Stays
    <2>2. \A i \in 1..n : Armed(i) =>
             /\ ctl[i].mark <= m
             /\ \A j \in 1..(i - 1) : Armed(j) => ctl[j].mark <= ctl[i].mark
      BY <1>1, <1>2 DEF StacksAgree, MarksNested
    <2>3. \A i \in 1..(n + 1) : \A j \in 1..(i - 1) : j \in 1..n
      OBVIOUS
    <2>4. \A i \in 1..(n + 1) : Armed(i)' =>
             /\ ctl'[i].mark <= m
             /\ \A j \in 1..(i - 1) : Armed(j)' => ctl'[j].mark <= ctl'[i].mark
      BY <1>6, <2>1, <2>2, <2>3
    <2>5. QED
      BY <1>2, <1>5, <1>7, <2>4 DEF MarksNested
  <1>12. CleanupMatchesBuilt'
    <2>1. ASSUME NEW h \in DOMAIN cleanup
          PROVE  \E i \in DOMAIN ctl' : Guards(i, h)'
      <3>1. PICK i \in 1..n : Guards(i, h)
        BY <1>1 DEF StacksAgree, CleanupMatchesBuilt
      <3>2. i \in DOMAIN ctl' /\ Stays(i)
        BY <1>1, <1>5
      <3>3. \A j \in (i + 1)..(n + 1) : Armed(j)' => h <= ctl'[j].mark
        <4>1. \A j \in (i + 1)..(n + 1) : (j \in (i + 1)..n /\ Stays(j)) \/ j = n + 1
          BY <1>5
        <4>2. h <= m
          BY <1>2
        <4>3. QED
          BY <1>1, <1>6, <3>1, <4>1, <4>2 DEF Guards, Stays
      <3>4. QED
        BY <1>5, <1>7, <3>1, <3>2, <3>3 DEF Guards, Stays
    <2>2. QED
      BY <1>7, <2>1 DEF StacksAgree, CleanupMatchesBuilt
  <1>13. QED
    BY <1>8, <1>9, <1>10, <1>11, <1>12 DEF StacksAgree

\* Declaring a class object in a Try body keeps the stacks in agreement.
LEMMA ConstructAgrees ==
    ASSUME TypeOK, StacksAgree, ~LocalsAnywhere, NEW o \in Objects, Construct(o)
    PROVE  StacksAgree'
  <1>1. PICK n \in Nat : n = Len(ctl) /\ DOMAIN ctl = 1..n
    BY DEF TypeOK
  <1>2. n \in 1..n /\ Armed(n)
    BY <1>1 DEF Construct, Executing, Top, TypeOK, Armed
  <1>3. /\ DOMAIN ctl' = 1..(n + 1) /\ Len(ctl') = n + 1
        /\ \A i \in 1..n : i # n => ctl'[i] = ctl[i]
        /\ ctl'[n] = [ctl[n] EXCEPT !.own = @ \union {o}]
        /\ ctl'[n + 1] = Scope("ctor", o)
    <2> DEFINE mid == [ctl EXCEPT ![n].own = @ \union {o}]
    <2>1. ctl[n] \in ScopeType /\ [ctl[n] EXCEPT !.own = @ \union {o}] \in ScopeType
      <3>1. ctl[n] \in ScopeType
        BY <1>1, <1>2 DEF TypeOK
      <3>2. QED
        BY <3>1 DEF ScopeType
    <2>2. /\ mid \in Seq(ScopeType) /\ Len(mid) = n
          /\ mid[n] = [ctl[n] EXCEPT !.own = @ \union {o}]
          /\ \A i \in 1..n : i # n => mid[i] = ctl[i]
      <3> DEFINE top == [ctl[n] EXCEPT !.own = @ \union {o}]
      <3>1. mid = [ctl EXCEPT ![n] = top]
        BY <1>1, <1>2
      <3>2. ctl \in Seq(ScopeType) /\ n \in 1..Len(ctl) /\ n = Len(ctl)
        BY <1>1, <1>2 DEF TypeOK
      <3>3. top \in ScopeType
        BY <2>1
      <3> HIDE DEF mid, top
      <3>4. /\ mid \in Seq(ScopeType) /\ Len(mid) = n
            /\ mid[n] = top
            /\ \A i \in 1..n : i # n => mid[i] = ctl[i]
        BY <3>1, <3>2, <3>3, ExceptSeq
      <3>5. QED
        BY <3>4 DEF top
    <2>3. Scope("ctor", o) \in ScopeType
      BY ScopeHasType DEF Kinds, Callable
    <2>4. ctl' = Append(mid, Scope("ctor", o))
      BY <1>1 DEF Construct
    <2> HIDE DEF mid
    <2>5. /\ Len(ctl') = n + 1
          /\ DOMAIN ctl' = 1..(n + 1)
          /\ \A i \in 1..n : ctl'[i] = mid[i]
          /\ ctl'[n + 1] = Scope("ctor", o)
      BY <2>2, <2>3, <2>4, AppendProperties
    <2>6. QED
      BY <1>2, <2>2, <2>5
  <1>4. /\ ctl'[n + 1].kind = "ctor" /\ ctl'[n + 1].obj = o /\ ctl'[n + 1].own = {}
        /\ ~Armed(n + 1)'
    BY <1>3 DEF Scope, Armed
  <1>5. /\ ctl'[n].own = ctl[n].own \union {o} /\ ctl'[n].kind = ctl[n].kind
        /\ ctl'[n].mark = ctl[n].mark /\ ctl'[n].prev = ctl[n].prev
        /\ ctl'[n].obj = ctl[n].obj /\ Armed(n)'
    <2>1. ctl[n] \in ScopeType
      BY <1>1, <1>2 DEF TypeOK
    <2>2. QED
      BY <1>2, <1>3, <2>1 DEF ScopeType, Armed
  <1>6. \A i \in 1..n :
           /\ Armed(i)' <=> Armed(i)
           /\ ctl'[i].kind = ctl[i].kind /\ ctl'[i].obj = ctl[i].obj
           /\ ctl'[i].mark = ctl[i].mark /\ ctl'[i].prev = ctl[i].prev
           /\ i # n => ctl'[i].own = ctl[i].own
    BY <1>2, <1>3, <1>5 DEF Armed
  <1> DEFINE SameFrame(i) == (Armed(i)' <=> Armed(i)) /\ ctl'[i].prev = ctl[i].prev
             SameMark(i) == (Armed(i)' <=> Armed(i)) /\ ctl'[i].mark = ctl[i].mark
  <1>16. \A i \in 1..n : SameFrame(i) /\ SameMark(i)
    BY <1>6
  <1>7. exc' = exc /\ cleanup' = cleanup /\ built' = built /\ o \notin Owned(ctl)
    BY DEF Construct
  <1>8. \A i \in 1..n : o \notin ctl[i].own
    BY <1>1, <1>7 DEF Owned
  <1>9. FramesMatchTries'
    <2>1. /\ InnermostFrame(exc, n)
          /\ \A i \in 1..n : Armed(i) => InnermostFrame(ctl[i].prev, i - 1)
      BY <1>1 DEF StacksAgree, FramesMatchTries
    <2>2. InnermostFrame(exc, n + 1)'
      BY <1>4, <1>7, <1>16, <2>1 DEF InnermostFrame
    <2>3. ASSUME NEW i \in 1..n, Armed(i) PROVE InnermostFrame(ctl[i].prev, i - 1)'
      <3>1. InnermostFrame(ctl[i].prev, i - 1)
        BY <2>1, <2>3
      <3>2. \A j \in 1..(i - 1) : j \in 1..n
        OBVIOUS
      <3>3. QED
        BY <1>16, <3>1, <3>2 DEF InnermostFrame
    <2>4. \A i \in 1..(n + 1) : Armed(i)' => InnermostFrame(ctl[i].prev, i - 1)'
      <3>1. \A i \in 1..(n + 1) : i \in 1..n \/ i = n + 1
        OBVIOUS
      <3>2. QED
        BY <1>4, <1>16, <2>3, <3>1
    <2>5. QED
      BY <1>3, <2>2, <2>4 DEF FramesMatchTries
  <1>10. SlotsSeparate'
    <2>1. \A i \in 1..(n + 1) : i \in 1..n \/ i = n + 1
      OBVIOUS
    <2>2. \A i \in 1..(n + 1) : ~Armed(i)' => ctl'[i].own = {}
      BY <1>1, <1>2, <1>4, <1>6, <2>1 DEF StacksAgree, SlotsSeparate
    <2>3. \A i, j \in 1..n : i # j => ctl[i].own \intersect ctl[j].own = {}
      BY <1>1 DEF StacksAgree, SlotsSeparate
    <2>4. ASSUME NEW i \in 1..n, NEW j \in 1..n, i # j
          PROVE  ctl'[i].own \intersect ctl'[j].own = {}
      <3>1. ctl[i].own \intersect ctl[j].own = {} /\ o \notin ctl[i].own /\ o \notin ctl[j].own
        BY <1>8, <2>3, <2>4
      <3>2. \/ i = n /\ ctl'[i].own = ctl[i].own \union {o} /\ ctl'[j].own = ctl[j].own
            \/ j = n /\ ctl'[j].own = ctl[j].own \union {o} /\ ctl'[i].own = ctl[i].own
            \/ ctl'[i].own = ctl[i].own /\ ctl'[j].own = ctl[j].own
        BY <1>5, <1>6, <2>4
      <3>3. QED
        BY <3>1, <3>2
    <2>5. \A i, j \in 1..(n + 1) : i # j => ctl'[i].own \intersect ctl'[j].own = {}
      BY <1>4, <2>1, <2>4
    <2>6. QED
      BY <1>3, <2>2, <2>5 DEF SlotsSeparate
  <1>11. o \notin built
    <2>1. ASSUME o \in built PROVE FALSE
      <3>1. PICK h \in DOMAIN cleanup : cleanup[h] = o
        BY <2>1 DEF StacksAgree, CleanupMatchesBuilt
      <3>2. QED
        BY <1>1, <1>8, <3>1 DEF StacksAgree, CleanupMatchesBuilt, Guards
    <2>2. QED
      BY <2>1
  <1>12. CtorsInTry'
    <2>1. ASSUME NEW f \in 1..n, ctl[f].kind = "ctor"
          PROVE  /\ f > 1
                 /\ Armed(f - 1)'
                 /\ ctl'[f].obj \in ctl'[f - 1].own
                 /\ ctl'[f].obj \notin built'
      <3>1. /\ f > 1 /\ Armed(f - 1) /\ ctl[f].obj \in ctl[f - 1].own
            /\ ctl[f].obj \notin built
        BY <1>1, <2>1 DEF StacksAgree, CtorsInTry
      <3>2. f - 1 \in 1..n
        BY <3>1
      <3>3. QED
        BY <1>6, <1>7, <3>1, <3>2
    <2>2. (n + 1) > 1 /\ (n + 1) - 1 = n
      BY <1>2
    <2>3. \A f \in 1..(n + 1) : ctl'[f].kind = "ctor" =>
             /\ f > 1
             /\ Armed(f - 1)'
             /\ ctl'[f].obj \in ctl'[f - 1].own
             /\ ctl'[f].obj \notin built'
      <3>1. \A f \in 1..(n + 1) : f \in 1..n \/ f = n + 1
        OBVIOUS
      <3>2. QED
        BY <1>4, <1>5, <1>6, <1>7, <1>11, <2>1, <2>2, <3>1
    <2>4. QED
      BY <1>3, <2>3 DEF CtorsInTry
  <1>13. MarksNested'
    <2>1. \A i \in 1..(n + 1) : \A j \in 1..(i - 1) : j \in 1..n
      OBVIOUS
    <2>2. \A i \in 1..n : Armed(i) =>
             /\ ctl[i].mark <= Len(cleanup)
             /\ \A j \in 1..(i - 1) : Armed(j) => ctl[j].mark <= ctl[i].mark
      BY <1>1 DEF StacksAgree, MarksNested
    <2>3. \A i \in 1..(n + 1) : Armed(i)' =>
             /\ ctl'[i].mark <= Len(cleanup)
             /\ \A j \in 1..(i - 1) : Armed(j)' => ctl'[j].mark <= ctl'[i].mark
      <3>1. \A i \in 1..(n + 1) : i \in 1..n \/ i = n + 1
        OBVIOUS
      <3>2. QED
        BY <1>4, <1>16, <2>1, <2>2, <3>1
    <2>4. QED
      BY <1>3, <1>7, <2>3 DEF MarksNested
  <1>14. CleanupMatchesBuilt'
    <2>1. ASSUME NEW h \in DOMAIN cleanup
          PROVE  \E i \in DOMAIN ctl' : Guards(i, h)'
      <3>1. PICK i \in 1..n : Guards(i, h)
        BY <1>1 DEF StacksAgree, CleanupMatchesBuilt
      <3>2. i \in DOMAIN ctl'
        BY <1>3
      <3>3. cleanup[h] \in ctl'[i].own
        BY <1>5, <1>6, <3>1 DEF Guards
      <3>4. \A j \in (i + 1)..(n + 1) : Armed(j)' => h <= ctl'[j].mark
        <4>1. \A j \in (i + 1)..(n + 1) : (j \in (i + 1)..n /\ SameMark(j)) \/ j = n + 1
          BY <1>16
        <4>2. QED
          BY <1>1, <1>4, <3>1, <4>1 DEF Guards
      <3>5. QED
        BY <1>3, <1>7, <1>16, <3>1, <3>2, <3>3, <3>4 DEF Guards
    <2>2. QED
      BY <1>7, <2>1 DEF StacksAgree, CleanupMatchesBuilt
  <1>15. QED
    BY <1>9, <1>10, <1>12, <1>13, <1>14 DEF StacksAgree

\* Registering an object when its constructor returns keeps the agreement.
LEMMA ReturnCtorAgrees ==
    ASSUME TypeOK, StacksAgree, ~EarlyExit, ReturnCtor
    PROVE  StacksAgree'
  <1>1. PICK f \in DOMAIN ctl :
           /\ ctl[f].kind = "ctor"
           /\ MayLeave(f)
           /\ ctl' = Keep(f - 1)
           /\ cleanup' = Append(cleanup, ctl[f].obj)
           /\ built' = (built \intersect Owned(ctl')) \union {ctl[f].obj}
    BY DEF ReturnCtor
  <1>2. PICK n \in Nat : n = f - 1 /\ n \in 0..Len(ctl) /\ n \in DOMAIN ctl /\ f > 1
    BY <1>1 DEF TypeOK, StacksAgree, CtorsInTry
  <1>3. PICK m \in Nat : m = Len(cleanup) /\ DOMAIN cleanup = 1..m
    BY DEF TypeOK
  <1>4. PICK o \in Objects : o = ctl[f].obj
    BY <1>1 DEF TypeOK
  <1>5. Armed(n) /\ o \in ctl[n].own /\ o \notin built /\ ctl[n].mark <= m
    BY <1>1, <1>2, <1>3, <1>4 DEF StacksAgree, CtorsInTry, MarksNested
  <1>6. CutAt(n)
    <2>1. \A j \in (n + 1)..Len(ctl) : ~Armed(j)
      BY <1>1, <1>2 DEF MayLeave, TypeOK
    <2>2. ctl' = Keep(n)
      BY <1>1, <1>2
    <2>3. QED
      BY <1>2, <2>1, <2>2, KeepCuts
  <1>7. exc' = exc /\ built' = built \union {o}
    <2>1. built \intersect Owned(ctl') = built
      BY <1>2, <1>6, CutKeepsBuilt DEF StacksAgree
    <2>2. QED
      BY <1>1, <1>4, <2>1 DEF ReturnCtor
  <1>8. /\ Len(cleanup') = m + 1
        /\ DOMAIN cleanup' = 1..(m + 1)
        /\ \A h \in 1..m : cleanup'[h] = cleanup[h]
        /\ cleanup'[m + 1] = o
    <2>1. cleanup \in Seq(Objects) /\ cleanup' = Append(cleanup, o)
      BY <1>1, <1>4 DEF TypeOK
    <2>2. QED
      BY <1>3, <2>1, AppendProperties
  <1>9. FramesMatchTries' /\ SlotsSeparate'
    BY <1>2, <1>6, <1>7, CutFrames, CutSlots DEF StacksAgree
  <1>10. MarksNested'
    BY <1>2, <1>3, <1>6, <1>8, CutMarks DEF StacksAgree
  <1>11. CtorsInTry'
    <2>1. ASSUME NEW g \in 1..n, ctl'[g].kind = "ctor"
          PROVE  /\ g > 1
                 /\ Armed(g - 1)'
                 /\ ctl'[g].obj \in ctl'[g - 1].own
                 /\ ctl'[g].obj \notin built'
      <3>1. g \in DOMAIN ctl /\ Stays(g)
        BY <1>2, <1>6 DEF CutAt, TypeOK
      <3>2. /\ g > 1 /\ Armed(g - 1) /\ ctl[g].obj \in ctl[g - 1].own
            /\ ctl[g].obj \notin built
        BY <2>1, <3>1 DEF Stays, StacksAgree, CtorsInTry
      <3>3. g - 1 \in 1..n /\ g - 1 \in DOMAIN ctl /\ g - 1 # n
        BY <1>2, <3>1, <3>2 DEF TypeOK
      <3>4. Stays(g - 1)
        BY <1>6, <3>3 DEF CutAt
      <3>5. ctl[g].obj # o
        BY <1>2, <1>5, <3>2, <3>3 DEF StacksAgree, SlotsSeparate
      <3>6. QED
        BY <1>7, <3>1, <3>2, <3>4, <3>5 DEF Stays
    <2>2. QED
      BY <1>6, <2>1 DEF CutAt, CtorsInTry
  <1>12. CleanupMatchesBuilt'
    <2>1. built = {cleanup[h] : h \in 1..m}
      BY <1>3 DEF StacksAgree, CleanupMatchesBuilt
    <2>2. \A h \in 1..(m + 1) : h \in 1..m \/ h = m + 1
      OBVIOUS
    <2>3. built' = {cleanup'[h] : h \in 1..(m + 1)}
      BY <1>7, <1>8, <2>1, <2>2
    <2>4. \A g, h \in 1..m : cleanup[g] = cleanup[h] => g = h
      BY <1>3 DEF StacksAgree, CleanupMatchesBuilt
    <2>5. \A h \in 1..m : cleanup[h] # o
      BY <1>5, <2>1
    <2>6. \A g, h \in 1..(m + 1) : cleanup'[g] = cleanup'[h] => g = h
      BY <1>8, <2>2, <2>4, <2>5
    <2>7. ASSUME NEW h \in 1..m
          PROVE  \E i \in DOMAIN ctl' : Guards(i, h)'
      <3>1. PICK i \in DOMAIN ctl : Guards(i, h)
        BY <1>3 DEF StacksAgree, CleanupMatchesBuilt
      <3>2. i \in DOMAIN ctl' /\ Stays(i)
        BY <1>6, <3>1 DEF CutAt, TypeOK, Guards
      <3>3. \A j \in (i + 1)..Len(ctl') : j \in (i + 1)..Len(ctl) /\ Stays(j)
        BY <1>2, <1>6, <3>1 DEF CutAt, TypeOK
      <3>4. QED
        BY <1>8, <3>1, <3>2, <3>3 DEF Stays, Guards
    <2>8. n \in DOMAIN ctl' /\ Guards(n, m + 1)'
      <3>1. n \in 1..n
        BY <1>2 DEF TypeOK
      <3>2. n \in DOMAIN ctl' /\ Stays(n)
        BY <1>6, <3>1 DEF CutAt
      <3>3. ctl[n].mark \in Nat
        BY <1>2, ScopesTyped
      <3>4. Len(ctl') = n
        BY <1>6 DEF CutAt
      <3>5. QED
        BY <1>5, <1>8, <3>2, <3>3, <3>4 DEF Stays, Guards
    <2>9. \A h \in 1..(m + 1) : \E i \in DOMAIN ctl' : Guards(i, h)'
      BY <2>2, <2>7, <2>8
    <2>10. QED
      BY <1>8, <2>3, <2>6, <2>9 DEF CleanupMatchesBuilt
  <1>13. QED
    BY <1>9, <1>10, <1>11, <1>12 DEF StacksAgree

\* What is known when RunTo has destroyed all it should: the Try is the
\* innermost armed one, its frame is on top, and it owns no entry any more.
LEMMA RunToDoneFacts ==
    ASSUME TypeOK, StacksAgree, RunningTo, RunToDone
    PROVE  /\ Len(ctl) \in DOMAIN ctl /\ Armed(Len(ctl)) /\ exc = Len(ctl)
           /\ InnermostFrame(Top.prev, Len(ctl) - 1)
           /\ \A h \in DOMAIN cleanup : \E i \in 1..(Len(ctl) - 1) : Guards(i, h)
  <1>1. PICK n \in Nat : n = Len(ctl) /\ DOMAIN ctl = 1..n
    BY DEF TypeOK
  <1>2. n \in 1..n /\ Armed(n) /\ Top = ctl[n]
    <2>1. ctl # <<>>
      BY DEF RunningTo, TypeOK
    <2>2. n \in 1..n
      BY <1>1, <2>1 DEF TypeOK
    <2>3. QED
      BY <1>1, <2>2 DEF RunningTo, Top, Armed
  <1>3. exc = n
    BY <1>1, <1>2 DEF StacksAgree, FramesMatchTries, InnermostFrame
  <1>4. InnermostFrame(ctl[n].prev, n - 1)
    BY <1>1, <1>2 DEF StacksAgree, FramesMatchTries
  <1>5. PICK m \in Nat : m = Len(cleanup) /\ DOMAIN cleanup = 1..m
    BY DEF TypeOK
  <1>6. ctl[n].mark = m
    <2>1. ctl[n].mark <= m /\ ctl[n].mark \in Nat
      BY <1>1, <1>2, <1>5, ScopesTyped DEF StacksAgree, MarksNested
    <2>2. m = ctl[n].mark \/ m = 0
      BY <1>2, <1>5 DEF RunToDone
    <2>3. QED
      BY <2>1, <2>2
  <1>7. ASSUME NEW h \in DOMAIN cleanup
        PROVE  \E i \in 1..(n - 1) : Guards(i, h)
    <2>1. PICK i \in 1..n : Guards(i, h)
      BY <1>1 DEF StacksAgree, CleanupMatchesBuilt
    <2>2. i # n
      BY <1>5, <1>6, <2>1 DEF Guards
    <2>3. QED
      BY <2>1, <2>2
  <1>8. QED
    BY <1>1, <1>2, <1>3, <1>4, <1>7

\* The Try on top was left, or is now in its Catch body.
DisarmedTop(n, k) ==
    /\ n = Len(ctl)
    /\ k \in {n - 1, n}
    /\ Len(ctl') = k /\ DOMAIN ctl' = 1..k
    /\ \A i \in 1..(n - 1) : Stays(i)
    /\ k = n => ~Armed(n)' /\ ctl'[n].own = {} /\ ctl'[n].kind = "try"

\* Popping the frame of a Try that has destroyed its objects keeps the
\* stacks in agreement, and destroys or loses nothing more.
LEMMA DisarmAgrees ==
    ASSUME TypeOK, StacksAgree, RunningTo, RunToDone,
           NEW n \in Nat, NEW k \in Nat, DisarmedTop(n, k),
           exc' = Top.prev, cleanup' = cleanup, DropStorage
    PROVE  StacksAgree' /\ built' = built
  <1>1. /\ n = Len(ctl) /\ DOMAIN ctl = 1..n /\ n \in 1..n /\ n - 1 \in Nat
        /\ InnermostFrame(Top.prev, n - 1)
        /\ \A h \in DOMAIN cleanup : \E i \in 1..(n - 1) : Guards(i, h)
    <2>1. n = Len(ctl) /\ DOMAIN ctl = 1..n
      BY DEF DisarmedTop, TypeOK
    <2>2. QED
      BY <2>1, RunToDoneFacts
  <1>2. /\ DOMAIN ctl' = 1..k /\ Len(ctl') = k
        /\ k = n - 1 \/ k = n
        /\ \A i \in 1..(n - 1) : Stays(i) /\ i \in 1..k
        /\ \A i \in 1..k : i \in 1..(n - 1) \/ (i = n /\ k = n)
        /\ k = n => ~Armed(n)' /\ ctl'[n].own = {} /\ ctl'[n].kind = "try"
    BY <1>1 DEF DisarmedTop
  <1>3. PICK p \in Nat : p = Top.prev
    BY <1>1, ScopesTyped DEF Top
  <1>4. FramesMatchTries'
    <2>1. \A i \in 1..(n - 1) : (Armed(i)' <=> Armed(i)) /\ ctl'[i].prev = ctl[i].prev
      BY <1>2 DEF Stays
    <2>2. InnermostFrame(p, n - 1)'
      BY <1>1, <1>3, <2>1 DEF InnermostFrame
    <2>3. InnermostFrame(p, k)'
      <3>1. CASE k = n - 1
        BY <2>2, <3>1
      <3>2. CASE k = n
        <4>1. \A j \in 1..n : j \in 1..(n - 1) \/ j = n
          OBVIOUS
        <4>2. QED
          BY <1>2, <2>2, <3>2, <4>1 DEF InnermostFrame
      <3>3. QED
        BY <1>2, <3>1, <3>2
    <2>4. ASSUME NEW i \in 1..(n - 1), Armed(i) PROVE InnermostFrame(ctl[i].prev, i - 1)'
      <3>1. InnermostFrame(ctl[i].prev, i - 1)
        BY <1>1, <2>4 DEF StacksAgree, FramesMatchTries
      <3>2. \A j \in 1..(i - 1) : j \in 1..(n - 1)
        BY <1>1
      <3>3. QED
        BY <2>1, <3>1, <3>2 DEF InnermostFrame
    <2>5. \A i \in 1..k : Armed(i)' => InnermostFrame(ctl[i].prev, i - 1)'
      BY <1>2, <2>1, <2>4
    <2>6. InnermostFrame(exc, Len(ctl))'
      BY <1>2, <1>3, <2>3
    <2>7. QED
      BY <1>2, <2>5, <2>6 DEF FramesMatchTries
  <1>5. SlotsSeparate'
    <2>1. \A i \in 1..(n - 1) : (Armed(i)' <=> Armed(i)) /\ ctl'[i].own = ctl[i].own
      BY <1>2 DEF Stays
    <2>2. \A i \in 1..(n - 1) : ~Armed(i) => ctl[i].own = {}
      BY <1>1 DEF StacksAgree, SlotsSeparate
    <2>3. \A i, j \in 1..(n - 1) : i # j => ctl[i].own \intersect ctl[j].own = {}
      BY <1>1 DEF StacksAgree, SlotsSeparate
    <2>4. \A i \in 1..k : ~Armed(i)' => ctl'[i].own = {}
      BY <1>2, <2>1, <2>2
    <2>5. \A i, j \in 1..k : i # j => ctl'[i].own \intersect ctl'[j].own = {}
      BY <1>2, <2>1, <2>3
    <2>6. QED
      BY <1>2, <2>4, <2>5 DEF SlotsSeparate
  <1>6. built' = built
    <2>1. ASSUME NEW o \in built PROVE o \in Owned(ctl')
      <3>1. PICK h \in DOMAIN cleanup : cleanup[h] = o
        BY DEF StacksAgree, CleanupMatchesBuilt
      <3>2. PICK i \in 1..(n - 1) : o \in ctl[i].own
        BY <1>1, <3>1 DEF Guards
      <3>3. i \in DOMAIN ctl' /\ o \in ctl'[i].own
        BY <1>2, <3>2 DEF Stays
      <3>4. QED
        BY <3>3 DEF Owned
    <2>2. QED
      BY <2>1 DEF DropStorage
  <1>7. CtorsInTry'
    <2>1. ASSUME NEW f \in 1..(n - 1), ctl'[f].kind = "ctor"
          PROVE  /\ f > 1
                 /\ Armed(f - 1)'
                 /\ ctl'[f].obj \in ctl'[f - 1].own
                 /\ ctl'[f].obj \notin built'
      <3>1. Stays(f) /\ f \in DOMAIN ctl
        BY <1>1, <1>2
      <3>2. /\ f > 1 /\ Armed(f - 1) /\ ctl[f].obj \in ctl[f - 1].own
            /\ ctl[f].obj \notin built
        BY <2>1, <3>1 DEF Stays, StacksAgree, CtorsInTry
      <3>3. Stays(f - 1)
        BY <1>2, <3>2
      <3>4. QED
        BY <1>6, <3>1, <3>2, <3>3 DEF Stays
    <2>2. QED
      BY <1>2, <2>1 DEF CtorsInTry
  <1>8. MarksNested'
    <2>1. \A i \in 1..(n - 1) : (Armed(i)' <=> Armed(i)) /\ ctl'[i].mark = ctl[i].mark
      BY <1>2 DEF Stays
    <2>2. \A i \in 1..(n - 1) : Armed(i) =>
             /\ ctl[i].mark <= Len(cleanup)
             /\ \A j \in 1..(i - 1) : Armed(j) => ctl[j].mark <= ctl[i].mark
      BY <1>1 DEF StacksAgree, MarksNested
    <2>3. \A i \in 1..(n - 1) : \A j \in 1..(i - 1) : j \in 1..(n - 1)
      BY <1>1
    <2>4. \A i \in 1..k : Armed(i)' =>
             /\ ctl'[i].mark <= Len(cleanup)
             /\ \A j \in 1..(i - 1) : Armed(j)' => ctl'[j].mark <= ctl'[i].mark
      BY <1>2, <2>1, <2>2, <2>3
    <2>5. QED
      BY <1>2, <2>4 DEF MarksNested
  <1>9. CleanupMatchesBuilt'
    <2>1. ASSUME NEW h \in DOMAIN cleanup
          PROVE  \E i \in DOMAIN ctl' : Guards(i, h)'
      <3>1. PICK i \in 1..(n - 1) : Guards(i, h)
        BY <1>1
      <3>2. i \in DOMAIN ctl' /\ Stays(i)
        BY <1>2
      <3>3. \A j \in (i + 1)..k :
               (j \in (i + 1)..Len(ctl) /\ Stays(j)) \/ ~Armed(j)'
        <4>1. \A j \in (i + 1)..k : j \in 1..k
          OBVIOUS
        <4>2. \A j \in (i + 1)..k : j \in 1..(n - 1) => j \in (i + 1)..Len(ctl)
          BY <1>1
        <4>3. QED
          BY <1>2, <4>1, <4>2
      <3>4. QED
        BY <1>2, <3>1, <3>2, <3>3 DEF Stays, Guards
    <2>2. QED
      BY <1>6, <2>1 DEF StacksAgree, CleanupMatchesBuilt
  <1>10. QED
    BY <1>4, <1>5, <1>6, <1>7, <1>8, <1>9 DEF StacksAgree

\* Leaving a Try at the end of its body.
LEMMA LeaveTryAgrees ==
    ASSUME TypeOK, StacksAgree, LeaveTry
    PROVE  StacksAgree' /\ built' = built
  <1>1. PICK n \in Nat : n = Len(ctl) /\ n \in 1..n /\ n - 1 \in 0..Len(ctl) /\ exc = n
    <2>1. Len(ctl) \in DOMAIN ctl /\ exc = Len(ctl)
      BY RunToDoneFacts DEF LeaveTry
    <2>2. QED
      BY <2>1 DEF TypeOK
  <1>2. DisarmedTop(n, n - 1)
    <2>1. /\ Len(ctl') = n - 1
          /\ DOMAIN ctl' = 1..(n - 1)
          /\ \A i \in 1..(n - 1) : ctl'[i] = ctl[i]
      BY <1>1, CutStack DEF LeaveTry, Keep, TypeOK
    <2>2. QED
      BY <1>1, <2>1 DEF DisarmedTop, Stays, Armed
  <1>3. exc' = Top.prev
    BY <1>1 DEF LeaveTry, PopFrame
  <1>4. n - 1 \in Nat
    BY <1>1
  <1>5. QED
    BY <1>2, <1>3, <1>4, DisarmAgrees DEF LeaveTry

\* Starting the Catch body.
LEMMA EnterHandlerAgrees ==
    ASSUME TypeOK, StacksAgree, EnterHandler
    PROVE  StacksAgree' /\ built' = built
  <1>1. PICK n \in Nat : n = Len(ctl) /\ n \in 1..n /\ exc = n /\ DOMAIN ctl = 1..n
    <2>1. Len(ctl) \in DOMAIN ctl /\ exc = Len(ctl)
      BY RunToDoneFacts DEF EnterHandler
    <2>2. QED
      BY <2>1 DEF TypeOK
  <1>2. DisarmedTop(n, n)
    <2> DEFINE top == [Top EXCEPT !.phase = "handler", !.own = {}]
    <2>1. ctl \in Seq(ScopeType) /\ n \in 1..Len(ctl) /\ Top \in ScopeType /\ Top.kind = "try"
      BY <1>1 DEF EnterHandler, RunningTo, Top, TypeOK
    <2>2. /\ top \in ScopeType /\ top.kind = "try" /\ top.own = {}
          /\ top.phase = "handler"
      BY <2>1 DEF ScopeType, Phases
    <2>3. ctl' = [ctl EXCEPT ![n] = top]
      BY <1>1, <2>1 DEF EnterHandler, Top
    <2> HIDE DEF top
    <2>4. /\ Len(ctl') = n
          /\ DOMAIN ctl' = 1..n
          /\ ctl'[n] = top
          /\ \A i \in 1..n : i # n => ctl'[i] = ctl[i]
      BY <1>1, <2>1, <2>2, <2>3, ExceptSeq
    <2>5. \A i \in 1..(n - 1) : i \in 1..n /\ i # n
      BY <1>1
    <2>6. \A i \in 1..(n - 1) : Stays(i)
      BY <2>4, <2>5 DEF Stays, Armed
    <2>7. ~Armed(n)'
      BY <2>2, <2>4 DEF Armed
    <2>8. QED
      BY <1>1, <2>2, <2>4, <2>6, <2>7 DEF DisarmedTop
  <1>3. exc' = Top.prev
    BY <1>1 DEF EnterHandler, PopFrame
  <1>4. QED
    BY <1>1, <1>2, <1>3, DisarmAgrees DEF EnterHandler

\* A Throw to a Try keeps the stacks in agreement: what it abandons is armed
\* nowhere and holds nothing.
LEMMA ThrowCaughtAgrees ==
    ASSUME TypeOK, StacksAgree, ThrowCaught
    PROVE  StacksAgree' /\ built' = built
  <1>1. PICK n \in Nat : n = exc /\ n \in 1..Len(ctl) /\ n \in 0..Len(ctl)
    BY DEF ThrowCaught, FrameInScope, TypeOK
  <1>2. Armed(n) /\ \A j \in (n + 1)..Len(ctl) : ~Armed(j)
    BY <1>1 DEF StacksAgree, FramesMatchTries, InnermostFrame
  <1>3. UNION {ctl[j].own : j \in SameActivation(n)} = ctl[n].own
    <2>1. \A j \in SameActivation(n) : j = n \/ j \in (n + 1)..Len(ctl)
      BY <1>1 DEF SameActivation, TypeOK
    <2>2. \A j \in (n + 1)..Len(ctl) : ctl[j].own = {}
      BY <1>1, <1>2 DEF StacksAgree, SlotsSeparate, TypeOK
    <2>3. n \in SameActivation(n)
      BY <1>1 DEF SameActivation, TypeOK
    <2>4. QED
      BY <2>1, <2>2, <2>3
  <1>4. CutAt(n)
    <2> DEFINE low == Keep(n)
               top == [low[n] EXCEPT !.phase = "unwinding", !.own = ctl[n].own]
    <2>1. /\ low \in Seq(ScopeType) /\ Len(low) = n /\ DOMAIN low = 1..n
          /\ \A i \in 1..n : low[i] = ctl[i]
      BY <1>1, CutStack DEF Keep, TypeOK
    <2>2. ctl' = [low EXCEPT ![n] = top]
      BY <1>1, <1>3, <2>1 DEF ThrowCaught
    <2>3. low[n] \in ScopeType /\ low[n] = ctl[n] /\ n \in 1..n
      BY <1>1, <2>1 DEF TypeOK
    <2> HIDE DEF low
    <2>4. /\ top \in ScopeType
          /\ top.kind = ctl[n].kind /\ top.mark = ctl[n].mark
          /\ top.prev = ctl[n].prev /\ top.own = ctl[n].own
          /\ top.obj = ctl[n].obj /\ top.phase = "unwinding"
      BY <2>3 DEF ScopeType, Phases
    <2> HIDE DEF top
    <2>5. /\ Len(ctl') = n /\ DOMAIN ctl' = 1..n
          /\ ctl'[n] = top
          /\ \A i \in 1..n : i # n => ctl'[i] = ctl[i]
      BY <2>1, <2>2, <2>3, <2>4, ExceptSeq
    <2>6. Stays(n)
      BY <1>2, <2>4, <2>5 DEF Stays, Armed
    <2>7. \A i \in 1..n : Stays(i)
      BY <2>5, <2>6 DEF Stays, Armed
    <2>8. QED
      BY <1>2, <2>5, <2>7 DEF CutAt
  <1>5. QED
    BY <1>1, <1>4, CutAgrees DEF ThrowCaught

\* The body of a Try ends: its frame and its objects stay as they are.
LEMMA EndBodyAgrees ==
    ASSUME TypeOK, StacksAgree, EndBody
    PROVE  StacksAgree'
  <1>1. PICK n \in Nat : n = Len(ctl) /\ n \in 1..Len(ctl) /\ n \in 0..Len(ctl)
    BY DEF EndBody, Executing, TypeOK
  <1>2. CutAt(n)
    <2> DEFINE top == [ctl[n] EXCEPT !.phase = "ending"]
    <2>1. /\ ctl \in Seq(ScopeType) /\ ctl[n] \in ScopeType
          /\ ctl[n].kind = "try" /\ ctl[n].phase = "body"
      BY <1>1 DEF EndBody, Top, TypeOK
    <2>2. ctl' = [ctl EXCEPT ![n] = top]
      BY <1>1, <2>1 DEF EndBody
    <2>3. /\ top \in ScopeType
          /\ top.kind = ctl[n].kind /\ top.mark = ctl[n].mark
          /\ top.prev = ctl[n].prev /\ top.own = ctl[n].own
          /\ top.obj = ctl[n].obj /\ top.phase = "ending"
      BY <2>1 DEF ScopeType, Phases
    <2> HIDE DEF top
    <2>4. /\ Len(ctl') = n /\ DOMAIN ctl' = 1..n
          /\ ctl'[n] = top
          /\ \A i \in 1..n : i # n => ctl'[i] = ctl[i]
      BY <1>1, <2>1, <2>2, <2>3, ExceptSeq
    <2>5. Stays(n)
      BY <2>1, <2>3, <2>4 DEF Stays, Armed
    <2>6. \A i \in 1..n : Stays(i)
      BY <2>4, <2>5 DEF Stays, Armed
    <2>7. QED
      BY <1>1, <2>4, <2>6 DEF CutAt
  <1>3. exc' = exc /\ cleanup' = cleanup /\ built' = built
    BY DEF EndBody
  <1>4. DropStorage
    BY <1>1, <1>2, <1>3, CutKeepsBuilt DEF StacksAgree, DropStorage
  <1>5. QED
    BY <1>1, <1>2, <1>3, <1>4, CutAgrees

\* The object RunTo destroys is there and belongs to the Try that runs it.
LEMMA RunToStepFacts ==
    ASSUME TypeOK, StacksAgree, RunningTo, ~RunToDone
    PROVE  Victim \in built /\ Victim \in Top.own
  <1>1. PICK n \in Nat : n = Len(ctl) /\ DOMAIN ctl = 1..n
    BY DEF TypeOK
  <1>2. n \in 1..n /\ Armed(n) /\ Top = ctl[n]
    <2>1. ctl # <<>>
      BY DEF RunningTo, TypeOK
    <2>2. n \in 1..n
      BY <1>1, <2>1 DEF TypeOK
    <2>3. QED
      BY <1>1, <2>2 DEF RunningTo, Top, Armed
  <1>3. PICK m \in Nat : m = Len(cleanup) /\ DOMAIN cleanup = 1..m
    BY DEF TypeOK
  <1>4. m \in 1..m /\ ctl[n].mark < m
    <2>1. ctl[n].mark <= m /\ ctl[n].mark \in Nat
      BY <1>1, <1>2, <1>3, ScopesTyped DEF StacksAgree, MarksNested
    <2>2. m # ctl[n].mark /\ cleanup # <<>>
      BY <1>2, <1>3 DEF RunToDone
    <2>3. QED
      BY <2>1, <2>2
  <1>5. PICK i \in 1..n : Guards(i, m)
    BY <1>1, <1>3, <1>4 DEF StacksAgree, CleanupMatchesBuilt
  <1>6. i = n
    <2>1. i # n => n \in (i + 1)..Len(ctl)
      BY <1>1
    <2>2. i # n => m <= ctl[n].mark
      BY <1>2, <1>5, <2>1 DEF Guards
    <2>3. ctl[n].mark \in Nat
      BY <1>1, <1>2, ScopesTyped
    <2>4. QED
      BY <1>4, <2>2, <2>3
  <1>7. Victim = cleanup[m] /\ cleanup[m] \in built
    BY <1>3, <1>4 DEF Victim, StacksAgree, CleanupMatchesBuilt
  <1>8. QED
    BY <1>2, <1>5, <1>6, <1>7 DEF Guards

\* Taking an entry off and calling its destructor keeps the agreement.
LEMMA RunToStepAgrees ==
    ASSUME TypeOK, StacksAgree, RunToStep
    PROVE  StacksAgree'
  <1>1. PICK m \in Nat : m + 1 = Len(cleanup) /\ DOMAIN cleanup = 1..(m + 1)
    <2>1. Len(cleanup) \in Nat /\ Len(cleanup) # 0 /\ DOMAIN cleanup = 1..Len(cleanup)
      BY DEF RunToStep, RunToDone, TypeOK
    <2>2. Len(cleanup) - 1 \in Nat /\ (Len(cleanup) - 1) + 1 = Len(cleanup)
      BY <2>1
    <2>3. QED
      BY <2>1, <2>2, Zenon
  <1>2. /\ Len(cleanup') = m /\ DOMAIN cleanup' = 1..m
        /\ \A h \in 1..m : cleanup'[h] = cleanup[h]
    <2>1. cleanup' = SubSeq(cleanup, 1, m) /\ cleanup \in Seq(Objects) /\ m \in 0..Len(cleanup)
      BY <1>1 DEF RunToStep, TypeOK
    <2>2. QED
      BY <2>1, CutStack
  <1>3. built' = {cleanup[h] : h \in 1..m}
    <2>1. built = {cleanup[h] : h \in 1..(m + 1)}
      BY <1>1 DEF StacksAgree, CleanupMatchesBuilt
    <2>2. \A h \in 1..m : cleanup[h] # cleanup[m + 1]
      BY <1>1 DEF StacksAgree, CleanupMatchesBuilt
    <2>3. built' = built \ {cleanup[m + 1]}
      BY <1>1 DEF RunToStep, Victim
    <2>4. \A h \in 1..(m + 1) : h \in 1..m \/ h = m + 1
      OBVIOUS
    <2>5. QED
      BY <2>1, <2>2, <2>3, <2>4
  <1>4. \A i \in DOMAIN ctl : Armed(i) => ctl[i].mark <= m
    <2>1. PICK n \in Nat : n = Len(ctl) /\ DOMAIN ctl = 1..n
      BY DEF TypeOK
    <2>2. n \in 1..n /\ Armed(n) /\ Top = ctl[n]
      <3>1. ctl # <<>>
        BY DEF RunToStep, RunningTo, TypeOK
      <3>2. n \in 1..n
        BY <2>1, <3>1 DEF TypeOK
      <3>3. QED
        BY <2>1, <3>2 DEF RunToStep, RunningTo, Top, Armed
    <2>3. ctl[n].mark \in Nat /\ ctl[n].mark <= m
      <3>1. ctl[n].mark \in Nat /\ ctl[n].mark <= m + 1
        BY <1>1, <2>1, <2>2, ScopesTyped DEF StacksAgree, MarksNested
      <3>2. ctl[n].mark # m + 1
        BY <1>1, <2>2 DEF RunToStep, RunToDone
      <3>3. QED
        BY <3>1, <3>2
    <2>4. \A i \in 1..n : Armed(i) => ctl[i].mark <= ctl[n].mark
      <3>1. \A i \in 1..n : i = n \/ i \in 1..(n - 1)
        BY <2>2
      <3>2. QED
        BY <2>1, <2>2, <2>3, <3>1 DEF StacksAgree, MarksNested
    <2>5. \A i \in 1..n : ctl[i].mark \in Nat
      BY <2>1, ScopesTyped
    <2>6. QED
      BY <2>1, <2>3, <2>4, <2>5
  <1>5. CleanupCutAt(m)
    BY <1>1, <1>2, <1>3, <1>4 DEF CleanupCutAt
  <1>6. Victim \in Objects
    BY <1>1 DEF Victim, TypeOK
  <1>7. Scope("dtor", Victim) \in ScopeType /\ Plain(Scope("dtor", Victim))
    BY <1>6, ScopeHasType DEF Plain, Scope, Kinds, Callable
  <1>8. OpenedScope(Scope("dtor", Victim))
    BY <1>7, AppendOpens DEF RunToStep
  <1>9. exc' = exc
    BY DEF RunToStep
  <1>10. QED
    BY <1>5, <1>7, <1>8, <1>9, OpenAgrees

\* A step that touches none of the stacks keeps the agreement.
LEMMA UnchangedAgrees ==
    ASSUME StacksAgree, UNCHANGED <<ctl, exc, cleanup, built>>
    PROVE  StacksAgree'
  BY DEF StacksAgree, FramesMatchTries, InnermostFrame, CleanupMatchesBuilt, Guards,
         MarksNested, SlotsSeparate, CtorsInTry, Armed

\* Leaving scopes that hold no armed Try, in the form the actions have it.
LEMMA LeaveAgrees ==
    ASSUME TypeOK, StacksAgree, ~EarlyExit, NEW f \in DOMAIN ctl, MayLeave(f),
           ctl' = Keep(f - 1), exc' = exc, cleanup' = cleanup, DropStorage
    PROVE  StacksAgree' /\ built' = built
  <1>1. f - 1 \in 0..Len(ctl) /\ (f - 1) + 1 = f
    BY DEF TypeOK
  <1>2. \A j \in f..Len(ctl) : ~Armed(j)
    BY DEF MayLeave
  <1>3. CutAt(f - 1)
    BY <1>1, <1>2, KeepCuts
  <1>4. QED
    BY <1>1, <1>3, CutAgrees

\* No step of a disciplined program breaks the agreement or is undefined, and
\* none but RunTo's makes an object disappear.
LEMMA DisciplinedStep ==
    ASSUME ~EarlyExit, ~LocalsAnywhere,
           TypeOK, StacksAgree, NeverUndefined, [Next]_vars
    PROVE  /\ StacksAgree'
           /\ NeverUndefined'
           /\ RunToStep \/ built \subseteq built'
  <1>1. CASE Call
    <2>1. Scope("fn", NoObj) \in ScopeType /\ Plain(Scope("fn", NoObj))
      BY ScopeHasType DEF Plain, Scope, Kinds, Callable
    <2>2. OpenedScope(Scope("fn", NoObj))
      BY <1>1, <2>1, AppendOpens DEF Call
    <2>3. Len(cleanup) \in Nat /\ CleanupCutAt(Len(cleanup))
      BY <1>1, CleanupUncut DEF Call
    <2>4. StacksAgree'
      BY <1>1, <2>1, <2>2, <2>3, OpenAgrees DEF Call
    <2>5. QED
      BY <1>1, <2>4 DEF Call, NeverUndefined
  <1>2. CASE OpenBlock
    <2>1. Scope("block", NoObj) \in ScopeType /\ Plain(Scope("block", NoObj))
      BY ScopeHasType DEF Plain, Scope, Kinds, Callable
    <2>2. OpenedScope(Scope("block", NoObj))
      BY <1>2, <2>1, AppendOpens DEF OpenBlock
    <2>3. Len(cleanup) \in Nat /\ CleanupCutAt(Len(cleanup))
      BY <1>2, CleanupUncut DEF OpenBlock
    <2>4. StacksAgree'
      BY <1>2, <2>1, <2>2, <2>3, OpenAgrees DEF OpenBlock
    <2>5. QED
      BY <1>2, <2>4 DEF OpenBlock, NeverUndefined
  <1>3. CASE EnterTry
    BY <1>3, EnterTryAgrees DEF EnterTry, NeverUndefined
  <1>4. ASSUME NEW o \in Objects, Construct(o)
        PROVE  StacksAgree' /\ NeverUndefined' /\ built' = built
    BY <1>4, ConstructAgrees DEF Construct, NeverUndefined
  <1>5. CASE LeaveBlock
    BY <1>5, LeaveAgrees DEF LeaveBlock, NeverUndefined
  <1>6. CASE Return
    <2>1. status' # "undefined"
      BY <1>6 DEF Return
    <2>2. QED
      BY <1>6, <2>1, LeaveAgrees DEF Return, NeverUndefined
  <1>7. CASE ReturnCtor
    <2>1. built \subseteq built'
      <3>1. PICK f \in DOMAIN ctl :
               /\ ctl[f].kind = "ctor" /\ MayLeave(f) /\ ctl' = Keep(f - 1)
               /\ built' = (built \intersect Owned(ctl')) \union {ctl[f].obj}
        BY <1>7 DEF ReturnCtor
      <3>2. f - 1 \in 0..Len(ctl) /\ (f - 1) + 1 = f
        BY DEF TypeOK
      <3>3. CutAt(f - 1)
        BY <3>1, <3>2, KeepCuts DEF MayLeave
      <3>4. QED
        BY <3>1, <3>2, <3>3, CutKeepsBuilt DEF StacksAgree
    <2>2. QED
      BY <1>7, <2>1, ReturnCtorAgrees DEF ReturnCtor, NeverUndefined
  <1>8. CASE PushFails
    BY <1>8, UnchangedAgrees DEF PushFails, NeverUndefined
  <1>9. CASE ReturnDtor
    BY <1>9, LeaveAgrees DEF ReturnDtor, NeverUndefined
  <1>10. CASE EndBody
    BY <1>10, EndBodyAgrees DEF EndBody, NeverUndefined
  <1>11. CASE EndHandler
    <2>1. Len(ctl) \in DOMAIN ctl
      BY <1>11 DEF EndHandler, Executing, TypeOK
    <2>2. \A j \in Len(ctl)..Len(ctl) : j = Len(ctl)
      BY DEF TypeOK
    <2>3. MayLeave(Len(ctl))
      BY <1>11, <2>2 DEF EndHandler, Top, MayLeave, Armed
    <2>4. QED
      BY <1>11, <2>1, <2>3, LeaveAgrees DEF EndHandler, NeverUndefined
  <1>12. CASE ThrowUnhandled
    BY <1>12, UnchangedAgrees DEF ThrowUnhandled, NeverUndefined
  <1>13. CASE ThrowCaught
    BY <1>13, ThrowCaughtAgrees DEF ThrowCaught, NeverUndefined
  <1>14. CASE ThrowDangling
    <2>1. exc \in DOMAIN ctl /\ Armed(exc)
      BY <1>14 DEF ThrowDangling, StacksAgree, FramesMatchTries, InnermostFrame, TypeOK
    <2>2. QED
      BY <1>14, <2>1 DEF ThrowDangling, FrameInScope, Armed
  <1>15. CASE RunToStep
    BY <1>15, RunToStepAgrees DEF RunToStep, NeverUndefined
  <1>16. CASE RunToDangling
    BY <1>16, RunToStepFacts DEF RunToDangling
  <1>17. CASE LeaveTry
    BY <1>17, LeaveTryAgrees DEF LeaveTry, NeverUndefined
  <1>18. CASE EnterHandler
    BY <1>18, EnterHandlerAgrees DEF EnterHandler, NeverUndefined
  <1>19. CASE UNCHANGED vars
    BY <1>19, UnchangedAgrees DEF vars, NeverUndefined
  <1>20. QED
    BY <1>1, <1>2, <1>3, <1>4, <1>5, <1>6, <1>7, <1>8, <1>9, <1>10, <1>11,
       <1>12, <1>13, <1>14, <1>15, <1>16, <1>17, <1>18, <1>19 DEF Next

\* The stacks agree when main starts.
LEMMA InitAgrees == Init => StacksAgree /\ NeverUndefined
  <1> SUFFICES ASSUME Init PROVE StacksAgree /\ NeverUndefined
    OBVIOUS
  <1>1. Len(ctl) = 1 /\ DOMAIN ctl = 1..1 /\ ctl[1] = Scope("fn", NoObj)
    BY DEF Init
  <1>2. \A i \in DOMAIN ctl : ~Armed(i) /\ ctl[i].own = {} /\ ctl[i].kind = "fn"
    BY <1>1 DEF Armed, Scope
  <1>3. \A i, j \in DOMAIN ctl : i = j
    BY <1>1
  <1>4. exc = 0 /\ cleanup = <<>> /\ built = {} /\ status = "running" /\ DOMAIN cleanup = {}
    BY DEF Init
  <1>5. FramesMatchTries /\ MarksNested /\ CtorsInTry
    BY <1>1, <1>2, <1>4 DEF FramesMatchTries, InnermostFrame, MarksNested, CtorsInTry
  <1>6. SlotsSeparate
    BY <1>2, <1>3 DEF SlotsSeparate
  <1>7. CleanupMatchesBuilt
    BY <1>4 DEF CleanupMatchesBuilt
  <1>8. QED
    BY <1>4, <1>5, <1>6, <1>7 DEF StacksAgree, NeverUndefined

\* In a program that declares its class objects in Try bodies and leaves them
\* at the end or by Throw, the exception stack, the cleanup stack and the C
\* stack agree, and no longjmp or destructor call is undefined.
THEOREM DisciplinedSafety ==
    ASSUME ~EarlyExit, ~LocalsAnywhere
    PROVE  Spec => [](StacksAgree /\ NeverUndefined)
  <1>1. Init => StacksAgree /\ NeverUndefined
    BY InitAgrees
  <1>2. TypeOK /\ StacksAgree /\ NeverUndefined /\ [Next]_vars
           => (StacksAgree /\ NeverUndefined)'
    BY DisciplinedStep
  <1>3. QED
    BY <1>1, <1>2, TypeCorrect, PTL DEF Spec

\* No longjmp and no destructor call of a disciplined program is undefined.
THEOREM DisciplinedNeverUndefined ==
    ASSUME ~EarlyExit, ~LocalsAnywhere
    PROVE  Spec => []NeverUndefined
  BY DisciplinedSafety, PTL

\* In such a program an object never loses its storage before its destructor
\* was called.
THEOREM DisciplinedNoLostDestructor ==
    ASSUME ~EarlyExit, ~LocalsAnywhere
    PROVE  Spec => NoLostDestructor
  <1>1. TypeOK /\ StacksAgree /\ NeverUndefined /\ [Next]_vars
           => [\A o \in built \ built' : Destroys(o)]_vars
    BY DisciplinedStep DEF Destroys, RunToStep
  <1>2. QED
    BY <1>1, TypeCorrect, DisciplinedSafety, PTL DEF Spec, NoLostDestructor

\* And RunTo destroys no object but its own Try's.
THEOREM DisciplinedOnlyOwnDestroyed ==
    ASSUME ~EarlyExit, ~LocalsAnywhere
    PROVE  Spec => OnlyOwnDestroyed
  <1>1. TypeOK /\ StacksAgree /\ NeverUndefined /\ [Next]_vars
           => [\A o \in built \ built' : o \in Top.own]_vars
    BY DisciplinedStep, RunToStepFacts DEF RunToStep
  <1>2. QED
    BY <1>1, TypeCorrect, DisciplinedSafety, PTL DEF Spec, OnlyOwnDestroyed

-----------------------------------------------------------------------------
(* What a step of any program leaves of the C stack.                       *)

\* The first n scopes are what they were, up to the objects they own, and at
\* most one scope is left, or new, above them.
SameBelow(n) ==
    /\ 1..n \subseteq DOMAIN ctl'
    /\ DOMAIN ctl' \subseteq 1..(n + 1)
    /\ \A i \in 1..n :
          /\ ctl'[i].kind = ctl[i].kind
          /\ ctl'[i].phase = ctl[i].phase
          /\ ctl'[i].mark = ctl[i].mark

\* Opening a scope keeps all the others.
LEMMA AppendKeeps ==
    ASSUME TypeOK, NEW sc \in ScopeType, ctl' = Append(ctl, sc)
    PROVE  /\ SameBelow(Len(ctl))
           /\ DOMAIN ctl' = 1..(Len(ctl) + 1)
           /\ ctl'[Len(ctl) + 1] = sc
  <1>1. Len(ctl) \in Nat /\ ctl \in Seq(ScopeType)
    BY DEF TypeOK
  <1>2. /\ Len(ctl') = Len(ctl) + 1
        /\ DOMAIN ctl' = 1..(Len(ctl) + 1)
        /\ \A i \in 1..Len(ctl) : ctl'[i] = ctl[i]
        /\ ctl'[Len(ctl) + 1] = sc
    BY <1>1, AppendProperties
  <1>3. QED
    BY <1>1, <1>2 DEF SameBelow

\* Cutting the stack back keeps what is left.
LEMMA CutKeeps ==
    ASSUME TypeOK, NEW f \in DOMAIN ctl, ctl' = Keep(f - 1)
    PROVE  f - 1 \in 0..Len(ctl) /\ SameBelow(f - 1) /\ DOMAIN ctl' = 1..(f - 1)
  <1>1. f - 1 \in 0..Len(ctl) /\ ctl \in Seq(ScopeType)
    BY DEF TypeOK
  <1>2. DOMAIN ctl' = 1..(f - 1) /\ \A i \in 1..(f - 1) : ctl'[i] = ctl[i]
    BY <1>1, CutStack DEF Keep
  <1>3. QED
    BY <1>1, <1>2 DEF SameBelow

\* Changing the scope on top keeps those below it.
LEMMA TopKeeps ==
    ASSUME TypeOK, ctl # <<>>, NEW top, ctl' = [ctl EXCEPT ![Len(ctl)] = top]
    PROVE  /\ Len(ctl) - 1 \in 0..Len(ctl) /\ Len(ctl) \in DOMAIN ctl
           /\ SameBelow(Len(ctl) - 1)
           /\ DOMAIN ctl' = DOMAIN ctl
           /\ ctl'[Len(ctl)] = top
  <1>1. Len(ctl) \in Nat /\ Len(ctl) # 0 /\ DOMAIN ctl = 1..Len(ctl)
    BY DEF TypeOK
  <1>2. Len(ctl) \in DOMAIN ctl /\ Len(ctl) - 1 \in 0..Len(ctl) /\ (Len(ctl) - 1) + 1 = Len(ctl)
    BY <1>1
  <1>3. \A i \in 1..(Len(ctl) - 1) : i \in DOMAIN ctl /\ i # Len(ctl)
    <2>1. PICK n \in Nat : n = Len(ctl) /\ DOMAIN ctl = 1..n
      BY <1>1
    <2>2. \A i \in 1..(n - 1) : i \in 1..n /\ i # n
      BY <2>1
    <2>3. QED
      BY <2>1, <2>2
  <1>4. DOMAIN ctl' = DOMAIN ctl /\ ctl'[Len(ctl)] = top
    BY <1>2
  <1>5. \A i \in 1..(Len(ctl) - 1) : ctl'[i] = ctl[i]
    BY <1>3
  <1>6. QED
    BY <1>1, <1>2, <1>3, <1>4, <1>5 DEF SameBelow

\* Declaring an object keeps all scopes, and opens its constructor's.
LEMMA ConstructKeeps ==
    ASSUME TypeOK, NEW o \in Objects, Construct(o)
    PROVE  /\ SameBelow(Len(ctl))
           /\ DOMAIN ctl' = 1..(Len(ctl) + 1)
           /\ ctl'[Len(ctl) + 1] = Scope("ctor", o)
  <1> DEFINE mid == [ctl EXCEPT ![Len(ctl)].own = @ \union {o}]
             callee == Scope("ctor", o)
  <1>0. Len(ctl) \in Nat /\ DOMAIN ctl = 1..Len(ctl)
    BY DEF TypeOK
  <1>1. mid \in Seq(ScopeType) /\ Len(mid) = Len(ctl)
    <2>1. Len(ctl) \in DOMAIN ctl /\ ctl[Len(ctl)] \in ScopeType
      BY DEF Construct, Executing, TypeOK
    <2>2. [ctl[Len(ctl)] EXCEPT !.own = @ \union {o}] \in ScopeType
      BY <2>1 DEF ScopeType
    <2>3. mid = [ctl EXCEPT ![Len(ctl)] = [ctl[Len(ctl)] EXCEPT !.own = @ \union {o}]]
      BY <2>1
    <2>4. QED
      BY <2>1, <2>2, <2>3, ExceptSeq DEF TypeOK
  <1>2. \A i \in 1..Len(ctl) : /\ mid[i].kind = ctl[i].kind
                               /\ mid[i].phase = ctl[i].phase
                               /\ mid[i].mark = ctl[i].mark
    BY <1>0 DEF TypeOK, ScopeType
  <1>3. callee \in ScopeType
    BY ScopeHasType DEF Kinds, Callable
  <1>4. ctl' = Append(mid, callee)
    BY DEF Construct
  <1> HIDE DEF mid, callee
  <1>5. /\ DOMAIN ctl' = 1..(Len(ctl) + 1)
        /\ \A i \in 1..Len(ctl) : ctl'[i] = mid[i]
        /\ ctl'[Len(ctl) + 1] = callee
    BY <1>1, <1>3, <1>4, AppendProperties
  <1>6. QED
    BY <1>0, <1>2, <1>5 DEF SameBelow, callee

\* A caught Throw keeps what is below the Try that catches it.
LEMMA ThrowKeeps ==
    ASSUME TypeOK, ThrowCaught
    PROVE  /\ exc \in DOMAIN ctl /\ ctl[exc].kind = "try"
           /\ exc - 1 \in 0..Len(ctl) /\ (exc - 1) + 1 = exc
           /\ SameBelow(exc - 1)
           /\ DOMAIN ctl' = 1..exc
           /\ ctl'[exc].kind = "try" /\ ctl'[exc].phase = "unwinding"
           /\ ctl'[exc].mark = ctl[exc].mark
  <1>1. /\ exc \in DOMAIN ctl /\ exc \in 1..Len(ctl) /\ exc \in 0..Len(ctl)
        /\ ctl[exc].kind = "try" /\ exc \in Nat /\ Len(ctl) \in Nat
    BY DEF ThrowCaught, FrameInScope, TypeOK
  <1> DEFINE low == Keep(exc)
             own == UNION {ctl[j].own : j \in SameActivation(exc)}
  <1>2. /\ low \in Seq(ScopeType) /\ Len(low) = exc /\ DOMAIN low = 1..exc
        /\ \A i \in 1..exc : low[i] = ctl[i]
    BY <1>1, CutStack DEF Keep, TypeOK
  <1>3. ctl' = [low EXCEPT ![exc].phase = "unwinding", ![exc].own = own]
    BY DEF ThrowCaught
  <1> HIDE DEF low, own
  <1>4. DOMAIN ctl' = 1..exc /\ \A i \in 1..exc : i # exc => ctl'[i] = low[i]
    BY <1>2, <1>3
  <1>5. low[exc] \in ScopeType
    BY <1>1, <1>2 DEF TypeOK
  <1>6. /\ ctl'[exc].kind = low[exc].kind /\ ctl'[exc].phase = "unwinding"
        /\ ctl'[exc].mark = low[exc].mark
    BY <1>1, <1>2, <1>3, <1>5 DEF ScopeType
  <1>7. exc - 1 \in 0..Len(ctl) /\ (exc - 1) + 1 = exc
    BY <1>1
  <1>8. \A i \in 1..(exc - 1) : i \in 1..exc /\ i # exc
    BY <1>1
  <1>9. \A i \in 1..(exc - 1) : ctl'[i] = ctl[i]
    BY <1>2, <1>4, <1>8
  <1>10. SameBelow(exc - 1)
    BY <1>4, <1>7, <1>8, <1>9 DEF SameBelow
  <1>11. QED
    BY <1>1, <1>2, <1>4, <1>6, <1>7, <1>10

-----------------------------------------------------------------------------
(* Any program: one that leaves Trys by Return, Break or Continue, or      *)
(* declares class objects anywhere.                                        *)

\* The marks of all Trys there are, armed or in a Catch, rise with their
\* nesting, up to the top of the cleanup stack: MarksReachable alone is not
\* inductive, because the end of an inner Try's RunTo is only above the marks
\* of the outer ones when the marks are in order.
AllMarksNested ==
    \A i \in DOMAIN ctl : ctl[i].kind = "try" =>
        /\ ctl[i].mark <= Len(cleanup)
        /\ \A j \in 1..(i - 1) : ctl[j].kind = "try" => ctl[j].mark <= ctl[i].mark

\* A scope at position n + 1, if there is one, is no Try, or a new one with its
\* mark on top of the cleanup stack, or the Try that was there.
FitsAbove(n) ==
    n + 1 \in DOMAIN ctl' /\ ctl'[n + 1].kind = "try" =>
        \/ ctl'[n + 1].mark = Len(cleanup')
        \/ /\ n + 1 \in DOMAIN ctl /\ ctl[n + 1].kind = "try"
           /\ ctl'[n + 1].mark = ctl[n + 1].mark

\* The marks stay in order when no entry below one of them is taken off.
LEMMA MarksStayNested ==
    ASSUME TypeOK, AllMarksNested, NEW n \in 0..Len(ctl), SameBelow(n), FitsAbove(n),
           Len(cleanup') \in Nat,
           \A i \in DOMAIN ctl : ctl[i].kind = "try" => ctl[i].mark <= Len(cleanup')
    PROVE  AllMarksNested'
  <1>1. n \in Nat /\ 1..n \subseteq DOMAIN ctl
    <2>1. Len(ctl) \in Nat /\ DOMAIN ctl = 1..Len(ctl)
      BY ScopesTyped
    <2>2. QED
      BY <2>1
  <1>2. PICK m \in Nat : m = Len(cleanup')
    OBVIOUS
  <1>3. \A i \in DOMAIN ctl : ctl[i].mark \in Nat
    BY ScopesTyped
  <1>4. \A i \in 1..n : ctl'[i].kind = ctl[i].kind /\ ctl'[i].mark = ctl[i].mark
    BY DEF SameBelow
  <1>5. \A i \in DOMAIN ctl : ctl[i].kind = "try" =>
           /\ ctl[i].mark <= m
           /\ \A j \in 1..(i - 1) : ctl[j].kind = "try" => ctl[j].mark <= ctl[i].mark
    BY <1>2 DEF AllMarksNested
  <1>6. \A i \in 1..n : \A j \in 1..(i - 1) : j \in 1..n
    BY <1>1
  <1>7. ASSUME NEW i \in DOMAIN ctl', ctl'[i].kind = "try"
        PROVE  /\ ctl'[i].mark <= m
               /\ \A j \in 1..(i - 1) : ctl'[j].kind = "try" => ctl'[j].mark <= ctl'[i].mark
    <2>1. CASE i \in 1..n
      BY <1>1, <1>4, <1>5, <1>6, <1>7, <2>1
    <2>2. CASE i \notin 1..n
      <3>1. i = n + 1
        BY <1>1, <1>7, <2>2 DEF SameBelow
      <3>2. \A j \in 1..(i - 1) : j \in 1..n /\ j \in DOMAIN ctl
        BY <1>1, <3>1
      <3>3. CASE ctl'[i].mark = m
        BY <1>2, <1>4, <1>5, <3>2, <3>3
      <3>4. CASE i \in DOMAIN ctl /\ ctl[i].kind = "try" /\ ctl'[i].mark = ctl[i].mark
        BY <1>2, <1>4, <1>5, <3>2, <3>4
      <3>5. QED
        BY <1>2, <1>7, <3>1, <3>3, <3>4 DEF FitsAbove
    <2>3. QED
      BY <2>1, <2>2
  <1>8. QED
    BY <1>2, <1>7 DEF AllMarksNested

\* So they do when entries are left alone or added.
LEMMA MarksStayBelow ==
    ASSUME TypeOK, AllMarksNested, NEW n \in 0..Len(ctl), SameBelow(n), FitsAbove(n),
           cleanup' = cleanup \/ \E o \in Objects : cleanup' = Append(cleanup, o)
    PROVE  AllMarksNested'
  <1>1. Len(cleanup) \in Nat /\ Len(cleanup') \in Nat /\ Len(cleanup) <= Len(cleanup')
    BY DEF TypeOK
  <1>2. \A i \in DOMAIN ctl : ctl[i].kind = "try" => ctl[i].mark <= Len(cleanup')
    BY <1>1, ScopesTyped DEF AllMarksNested
  <1>3. QED
    BY <1>1, <1>2, MarksStayNested

\* No step of any program breaks the order of the marks.
LEMMA MarksStep ==
    ASSUME TypeOK, AllMarksNested, [Next]_vars
    PROVE  AllMarksNested'
  <1>0. PICK n \in Nat : n = Len(ctl) /\ DOMAIN ctl = 1..n /\ n \in 0..Len(ctl)
    BY DEF TypeOK
  <1>a. ASSUME NEW sc \in ScopeType, ctl' = Append(ctl, sc), cleanup' = cleanup,
               sc.kind = "try" => sc.mark = Len(cleanup)
        PROVE  AllMarksNested'
    <2>1. SameBelow(n) /\ ctl'[n + 1] = sc
      BY <1>0, <1>a, AppendKeeps
    <2>2. QED
      BY <1>0, <1>a, <2>1, MarksStayBelow DEF FitsAbove
  <1>b. ASSUME NEW f \in DOMAIN ctl, ctl' = Keep(f - 1),
               cleanup' = cleanup \/ \E o \in Objects : cleanup' = Append(cleanup, o)
        PROVE  AllMarksNested'
    <2>1. f - 1 \in 0..Len(ctl) /\ SameBelow(f - 1) /\ DOMAIN ctl' = 1..(f - 1)
      BY <1>b, CutKeeps
    <2>2. (f - 1) + 1 \notin DOMAIN ctl'
      BY <1>0, <2>1
    <2>3. QED
      BY <1>b, <2>1, <2>2, MarksStayBelow DEF FitsAbove
  <1>c. ASSUME UNCHANGED <<ctl, cleanup>> PROVE AllMarksNested'
    BY <1>c DEF AllMarksNested
  <1>d. ASSUME NEW top, status = "running", Top.kind = "try",
               ctl' = [ctl EXCEPT ![Len(ctl)] = top], top.mark = Top.mark, cleanup' = cleanup
        PROVE  AllMarksNested'
    <2>1. ctl # <<>> /\ Top = ctl[n]
      BY <1>0, <1>d DEF Top, TypeOK
    <2>2. n - 1 \in 0..Len(ctl) /\ n \in DOMAIN ctl /\ SameBelow(n - 1) /\ ctl'[n] = top
      BY <1>0, <1>d, <2>1, TopKeeps
    <2>3. (n - 1) + 1 = n
      BY <1>0
    <2>4. QED
      BY <1>d, <2>1, <2>2, <2>3, MarksStayBelow DEF FitsAbove
  <1>1. CASE Call
    <2>1. Scope("fn", NoObj) \in ScopeType /\ Scope("fn", NoObj).kind # "try"
      BY ScopeHasType DEF Scope, Kinds, Callable
    <2>2. QED
      BY <1>1, <1>a, <2>1 DEF Call
  <1>2. CASE OpenBlock
    <2>1. Scope("block", NoObj) \in ScopeType /\ Scope("block", NoObj).kind # "try"
      BY ScopeHasType DEF Scope, Kinds, Callable
    <2>2. QED
      BY <1>2, <1>a, <2>1 DEF OpenBlock
  <1>3. CASE EnterTry
    <2>1. TryScope \in ScopeType /\ TryScope.mark = Len(cleanup)
      BY DEF TypeOK, TryScope, ScopeType, Kinds, Phases, Callable
    <2>2. QED
      BY <1>3, <1>a, <2>1 DEF EnterTry
  <1>4. ASSUME NEW o \in Objects, Construct(o) PROVE AllMarksNested'
    <2>1. SameBelow(n) /\ ctl'[n + 1] = Scope("ctor", o)
      BY <1>0, <1>4, ConstructKeeps
    <2>2. FitsAbove(n) /\ cleanup' = cleanup
      BY <1>4, <2>1 DEF Scope, FitsAbove, Construct
    <2>3. QED
      BY <1>0, <2>1, <2>2, MarksStayBelow
  <1>5. CASE LeaveBlock
    BY <1>5, <1>b DEF LeaveBlock
  <1>6. CASE Return
    BY <1>6, <1>b DEF Return
  <1>7. CASE ReturnCtor
    <2>1. PICK f \in DOMAIN ctl : /\ ctl[f].kind = "ctor" /\ ctl' = Keep(f - 1)
                                  /\ cleanup' = Append(cleanup, ctl[f].obj)
      BY <1>7 DEF ReturnCtor
    <2>2. ctl[f].obj \in Objects
      BY <2>1 DEF TypeOK
    <2>3. QED
      BY <1>b, <2>1, <2>2
  <1>8. CASE PushFails
    BY <1>8, <1>c DEF PushFails
  <1>9. CASE ReturnDtor
    BY <1>9, <1>b DEF ReturnDtor
  <1>10. CASE EndBody
    <2>1. Top \in ScopeType /\ ctl' = [ctl EXCEPT ![Len(ctl)] = [Top EXCEPT !.phase = "ending"]]
      BY <1>10 DEF EndBody, Executing, Top, TypeOK
    <2>2. QED
      BY <1>10, <1>d, <2>1 DEF EndBody, Executing, ScopeType
  <1>11. CASE EndHandler
    <2>1. Len(ctl) \in DOMAIN ctl
      BY <1>11 DEF EndHandler, Executing, TypeOK
    <2>2. QED
      BY <1>11, <1>b, <2>1 DEF EndHandler
  <1>12. CASE ThrowUnhandled
    BY <1>12, <1>c DEF ThrowUnhandled
  <1>13. CASE ThrowCaught
    <2>1. /\ exc \in DOMAIN ctl /\ ctl[exc].kind = "try" /\ exc - 1 \in 0..Len(ctl)
          /\ (exc - 1) + 1 = exc /\ SameBelow(exc - 1)
          /\ ctl'[exc].mark = ctl[exc].mark
      BY <1>13, ThrowKeeps
    <2>2. cleanup' = cleanup
      BY <1>13 DEF ThrowCaught
    <2>3. QED
      BY <2>1, <2>2, MarksStayBelow DEF FitsAbove
  <1>14. CASE ThrowDangling
    BY <1>14, <1>c DEF ThrowDangling
  <1>15. CASE RunToStep
    <2>1. /\ n \in DOMAIN ctl /\ ctl[n].kind = "try"
          /\ cleanup # <<>> /\ Len(cleanup) # ctl[n].mark
      BY <1>0, <1>15 DEF RunToStep, RunningTo, RunToDone, Top, TypeOK
    <2>2. /\ ctl[n].mark <= Len(cleanup)
          /\ \A j \in 1..(n - 1) : ctl[j].kind = "try" => ctl[j].mark <= ctl[n].mark
      BY <2>1 DEF AllMarksNested
    <2>3. /\ Len(cleanup) \in Nat /\ Len(cleanup') = Len(cleanup) - 1
          /\ Len(cleanup') \in Nat
      <3>1. cleanup \in Seq(Objects) /\ Len(cleanup) \in Nat /\ Len(cleanup) # 0
        BY <2>1, EmptySeq DEF TypeOK
      <3>2. Len(cleanup) - 1 \in 0..Len(cleanup) /\ Len(cleanup) - 1 \in Nat
        BY <3>1
      <3>3. Len(SubSeq(cleanup, 1, Len(cleanup) - 1)) = Len(cleanup) - 1
        BY <3>1, <3>2, CutStack
      <3>4. QED
        BY <1>15, <3>1, <3>2, <3>3 DEF RunToStep
    <2>4. \A i \in DOMAIN ctl : ctl[i].kind = "try" => ctl[i].mark <= Len(cleanup')
      <3>1. \A i \in DOMAIN ctl : ctl[i].mark \in Nat
        BY ScopesTyped
      <3>2. ctl[n].mark <= Len(cleanup')
        BY <2>1, <2>2, <2>3, <3>1
      <3>3. \A i \in 1..n : i = n \/ i \in 1..(n - 1)
        BY <1>0
      <3>4. QED
        BY <1>0, <2>1, <2>2, <2>3, <3>1, <3>2, <3>3
    <2>5. Victim \in Objects
      BY <2>1 DEF Victim, TypeOK
    <2>6. Scope("dtor", Victim) \in ScopeType /\ Scope("dtor", Victim).kind # "try"
      BY <2>5, ScopeHasType DEF Scope, Kinds, Callable
    <2>7. SameBelow(n) /\ ctl'[n + 1] = Scope("dtor", Victim)
      BY <1>0, <1>15, <2>6, AppendKeeps DEF RunToStep
    <2>8. FitsAbove(n)
      BY <2>6, <2>7 DEF FitsAbove
    <2>9. QED
      BY <1>0, <2>3, <2>4, <2>7, <2>8, MarksStayNested
  <1>16. CASE RunToDangling
    BY <1>16, <1>c DEF RunToDangling
  <1>17. CASE LeaveTry
    <2>1. Len(ctl) \in DOMAIN ctl
      BY <1>17 DEF LeaveTry, RunningTo, TypeOK
    <2>2. QED
      BY <1>17, <1>b, <2>1 DEF LeaveTry
  <1>18. CASE EnterHandler
    <2>1. Top \in ScopeType
      BY <1>18 DEF EnterHandler, RunningTo, Top, TypeOK
    <2>2. ctl' = [ctl EXCEPT ![Len(ctl)] = [Top EXCEPT !.phase = "handler", !.own = {}]]
      BY <1>18 DEF EnterHandler, Top
    <2>3. QED
      BY <1>18, <1>d, <2>1, <2>2 DEF EnterHandler, RunningTo, ScopeType
  <1>19. CASE UNCHANGED vars
    BY <1>19, <1>c DEF vars
  <1>20. QED
    BY <1>1, <1>2, <1>3, <1>4, <1>5, <1>6, <1>7, <1>8, <1>9, <1>10, <1>11,
       <1>12, <1>13, <1>14, <1>15, <1>16, <1>17, <1>18, <1>19 DEF Next

\* In every program, one that leaves Trys by Return or Break and declares its
\* class objects anywhere included, RunTo always has its mark below it on the
\* cleanup stack: its loop, which compares pointers, stops at it.
THEOREM MarksAlwaysReachable == Spec => []MarksReachable
  <1>1. Init => AllMarksNested
    BY DEF Init, AllMarksNested, Scope
  <1>2. TypeOK /\ AllMarksNested /\ [Next]_vars => AllMarksNested'
    BY MarksStep
  <1>3. AllMarksNested => MarksReachable
    BY DEF AllMarksNested, MarksReachable, Armed
  <1>4. QED
    BY <1>1, <1>2, <1>3, TypeCorrect, PTL DEF Spec

-----------------------------------------------------------------------------
(* The refinement of ScopedTry.                                            *)

\* A non-empty set of naturals has a least element.
LEMMA Least ==
    ASSUME NEW S \in SUBSET Nat, S # {}
    PROVE  \E e \in S : \A d \in S : e <= d
  <1> DEFINE less == {ss \in Nat \X Nat : ss[1] < ss[2]}
  <1>1. IsWellFoundedOn(less, Nat)
    BY NatLessThanWellFounded DEF OpToRel
  <1>2. PICK e \in S : \A d \in S : <<d, e>> \notin less
    <2> HIDE DEF less
    <2>1. QED
      BY <1>1, WFMin
  <1>3. ASSUME NEW d \in S PROVE e <= d
    <2>1. e \in Nat /\ d \in Nat /\ <<d, e>> \in Nat \X Nat
      OBVIOUS
    <2>2. ~(<<d, e>>[1] < <<d, e>>[2])
      BY <1>2, <2>1
    <2>3. QED
      BY <2>1, <2>2
  <1>4. QED
    BY <1>3

\* LastEntry picks it.
LEMMA LeastIs ==
    ASSUME NEW S \in SUBSET Nat, NEW e \in S, \A d \in S : e <= d
    PROVE  (CHOOSE x \in S : \A d \in S : x <= d) = e
  <1>1. \A x \in S : (\A d \in S : x <= d) => x = e
    <2>1. ASSUME NEW x \in S, \A d \in S : x <= d PROVE x = e
      <3>1. x <= e /\ e <= x /\ x \in Nat /\ e \in Nat
        BY <2>1
      <3>2. QED
        BY <3>1
    <2>2. QED
      BY <2>1
  <1>2. QED
    BY <1>1

\* Stretches of two sequences that agree up to e are the same up to e.
LEMMA SameStretch ==
    ASSUME NEW S, NEW s \in Seq(S), NEW u \in Seq(S), NEW a \in Nat \ {0},
           NEW e \in Nat, e <= Len(s), e <= Len(u), \A k \in 1..e : s[k] = u[k]
    PROVE  SubSeq(s, a, e) = SubSeq(u, a, e)
  <1>1. CASE e < a
    BY <1>1, SubSeqEmpty
  <1>2. CASE a <= e
    <2>1. \A k \in a..e : k \in 1..e /\ k \in 1..Len(s) /\ k \in 1..Len(u)
      OBVIOUS
    <2>2. \A k \in a..e : s[k] \in S /\ u[k] \in S /\ s[k] = u[k]
      BY <2>1
    <2> DEFINE v == SubSeq(s, a, e)
               w == SubSeq(u, a, e)
    <2>3. /\ v \in Seq(S) /\ Len(v) = e - a + 1
          /\ \A k \in 1..(e - a + 1) : v[k] = s[a + k - 1]
      BY <1>2, <2>2, SubSeqProperties
    <2>4. /\ w \in Seq(S) /\ Len(w) = e - a + 1
          /\ \A k \in 1..(e - a + 1) : w[k] = u[a + k - 1]
      BY <1>2, <2>2, SubSeqProperties
    <2> HIDE DEF v, w
    <2>5. \A k \in 1..(e - a + 1) : a + k - 1 \in a..e
      OBVIOUS
    <2>6. \A k \in 1..Len(v) : v[k] = w[k]
      BY <2>2, <2>3, <2>4, <2>5
    <2>7. v = w
      BY <2>3, <2>4, <2>6, SeqEqual
    <2>8. QED
      BY <2>7 DEF v, w
  <1>3. QED
    BY <1>1, <1>2

\* The end of a sequence that grows grows with it.
LEMMA StretchAppend ==
    ASSUME NEW S, NEW s \in Seq(S), NEW o \in S, NEW a \in 1..(Len(s) + 1)
    PROVE  /\ SubSeq(s, a, Len(s)) \in Seq(S)
           /\ SubSeq(Append(s, o), a, Len(s) + 1) = Append(SubSeq(s, a, Len(s)), o)
  <1> DEFINE u == Append(s, o)
             v == SubSeq(s, a, Len(s))
             w == SubSeq(u, a, Len(s) + 1)
  <1>1. PICK n \in Nat : n = Len(s) /\ DOMAIN s = 1..n
    OBVIOUS
  <1>2. /\ u \in Seq(S) /\ Len(u) = n + 1
        /\ \A k \in 1..n : u[k] = s[k]
        /\ u[n + 1] = o
    BY <1>1, AppendProperties
  <1>3. /\ v \in Seq(S) /\ Len(v) = n - a + 1
        /\ \A k \in 1..(n - a + 1) : v[k] = s[a + k - 1]
    <2>1. \A k \in a..n : s[k] \in S
      BY <1>1
    <2>2. CASE a <= n
      BY <1>1, <2>1, <2>2, SubSeqProperties
    <2>3. CASE n < a
      <3>1. v = <<>> /\ n - a + 1 = 0
        BY <1>1, <2>3, SubSeqEmpty
      <3>2. QED
        BY <3>1
    <2>4. QED
      BY <1>1, <2>2, <2>3
  <1>4. /\ w \in Seq(S) /\ Len(w) = n - a + 2
        /\ \A k \in 1..(n - a + 2) : w[k] = u[a + k - 1]
    <2>1. \A k \in a..(n + 1) : k \in 1..Len(u)
      BY <1>1, <1>2
    <2>2. \A k \in a..(n + 1) : u[k] \in S
      BY <1>2, <2>1
    <2>3. a <= n + 1 /\ a \in Int /\ n + 1 \in Int /\ n + 1 - a + 1 = n - a + 2
      BY <1>1
    <2> HIDE DEF u
    <2>4. QED
      BY <1>1, <2>2, <2>3, SubSeqProperties
  <1> HIDE DEF u, v, w
  <1>5. /\ Append(v, o) \in Seq(S) /\ Len(Append(v, o)) = n - a + 2
        /\ \A k \in 1..(n - a + 1) : Append(v, o)[k] = v[k]
        /\ Append(v, o)[n - a + 2] = o
    <2>1. n - a + 1 + 1 = n - a + 2
      BY <1>1
    <2>2. QED
      BY <1>3, <2>1, AppendProperties
  <1>6. ASSUME NEW k \in 1..(n - a + 2) PROVE w[k] = Append(v, o)[k]
    <2>1. CASE k = n - a + 2
      <3>1. a + k - 1 = n + 1
        BY <1>1, <2>1
      <3>2. QED
        BY <1>2, <1>4, <1>5, <2>1, <3>1
    <2>2. CASE k # n - a + 2
      <3>1. k \in 1..(n - a + 1) /\ a + k - 1 \in 1..n
        BY <1>1, <2>2
      <3>2. QED
        BY <1>2, <1>3, <1>4, <1>5, <3>1
    <2>3. QED
      BY <2>1, <2>2
  <1>7. w = Append(v, o)
    BY <1>4, <1>5, <1>6, SeqEqual
  <1>8. QED
    BY <1>1, <1>3, <1>7 DEF u, v, w

\* What is armed outside of position n + 1 stays when only that position may
\* change, or what is gone above it was not armed.
LEMMA ArmedElsewhere ==
    ASSUME TypeOK, NEW n \in 0..Len(ctl), SameBelow(n),
           \A j \in (n + 2)..Len(ctl) : ~Armed(j)
    PROVE  /\ ArmedTrys' \ {n + 1} = ArmedTrys \ {n + 1}
           /\ \A i \in ArmedTrys \ {n + 1} :
                 ctl'[i].mark = ctl[i].mark /\ ctl'[i].phase = ctl[i].phase
  <1>1. Len(ctl) \in Nat /\ DOMAIN ctl = 1..Len(ctl) /\ n \in Nat /\ n <= Len(ctl)
    BY DEF TypeOK
  <1>2. \A i \in ArmedTrys \ {n + 1} : i \in 1..n
    BY <1>1 DEF ArmedTrys
  <1>3. \A i \in ArmedTrys' \ {n + 1} : i \in 1..n
    BY <1>1 DEF ArmedTrys, SameBelow
  <1>4. \A i \in 1..n : i \in ArmedTrys <=> i \in ArmedTrys'
    BY <1>1 DEF ArmedTrys, Armed, SameBelow
  <1>5. QED
    BY <1>2, <1>3, <1>4 DEF SameBelow

\* Marks of armed Trys are naturals, no higher than the cleanup stack, and
\* rise with their nesting.
LEMMA ArmedMarks ==
    ASSUME TypeOK, StacksAgree
    PROVE  /\ ArmedTrys \subseteq Nat
           /\ \A i \in ArmedTrys :
                 /\ ctl[i].mark \in Nat
                 /\ ctl[i].mark <= Len(cleanup)
                 /\ \A j \in ArmedTrys : j < i => ctl[j].mark <= ctl[i].mark
           /\ Len(cleanup) \in Nat
  <1>1. Len(ctl) \in Nat /\ DOMAIN ctl = 1..Len(ctl) /\ Len(cleanup) \in Nat
    BY DEF TypeOK
  <1>2. \A i \in ArmedTrys : i \in 1..Len(ctl) /\ Armed(i) /\ i \in DOMAIN ctl
    BY <1>1 DEF ArmedTrys
  <1>3. \A i \in ArmedTrys : ctl[i].mark \in Nat /\ i \in Nat
    BY <1>1, <1>2, ScopesTyped
  <1>4. ASSUME NEW i \in ArmedTrys
        PROVE  /\ ctl[i].mark <= Len(cleanup)
               /\ \A j \in ArmedTrys : j < i => ctl[j].mark <= ctl[i].mark
    <2>1. \A j \in ArmedTrys : j < i => j \in 1..(i - 1)
      BY <1>1, <1>2
    <2>2. QED
      BY <1>2, <2>1 DEF StacksAgree, MarksNested
  <1>5. QED
    BY <1>1, <1>3, <1>4

\* The entries of a region end at one of its ends, below all the others.
LEMMA LastEntryIs ==
    ASSUME TypeOK, StacksAgree, NEW i \in ArmedTrys
    PROVE  /\ Ends(i) \in SUBSET Nat
           /\ LastEntry(i) \in Ends(i)
           /\ \A d \in Ends(i) : LastEntry(i) <= d
           /\ LastEntry(i) \in Nat
           /\ LastEntry(i) <= Len(cleanup)
           /\ ctl[i].mark <= LastEntry(i)
  <1>1. Ends(i) \in SUBSET Nat /\ Ends(i) # {} /\ Len(cleanup) \in Ends(i)
    BY ArmedMarks DEF Ends
  <1>2. PICK e \in Ends(i) : \A d \in Ends(i) : e <= d
    BY <1>1, Least
  <1>3. LastEntry(i) = e
    BY <1>1, <1>2, LeastIs DEF LastEntry
  <1>4. \A d \in Ends(i) : ctl[i].mark <= d
    <2>1. \A k \in ArmedTrys : k > i => ctl[i].mark <= ctl[k].mark
      BY ArmedMarks
    <2>2. QED
      BY <2>1, ArmedMarks DEF Ends
  <1>5. QED
    BY <1>1, <1>2, <1>3, <1>4

\* A step that leaves the cleanup stack alone changes no region but the one
\* at position n + 1: when a Try is there, before or after, its mark is the
\* same or the top of the cleanup stack.
LEMMA OtherRegions ==
    ASSUME TypeOK, NEW n \in 0..Len(ctl), SameBelow(n), cleanup' = cleanup,
           \A j \in (n + 2)..Len(ctl) : ~Armed(j),
           n + 1 \in ArmedTrys =>
              \/ ctl[n + 1].mark = Len(cleanup)
              \/ n + 1 \in ArmedTrys' /\ ctl'[n + 1].mark = ctl[n + 1].mark,
           n + 1 \in ArmedTrys' =>
              \/ ctl'[n + 1].mark = Len(cleanup)
              \/ n + 1 \in ArmedTrys /\ ctl'[n + 1].mark = ctl[n + 1].mark
    PROVE  \A i \in ArmedTrys \ {n + 1} : i \in ArmedTrys' /\ Regions'[i] = Regions[i]
  <1>1. /\ ArmedTrys' \ {n + 1} = ArmedTrys \ {n + 1}
        /\ \A i \in ArmedTrys \ {n + 1} :
              ctl'[i].mark = ctl[i].mark /\ ctl'[i].phase = ctl[i].phase
    BY ArmedElsewhere
  <1>2. ASSUME NEW i \in ArmedTrys \ {n + 1} PROVE Ends(i)' = Ends(i)
    <2>1. ASSUME NEW e \in Ends(i) PROVE e \in Ends(i)'
      BY <1>1, <2>1 DEF Ends
    <2>2. ASSUME NEW e \in Ends(i)' PROVE e \in Ends(i)
      BY <1>1, <2>2 DEF Ends
    <2>3. QED
      BY <2>1, <2>2
  <1>3. ASSUME NEW i \in ArmedTrys \ {n + 1} PROVE LastEntry(i)' = LastEntry(i)
    BY <1>2 DEF LastEntry
  <1>4. QED
    BY <1>1, <1>3 DEF Regions

\* A step that changes the cleanup stack only above the mark of the innermost
\* Try t, and leaves all Trys alone, changes no region but the one of t, which
\* reaches to the top.
LEMMA InnermostRegion ==
    ASSUME TypeOK, StacksAgree, TypeOK', ArmedTrys' = ArmedTrys,
           \A i \in ArmedTrys : ctl'[i].mark = ctl[i].mark /\ ctl'[i].phase = ctl[i].phase,
           NEW t \in ArmedTrys, \A i \in ArmedTrys : i <= t,
           ctl[t].mark <= Len(cleanup'),
           \A h \in 1..ctl[t].mark : cleanup'[h] = cleanup[h]
    PROVE  /\ LastEntry(t) = Len(cleanup) /\ LastEntry(t)' = Len(cleanup')
           /\ \A i \in ArmedTrys : i # t => Regions'[i] = Regions[i]
  <1>1. /\ ArmedTrys \subseteq Nat /\ Len(cleanup) \in Nat /\ Len(cleanup') \in Nat
        /\ cleanup \in Seq(Objects) /\ cleanup' \in Seq(Objects)
    BY ArmedMarks DEF TypeOK
  <1>2. Ends(t) = {Len(cleanup)} /\ Ends(t)' = {Len(cleanup')}
    <2>1. ~ \E k \in ArmedTrys : k > t
      BY <1>1
    <2>2. QED
      BY <2>1 DEF Ends
  <1>3. LastEntry(t) = Len(cleanup) /\ LastEntry(t)' = Len(cleanup')
    <2>1. (CHOOSE e \in Ends(t) : \A d \in Ends(t) : e <= d) = Len(cleanup)
      BY <1>1, <1>2
    <2>2. (CHOOSE e \in Ends(t) : \A d \in Ends(t) : e <= d)' = Len(cleanup')
      BY <1>1, <1>2
    <2>3. QED
      BY <2>1, <2>2 DEF LastEntry
  <1>4. ASSUME NEW i \in ArmedTrys, i # t PROVE Regions'[i] = Regions[i]
    <2>1. PICK e \in Nat : e = LastEntry(i)
      BY LastEntryIs
    <2>2. e \in Ends(i) /\ \A d \in Ends(i) : e <= d
      BY <2>1, LastEntryIs
    <2>3. ctl[t].mark \in Ends(i) /\ ctl[t].mark \in Nat /\ ctl[t].mark <= Len(cleanup)
      <3>1. t > i
        BY <1>1, <1>4
      <3>2. QED
        BY <3>1, ArmedMarks DEF Ends
    <2>4. e <= ctl[t].mark
      BY <2>2, <2>3
    <2>5. ASSUME NEW d \in Ends(i)', d # Len(cleanup') PROVE d \in Ends(i)
      BY <2>5 DEF Ends
    <2>6. \A d \in Ends(i)' : e <= d
      <3>1. e <= Len(cleanup')
        BY <1>1, <2>3, <2>4
      <3>2. QED
        BY <2>2, <2>5, <3>1
    <2>7. e \in Ends(i)'
      <3>1. ASSUME NEW d \in Ends(i), d # Len(cleanup) PROVE d \in Ends(i)'
        BY <3>1 DEF Ends
      <3>2. ctl[t].mark \in Ends(i)'
        <4>1. t > i
          BY <1>1, <1>4
        <4>2. QED
          BY <4>1 DEF Ends
      <3>3. CASE e = Len(cleanup)
        BY <2>3, <2>4, <3>2, <3>3
      <3>4. QED
        BY <2>2, <3>1, <3>3
    <2>8. Ends(i)' \in SUBSET Nat
      <3>1. \A j \in ArmedTrys : ctl[j].mark \in Nat
        BY ArmedMarks
      <3>2. \A d \in Ends(i)' : d \in Nat
        BY <1>1, <3>1 DEF Ends
      <3>3. QED
        BY <3>2
    <2>9. LastEntry(i)' = e
      <3>1. (CHOOSE x \in Ends(i)' : \A d \in Ends(i)' : x <= d) = e
        BY <2>6, <2>7, <2>8, LeastIs
      <3>2. QED
        BY <3>1 DEF LastEntry
    <2>10. SubSeq(cleanup', ctl[i].mark + 1, e) = SubSeq(cleanup, ctl[i].mark + 1, e)
      <3>1. ctl[i].mark + 1 \in Nat \ {0} /\ e <= Len(cleanup) /\ e <= Len(cleanup')
        BY <1>1, <2>3, <2>4, ArmedMarks
      <3>2. \A k \in 1..e : k \in 1..ctl[t].mark
        BY <2>3, <2>4
      <3>3. \A k \in 1..e : cleanup'[k] = cleanup[k]
        BY <3>2
      <3>4. QED
        BY <1>1, <3>1, <3>3, SameStretch, ZenonT(60)
    <2>11. Regions[i] = [objs |-> SubSeq(cleanup, ctl[i].mark + 1, e),
                         closing |-> ctl[i].phase # "body"]
      BY <2>1 DEF Regions
    <2>12. Regions'[i] = [objs |-> SubSeq(cleanup', ctl'[i].mark + 1, LastEntry(i)'),
                          closing |-> ctl'[i].phase # "body"]
      BY DEF Regions
    <2>13. QED
      BY <2>9, <2>10, <2>11, <2>12
  <1>5. QED
    BY <1>3, <1>4

\* A region has two parts; replacing one keeps the other.
LEMMA RegionObjs ==
    ASSUME NEW r, NEW o, NEW c, r = [objs |-> o, closing |-> c], NEW q
    PROVE  [r EXCEPT !.objs = q] = [objs |-> q, closing |-> c]
  <1>1. r \in [objs : {o}, closing : {c}]
    OBVIOUS
  <1>2. [r EXCEPT !.objs = q] \in [objs : {q}, closing : {c}]
    BY <1>1
  <1>3. QED
    BY <1>2

LEMMA RegionClosing ==
    ASSUME NEW r, NEW o, NEW c, r = [objs |-> o, closing |-> c]
    PROVE  [r EXCEPT !.closing = TRUE] = [objs |-> o, closing |-> TRUE]
  <1>1. \A t : [r EXCEPT !.closing = t] = [objs |-> o, closing |-> t]
    <2>1. SUFFICES ASSUME NEW t
                   PROVE  [r EXCEPT !.closing = t] = [objs |-> o, closing |-> t]
      OBVIOUS
    <2>2. r \in [objs : {o}, closing : {c}]
      OBVIOUS
    <2>3. [r EXCEPT !.closing = t] \in [objs : {o}, closing : {t}]
      BY <2>2
    <2>4. QED
      BY <2>3
  <1>2. QED
    BY <1>1, Zenon

\* The step is one of ScopedTry, or changes nothing it can see.
AbstractStep == [Abstract!Next]_<<Regions, status>>

\* Opening or leaving scopes that are no armed Trys is no step of ScopedTry.
LEMMA QuietStep ==
    ASSUME TypeOK, NEW n \in 0..Len(ctl), SameBelow(n), cleanup' = cleanup,
           \A j \in (n + 1)..Len(ctl) : ~Armed(j),
           n + 1 \in DOMAIN ctl' => ~Armed(n + 1)'
    PROVE  Regions' = Regions
  <1>1. n \in Nat /\ Len(ctl) \in Nat /\ DOMAIN ctl = 1..Len(ctl)
    BY DEF TypeOK
  <1>2. \A j \in (n + 2)..Len(ctl) : j \in (n + 1)..Len(ctl)
    BY <1>1
  <1>3. n + 1 \notin ArmedTrys
    BY <1>1 DEF ArmedTrys
  <1>4. n + 1 \notin ArmedTrys'
    BY DEF ArmedTrys
  <1>5. \A i \in ArmedTrys \ {n + 1} : i \in ArmedTrys' /\ Regions'[i] = Regions[i]
    BY <1>2, <1>3, <1>4, OtherRegions
  <1>6. ArmedTrys' \ {n + 1} = ArmedTrys \ {n + 1}
    BY <1>2, ArmedElsewhere
  <1>7. ArmedTrys' = ArmedTrys
    <2>1. ArmedTrys' \ {n + 1} = ArmedTrys' /\ ArmedTrys \ {n + 1} = ArmedTrys
      BY <1>3, <1>4, Zenon
    <2>2. QED
      BY <1>6, <2>1, Zenon
  <1>8. QED
    BY <1>3, <1>5, <1>7 DEF Regions

\* Entering a Try opens a region.
LEMMA EnterTryOpens ==
    ASSUME TypeOK, EnterTry
    PROVE  Abstract!Open
  <1>1. PICK n \in Nat : n = Len(ctl) /\ DOMAIN ctl = 1..n /\ n \in 0..Len(ctl)
    BY DEF TypeOK
  <1>2. TryScope \in ScopeType
    BY DEF TypeOK, TryScope, ScopeType, Kinds, Phases, Callable
  <1>3. SameBelow(n) /\ DOMAIN ctl' = 1..(n + 1) /\ ctl'[n + 1] = TryScope
    BY <1>1, <1>2, AppendKeeps DEF EnterTry
  <1>4. /\ cleanup' = cleanup /\ cleanup \in Seq(Objects) /\ Len(cleanup) \in Nat
        /\ status = "running" /\ status' = status
    BY DEF EnterTry, Executing, TypeOK
  <1>5. n + 1 \in ArmedTrys' /\ n + 1 \notin ArmedTrys
    BY <1>1, <1>3 DEF ArmedTrys, Armed, TryScope
  <1>6. ctl'[n + 1].mark = Len(cleanup) /\ ctl'[n + 1].phase = "body"
    BY <1>3 DEF TryScope
  <1>7. \A j \in (n + 2)..Len(ctl) : ~Armed(j)
    BY <1>1
  <1>8. /\ ArmedTrys' = ArmedTrys \union {n + 1}
        /\ \A i \in ArmedTrys : Regions'[i] = Regions[i]
    <2>1. ArmedTrys' \ {n + 1} = ArmedTrys \ {n + 1}
      BY <1>1, <1>3, <1>7, ArmedElsewhere
    <2>2. \A i \in ArmedTrys \ {n + 1} : i \in ArmedTrys' /\ Regions'[i] = Regions[i]
      BY <1>1, <1>3, <1>4, <1>5, <1>6, <1>7, OtherRegions
    <2>3. QED
      BY <1>5, <2>1, <2>2
  <1>9. Regions'[n + 1] = [objs |-> <<>>, closing |-> FALSE]
    <2>1. LastEntry(n + 1)' = Len(cleanup)
      <3>1. \A k \in ArmedTrys' : ~(k > n + 1)
        BY <1>1, <1>3 DEF ArmedTrys
      <3>2. Ends(n + 1)' = {Len(cleanup)}
        BY <1>4, <3>1 DEF Ends
      <3>3. (CHOOSE e \in Ends(n + 1)' : \A d \in Ends(n + 1)' : e <= d) = Len(cleanup)
        BY <1>4, <3>2
      <3>4. QED
        BY <3>3 DEF LastEntry
    <2>2. Regions'[n + 1] = [objs |-> SubSeq(cleanup', ctl'[n + 1].mark + 1, LastEntry(n + 1)'),
                             closing |-> ctl'[n + 1].phase # "body"]
      BY <1>5 DEF Regions
    <2>3. SubSeq(cleanup, Len(cleanup) + 1, Len(cleanup)) = <<>>
      BY <1>4, SubSeqEmpty
    <2>4. QED
      BY <1>4, <1>6, <2>1, <2>2, <2>3
  <1>10. \A k \in ArmedTrys : k < n + 1
    BY <1>1 DEF ArmedTrys
  <1>11. DOMAIN Regions = ArmedTrys /\ DOMAIN Regions' = ArmedTrys'
    BY DEF Regions
  <1>12. Regions' = [k \in ArmedTrys \union {n + 1} |->
                       IF k = n + 1 THEN [objs |-> <<>>, closing |-> FALSE] ELSE Regions[k]]
    <2>1. Regions' = [k \in ArmedTrys' |-> Regions'[k]]
      BY DEF Regions
    <2>2. QED
      BY <1>5, <1>8, <1>9, <2>1
  <1>13. QED
    BY <1>4, <1>5, <1>10, <1>11, <1>12 DEF Abstract!Open, Abstract!Fresh

\* The end of a Try's body, and a Throw that reaches it, begin to close its
\* region.
LEMMA ClosingBegins ==
    ASSUME TypeOK, NEW t \in ArmedTrys, t - 1 \in 0..Len(ctl), SameBelow(t - 1),
           \A j \in (t + 1)..Len(ctl) : ~Armed(j),
           t \in ArmedTrys', ctl'[t].mark = ctl[t].mark, ctl'[t].phase # "body",
           cleanup' = cleanup, status = "running", status' = status
    PROVE  Abstract!BeginClose
  <1>1. /\ t \in Nat /\ (t - 1) + 1 = t /\ (t - 1) + 2 = t + 1
        /\ Len(ctl) \in Nat /\ DOMAIN ctl = 1..Len(ctl)
    BY DEF ArmedTrys, TypeOK
  <1>2. /\ ArmedTrys' \ {t} = ArmedTrys \ {t}
        /\ \A i \in ArmedTrys \ {t} :
              ctl'[i].mark = ctl[i].mark /\ ctl'[i].phase = ctl[i].phase
    BY <1>1, ArmedElsewhere
  <1>3. \A i \in ArmedTrys \ {t} : Regions'[i] = Regions[i]
    BY <1>1, OtherRegions
  <1>4. ArmedTrys' = ArmedTrys
    <2>1. \A i : i \in ArmedTrys' <=> i \in ArmedTrys
      BY <1>2, Zenon
    <2>2. QED
      BY <2>1
  <1>5. \A k \in ArmedTrys : k <= t
    BY <1>1 DEF ArmedTrys
  <1>6. Ends(t)' = {Len(cleanup)} /\ Ends(t) = {Len(cleanup)}
    <2>1. ~ \E k \in ArmedTrys : k > t
      BY <1>1 DEF ArmedTrys
    <2>2. QED
      BY <1>4, <2>1 DEF Ends
  <1>7. LastEntry(t)' = LastEntry(t)
    BY <1>6 DEF LastEntry
  <1>8. /\ Regions[t] = [objs |-> SubSeq(cleanup, ctl[t].mark + 1, LastEntry(t)),
                         closing |-> ctl[t].phase # "body"]
        /\ Regions'[t] = [objs |-> SubSeq(cleanup', ctl'[t].mark + 1, LastEntry(t)'),
                          closing |-> ctl'[t].phase # "body"]
    BY DEF Regions
  <1>9. Regions'[t] = [Regions[t] EXCEPT !.closing = TRUE]
    <2> DEFINE objs == SubSeq(cleanup, ctl[t].mark + 1, LastEntry(t))
    <2>1. SubSeq(cleanup', ctl'[t].mark + 1, LastEntry(t)') = objs
      BY <1>7
    <2>2. (ctl'[t].phase # "body") = TRUE
      OBVIOUS
    <2>3. Regions'[t] = [objs |-> objs, closing |-> TRUE]
      BY <1>8, <2>1, <2>2, Zenon
    <2>4. PICK c : Regions[t] = [objs |-> objs, closing |-> c]
      BY <1>8
    <2> HIDE DEF objs
    <2>5. [Regions[t] EXCEPT !.closing = TRUE] = [objs |-> objs, closing |-> TRUE]
      BY <2>4, RegionClosing, Zenon
    <2>6. QED
      BY <2>3, <2>5, Zenon
  <1>10. DOMAIN Regions = ArmedTrys
    BY DEF Regions
  <1>11. Regions' = [Regions EXCEPT ![t].closing = TRUE]
    <2>1. Regions' = [k \in ArmedTrys' |-> Regions'[k]]
      BY DEF Regions
    <2>2. Regions = [k \in ArmedTrys |-> Regions[k]]
      BY DEF Regions
    <2>3. QED
      BY <1>3, <1>4, <1>9, <2>1, <2>2
  <1>12. Abstract!Innermost(t)
    BY <1>5, <1>10 DEF Abstract!Innermost
  <1>13. QED
    BY <1>10, <1>11, <1>12 DEF Abstract!BeginClose

\* Taking the last element off again.
LEMMA WithoutLast ==
    ASSUME NEW S, NEW x \in Seq(S), NEW v \in S
    PROVE  /\ Append(x, v) \in Seq(S) /\ Append(x, v) # <<>>
           /\ SubSeq(Append(x, v), 1, Len(Append(x, v)) - 1) = x
  <1> DEFINE u == Append(x, v)
  <1>1. PICK n \in Nat : n = Len(x)
    OBVIOUS
  <1>2. u \in Seq(S) /\ u # <<>> /\ Len(u) = n + 1 /\ \A k \in 1..n : u[k] = x[k]
    BY <1>1, AppendProperties
  <1> HIDE DEF u
  <1>3. SubSeq(u, 1, n) = SubSeq(x, 1, n)
    BY <1>1, <1>2, SameStretch
  <1>4. SubSeq(x, 1, n) = x
    BY <1>1, SubSeqFull
  <1>5. Len(u) - 1 = n
    BY <1>2
  <1>6. QED
    BY <1>2, <1>3, <1>4, <1>5 DEF u

\* The Try that runs RunTo is the innermost one.
LEMMA RunningTop ==
    ASSUME TypeOK, RunningTo
    PROVE  /\ Len(ctl) \in ArmedTrys /\ ctl # <<>> /\ Top = ctl[Len(ctl)]
           /\ \A i \in ArmedTrys : i <= Len(ctl)
           /\ ctl[Len(ctl)].phase # "body"
  <1>1. /\ ctl # <<>> /\ Len(ctl) \in Nat /\ DOMAIN ctl = 1..Len(ctl)
        /\ Len(ctl) \in DOMAIN ctl
    BY DEF RunningTo, TypeOK
  <1>2. QED
    BY <1>1 DEF RunningTo, Top, ArmedTrys, Armed

\* One iteration of RunTo destroys the last object of the innermost region.
LEMMA RunToDestroys ==
    ASSUME TypeOK, StacksAgree, TypeOK', RunToStep
    PROVE  Abstract!Destroy
  <1>1. PICK t \in ArmedTrys : /\ t = Len(ctl) /\ t \in Nat
                              /\ \A i \in ArmedTrys : i <= t
                              /\ ctl[t].phase # "body" /\ Top = ctl[t]
    BY RunningTop DEF RunToStep, TypeOK
  <1>2. /\ status = "running" /\ status' = status
        /\ ctl' = Append(ctl, Scope("dtor", Victim))
        /\ cleanup' = SubSeq(cleanup, 1, Len(cleanup) - 1)
        /\ cleanup # <<>> /\ Len(cleanup) # ctl[t].mark
    BY <1>1 DEF RunToStep, RunningTo, RunToDone
  <1>3. PICK m \in Nat : m + 1 = Len(cleanup) /\ cleanup \in Seq(Objects)
    <2>1. Len(cleanup) \in Nat /\ Len(cleanup) # 0 /\ cleanup \in Seq(Objects)
      BY <1>2, EmptySeq DEF TypeOK
    <2>2. Len(cleanup) - 1 \in Nat /\ (Len(cleanup) - 1) + 1 = Len(cleanup)
      BY <2>1
    <2>3. QED
      BY <2>1, <2>2
  <1>4. /\ cleanup' \in Seq(Objects) /\ Len(cleanup') = m
        /\ \A h \in 1..m : cleanup'[h] = cleanup[h]
    <2>1. m \in 0..Len(cleanup) /\ cleanup' = SubSeq(cleanup, 1, m)
      BY <1>2, <1>3
    <2>2. QED
      BY <1>3, <2>1, CutStack
  <1>5. Victim = cleanup[m + 1] /\ Victim \in Objects
    BY <1>3 DEF Victim
  <1>6. cleanup = Append(cleanup', Victim)
    <2>1. /\ Append(cleanup', Victim) \in Seq(Objects)
          /\ Len(Append(cleanup', Victim)) = m + 1
          /\ \A k \in 1..m : Append(cleanup', Victim)[k] = cleanup[k]
          /\ Append(cleanup', Victim)[m + 1] = Victim
      BY <1>4, <1>5, AppendProperties
    <2>2. \A k \in 1..(m + 1) : k \in 1..m \/ k = m + 1
      OBVIOUS
    <2>3. \A k \in 1..(m + 1) : Append(cleanup', Victim)[k] = cleanup[k]
      BY <1>5, <2>1, <2>2
    <2>4. QED
      BY <1>3, <2>1, <2>3, SeqEqual
  <1>7. ctl[t].mark \in Nat /\ ctl[t].mark <= m
    <2>1. ctl[t].mark \in Nat /\ ctl[t].mark <= m + 1
      BY <1>3, ArmedMarks
    <2>2. QED
      BY <1>2, <1>3, <2>1
  <1>8. /\ ArmedTrys' = ArmedTrys
        /\ \A i \in ArmedTrys : ctl'[i].mark = ctl[i].mark /\ ctl'[i].phase = ctl[i].phase
    <2>1. Scope("dtor", Victim) \in ScopeType /\ Scope("dtor", Victim).kind = "dtor"
      BY <1>5, ScopeHasType DEF Scope, Kinds, Callable
    <2>2. /\ SameBelow(t) /\ DOMAIN ctl' = 1..(t + 1)
          /\ ctl'[t + 1].kind = "dtor" /\ t \in 0..Len(ctl)
      BY <1>1, <1>2, <2>1, AppendKeeps
    <2>3. t + 1 \notin ArmedTrys /\ t + 1 \notin ArmedTrys'
      BY <1>1, <2>2 DEF ArmedTrys, Armed
    <2>4. \A j \in (t + 2)..Len(ctl) : ~Armed(j)
      BY <1>1
    <2>5. /\ ArmedTrys' \ {t + 1} = ArmedTrys \ {t + 1}
          /\ \A i \in ArmedTrys \ {t + 1} :
                ctl'[i].mark = ctl[i].mark /\ ctl'[i].phase = ctl[i].phase
      BY <2>2, <2>4, ArmedElsewhere
    <2>6. ArmedTrys' \ {t + 1} = ArmedTrys' /\ ArmedTrys \ {t + 1} = ArmedTrys
      BY <2>3, Zenon
    <2>7. QED
      BY <2>5, <2>6, Zenon
  <1>9. /\ LastEntry(t) = m + 1 /\ LastEntry(t)' = m
        /\ \A i \in ArmedTrys : i # t => Regions'[i] = Regions[i]
    <2>1. \A h \in 1..ctl[t].mark : h \in 1..m
      BY <1>7
    <2>2. \A h \in 1..ctl[t].mark : cleanup'[h] = cleanup[h]
      BY <1>4, <2>1
    <2>3. ctl[t].mark <= Len(cleanup')
      BY <1>4, <1>7
    <2>4. QED
      BY <1>1, <1>3, <1>4, <1>8, <2>2, <2>3, InnermostRegion
  <1> DEFINE rest == SubSeq(cleanup', ctl[t].mark + 1, m)
             objs == Append(rest, Victim)
  <1>10. rest \in Seq(Objects) /\ SubSeq(cleanup, ctl[t].mark + 1, m + 1) = objs
    <2>1. ctl[t].mark + 1 \in 1..(Len(cleanup') + 1)
      BY <1>4, <1>7
    <2>2. QED
      BY <1>4, <1>5, <1>6, <2>1, StretchAppend, ZenonT(60)
  <1>11. Regions[t] = [objs |-> objs, closing |-> TRUE]
    <2>1. (ctl[t].phase # "body") = TRUE
      BY <1>1
    <2>2. Regions[t] = [objs |-> SubSeq(cleanup, ctl[t].mark + 1, LastEntry(t)),
                        closing |-> ctl[t].phase # "body"]
      BY DEF Regions
    <2>3. QED
      BY <1>9, <1>10, <2>1, <2>2, Zenon
  <1>12. Regions'[t] = [objs |-> rest, closing |-> TRUE]
    <2>1. (ctl'[t].phase # "body") = TRUE
      BY <1>1, <1>8
    <2>2. Regions'[t] = [objs |-> SubSeq(cleanup', ctl'[t].mark + 1, LastEntry(t)'),
                         closing |-> ctl'[t].phase # "body"]
      BY <1>8 DEF Regions
    <2>3. QED
      BY <1>8, <1>9, <2>1, <2>2, Zenon
  <1> HIDE DEF rest
  <1>13. objs # <<>> /\ SubSeq(objs, 1, Len(objs) - 1) = rest
    BY <1>5, <1>10, WithoutLast
  <1> HIDE DEF objs
  <1>14. [Regions[t] EXCEPT !.objs = rest] = [objs |-> rest, closing |-> TRUE]
    <2>1. PICK c : c = TRUE
      OBVIOUS
    <2>2. Regions[t] = [objs |-> objs, closing |-> c]
      BY <1>11, <2>1, Zenon
    <2>3. [Regions[t] EXCEPT !.objs = rest] = [objs |-> rest, closing |-> c]
      BY <2>2, RegionObjs
    <2>4. QED
      BY <2>1, <2>3, Zenon
  <1>15. Regions[t].objs = objs /\ Regions[t].closing
    BY <1>11
  <1>16. DOMAIN Regions = ArmedTrys
    BY DEF Regions
  <1>17. Regions' = [Regions EXCEPT ![t].objs = SubSeq(@, 1, Len(@) - 1)]
    <2>1. Regions' = [k \in ArmedTrys |-> Regions'[k]]
      BY <1>8 DEF Regions
    <2>2. Regions = [k \in ArmedTrys |-> Regions[k]]
      BY DEF Regions
    <2>3. Regions' = [Regions EXCEPT ![t] = [objs |-> rest, closing |-> TRUE]]
      BY <1>9, <1>12, <2>1, <2>2
    <2>4. QED
      BY <1>13, <1>14, <1>15, <2>3
  <1>18. QED
    BY <1>1, <1>2, <1>13, <1>15, <1>16, <1>17 DEF Abstract!Destroy, Abstract!Innermost

\* Leaving a Try, or entering its Catch body, closes its empty region.
LEMMA DisarmCloses ==
    ASSUME TypeOK, StacksAgree, RunningTo, RunToDone,
           SameBelow(Len(ctl) - 1), Len(ctl) \notin ArmedTrys',
           cleanup' = cleanup, status' = status
    PROVE  Abstract!Close
  <1>1. PICK t \in ArmedTrys : /\ t = Len(ctl) /\ t \in Nat /\ t \in DOMAIN ctl
                              /\ \A i \in ArmedTrys : i <= t
                              /\ ctl[t].phase # "body" /\ Top = ctl[t]
    BY RunningTop DEF TypeOK, ArmedTrys
  <1>2. status = "running" /\ t - 1 \in 0..Len(ctl) /\ (t - 1) + 1 = t /\ SameBelow(t - 1)
    BY <1>1 DEF RunningTo, TypeOK
  <1>3. ctl[t].mark = Len(cleanup) /\ Len(cleanup) \in Nat
    <2>1. ctl[t].mark \in Nat /\ ctl[t].mark <= Len(cleanup) /\ Len(cleanup) \in Nat
      BY ArmedMarks
    <2>2. Len(cleanup) = ctl[t].mark \/ Len(cleanup) = 0
      BY <1>1 DEF RunToDone
    <2>3. QED
      BY <2>1, <2>2
  <1>4. \A j \in ((t - 1) + 2)..Len(ctl) : ~Armed(j)
    BY <1>1
  <1>5. t \notin ArmedTrys'
    BY <1>1
  <1>6. ArmedTrys' = ArmedTrys \ {t}
    <2>1. ArmedTrys' \ {t} = ArmedTrys \ {t}
      BY <1>2, <1>4, ArmedElsewhere
    <2>2. ArmedTrys' \ {t} = ArmedTrys'
      BY <1>5, Zenon
    <2>3. QED
      BY <2>1, <2>2, Zenon
  <1>7. \A i \in ArmedTrys \ {t} : Regions'[i] = Regions[i]
    BY <1>2, <1>3, <1>4, <1>5, OtherRegions
  <1>8. Regions[t] = [objs |-> <<>>, closing |-> TRUE]
    <2>1. LastEntry(t) = Len(cleanup)
      <3>1. ~ \E k \in ArmedTrys : k > t
        BY <1>1, ArmedMarks
      <3>2. Ends(t) = {Len(cleanup)}
        BY <3>1 DEF Ends
      <3>3. QED
        BY <1>3, <3>2, LastEntryIs
    <2>2. SubSeq(cleanup, ctl[t].mark + 1, LastEntry(t)) = <<>>
      BY <1>3, <2>1, SubSeqEmpty
    <2>3. (ctl[t].phase # "body") = TRUE
      BY <1>1
    <2>4. Regions[t] = [objs |-> SubSeq(cleanup, ctl[t].mark + 1, LastEntry(t)),
                        closing |-> ctl[t].phase # "body"]
      BY DEF Regions
    <2>5. QED
      BY <2>2, <2>3, <2>4, Zenon
  <1>9. DOMAIN Regions = ArmedTrys
    BY DEF Regions
  <1>10. Regions' = [k \in ArmedTrys \ {t} |-> Regions[k]]
    <2>1. Regions' = [k \in ArmedTrys' |-> Regions'[k]]
      BY DEF Regions
    <2>2. QED
      BY <1>6, <1>7, <2>1
  <1>11. Regions[t].closing /\ Regions[t].objs = <<>>
    BY <1>8
  <1>12. QED
    BY <1>1, <1>2, <1>9, <1>10, <1>11 DEF Abstract!Close, Abstract!Innermost

\* A constructor runs above a Try whose body is still being executed.
CtorsInBody ==
    \A f \in DOMAIN ctl : ctl[f].kind = "ctor" => ctl[f - 1].phase = "body"

\* An object that is not registered is in no region.
LEMMA RegionsRegistered ==
    ASSUME TypeOK, StacksAgree, NEW i \in ArmedTrys
    PROVE  \A k \in DOMAIN Regions[i].objs : Regions[i].objs[k] \in built
  <1>1. PICK e \in Nat, m \in Nat :
           e = LastEntry(i) /\ e <= Len(cleanup) /\ m = ctl[i].mark
    BY LastEntryIs, ArmedMarks
  <1>2. cleanup \in Seq(Objects) /\ \A h \in DOMAIN cleanup : cleanup[h] \in built
    BY DEF TypeOK, StacksAgree, CleanupMatchesBuilt
  <1>3. Regions[i].objs = SubSeq(cleanup, m + 1, e)
    BY <1>1 DEF Regions
  <1>4. \A h \in (m + 1)..e : h \in DOMAIN cleanup
    BY <1>1, <1>2
  <1>5. \A h \in (m + 1)..e : cleanup[h] \in built
    BY <1>2, <1>4
  <1>6. SubSeq(cleanup, m + 1, e) \in Seq(built)
    BY <1>5, SubSeqProperties
  <1>7. QED
    BY <1>3, <1>6

\* The constructor that returns registers its object in the innermost region.
LEMMA ReturnCtorBuilds ==
    ASSUME TypeOK, StacksAgree, CtorsInBody, ~EarlyExit, TypeOK', ReturnCtor
    PROVE  \E o \in Objects : Abstract!Build(o)
  <1>1. PICK f \in DOMAIN ctl :
           /\ ctl[f].kind = "ctor"
           /\ MayLeave(f)
           /\ ctl' = Keep(f - 1)
           /\ cleanup' = Append(cleanup, ctl[f].obj)
    BY DEF ReturnCtor
  <1>2. /\ f - 1 \in 0..Len(ctl) /\ SameBelow(f - 1) /\ DOMAIN ctl' = 1..(f - 1)
        /\ f \in Nat /\ Len(ctl) \in Nat /\ DOMAIN ctl = 1..Len(ctl)
    BY <1>1, CutKeeps DEF TypeOK
  <1>3. f > 1 /\ Armed(f - 1) /\ ctl[f].obj \notin built
    BY <1>1 DEF StacksAgree, CtorsInTry
  <1>4. PICK t \in Nat : t = f - 1 /\ t \in DOMAIN ctl /\ t \in ArmedTrys /\ t + 1 = f
    BY <1>2, <1>3 DEF ArmedTrys
  <1>5. PICK o \in Objects : o = ctl[f].obj /\ o \notin built
    BY <1>1, <1>3 DEF TypeOK
  <1>6. PICK m \in Nat : m = Len(cleanup) /\ cleanup \in Seq(Objects)
    BY DEF TypeOK
  <1>7. \A j \in (t + 1)..Len(ctl) : ~Armed(j)
    BY <1>1, <1>4 DEF MayLeave
  <1>8. \A i \in ArmedTrys : i <= t
    BY <1>2, <1>4, <1>7 DEF ArmedTrys
  <1>9. /\ ArmedTrys' = ArmedTrys
        /\ \A i \in ArmedTrys : ctl'[i].mark = ctl[i].mark /\ ctl'[i].phase = ctl[i].phase
    <2>1. t \in 0..Len(ctl) /\ SameBelow(t) /\ t + 1 \notin DOMAIN ctl'
      BY <1>2, <1>4
    <2>2. t + 1 \notin ArmedTrys /\ t + 1 \notin ArmedTrys'
      BY <1>8, <2>1 DEF ArmedTrys
    <2>3. \A j \in (t + 2)..Len(ctl) : ~Armed(j)
      <3>1. \A j \in (t + 2)..Len(ctl) : j \in (t + 1)..Len(ctl)
        BY <1>2
      <3>2. QED
        BY <1>7, <3>1
    <2>4. /\ ArmedTrys' \ {t + 1} = ArmedTrys \ {t + 1}
          /\ \A i \in ArmedTrys \ {t + 1} :
                ctl'[i].mark = ctl[i].mark /\ ctl'[i].phase = ctl[i].phase
      BY <2>1, <2>3, ArmedElsewhere
    <2>5. ArmedTrys' \ {t + 1} = ArmedTrys' /\ ArmedTrys \ {t + 1} = ArmedTrys
      BY <2>2, Zenon
    <2>6. QED
      BY <2>4, <2>5, Zenon
  <1>10. /\ cleanup' = Append(cleanup, o) /\ cleanup' \in Seq(Objects)
         /\ Len(cleanup') = m + 1
         /\ \A h \in 1..m : cleanup'[h] = cleanup[h]
    BY <1>1, <1>5, <1>6, AppendProperties
  <1>11. PICK mark \in Nat : mark = ctl[t].mark /\ mark <= m
    BY <1>4, <1>6, ArmedMarks
  <1>12. /\ LastEntry(t) = m /\ LastEntry(t)' = m + 1
         /\ \A i \in ArmedTrys : i # t => Regions'[i] = Regions[i]
    <2>1. \A h \in 1..mark : h \in 1..m
      BY <1>11
    <2>2. \A h \in 1..ctl[t].mark : cleanup'[h] = cleanup[h]
      BY <1>10, <1>11, <2>1
    <2>3. ctl[t].mark <= Len(cleanup')
      BY <1>10, <1>11
    <2>4. QED
      BY <1>4, <1>6, <1>8, <1>9, <1>10, <2>2, <2>3, InnermostRegion
  <1>13. PICK objs \in Seq(Objects) :
            /\ objs = SubSeq(cleanup, mark + 1, m)
            /\ SubSeq(cleanup', mark + 1, m + 1) = Append(objs, o)
    <2>1. mark + 1 \in 1..(Len(cleanup) + 1)
      BY <1>6, <1>11
    <2>2. /\ SubSeq(cleanup, mark + 1, Len(cleanup)) \in Seq(Objects)
          /\ SubSeq(Append(cleanup, o), mark + 1, Len(cleanup) + 1)
                = Append(SubSeq(cleanup, mark + 1, Len(cleanup)), o)
      BY <1>6, <2>1, StretchAppend, ZenonT(60)
    <2>3. QED
      BY <1>6, <1>10, <2>2
  <1>14. PICK c : c = FALSE
    OBVIOUS
  <1>15. ctl[t].phase = "body"
    BY <1>1, <1>4 DEF CtorsInBody
  <1>16. Regions[t] = [objs |-> objs, closing |-> c]
    <2>1. (ctl[t].phase # "body") = c
      BY <1>14, <1>15
    <2>2. Regions[t] = [objs |-> SubSeq(cleanup, ctl[t].mark + 1, LastEntry(t)),
                        closing |-> ctl[t].phase # "body"]
      BY <1>4 DEF Regions
    <2>3. QED
      BY <1>11, <1>12, <1>13, <2>1, <2>2, Zenon
  <1>17. Regions'[t] = [objs |-> Append(objs, o), closing |-> c]
    <2>1. (ctl'[t].phase # "body") = c
      BY <1>4, <1>9, <1>14, <1>15
    <2>2. Regions'[t] = [objs |-> SubSeq(cleanup', ctl'[t].mark + 1, LastEntry(t)'),
                         closing |-> ctl'[t].phase # "body"]
      BY <1>4, <1>9 DEF Regions
    <2>3. ctl'[t].mark = mark
      BY <1>4, <1>9, <1>11
    <2>4. QED
      BY <1>12, <1>13, <2>1, <2>2, <2>3, Zenon
  <1>18. [Regions[t] EXCEPT !.objs = Append(objs, o)] = [objs |-> Append(objs, o), closing |-> c]
    BY <1>16, RegionObjs
  <1>19. Regions[t].objs = objs /\ ~Regions[t].closing
    BY <1>14, <1>16
  <1>20. DOMAIN Regions = ArmedTrys
    BY DEF Regions
  <1>21. Regions' = [Regions EXCEPT ![t].objs = Append(@, o)]
    <2>1. Regions' = [k \in ArmedTrys |-> Regions'[k]]
      BY <1>9 DEF Regions
    <2>2. Regions = [k \in ArmedTrys |-> Regions[k]]
      BY DEF Regions
    <2>3. Regions' = [Regions EXCEPT ![t] = [objs |-> Append(objs, o), closing |-> c]]
      BY <1>12, <1>17, <2>1, <2>2
    <2>4. QED
      BY <1>18, <1>19, <2>3
  <1>22. Abstract!Elsewhere(o)
    <2>1. \A r \in ArmedTrys : \A k \in DOMAIN Regions[r].objs : Regions[r].objs[k] # o
      BY <1>5, RegionsRegistered
    <2>2. QED
      BY <1>20, <2>1 DEF Abstract!Elsewhere
  <1>23. status = "running" /\ status' = status
    BY DEF ReturnCtor, Executing
  <1>24. Abstract!Innermost(t)
    BY <1>4, <1>8, <1>20 DEF Abstract!Innermost
  <1>25. Abstract!Build(o)
    BY <1>4, <1>19, <1>20, <1>21, <1>22, <1>23, <1>24 DEF Abstract!Build
  <1>26. QED
    BY <1>25

\* Constructors stay above bodies when the scopes below stay, and the one on
\* top is no constructor or is above a body.
LEMMA BodiesStay ==
    ASSUME TypeOK, CtorsInTry, CtorsInBody, NEW n \in 0..Len(ctl), SameBelow(n),
           n + 1 \in DOMAIN ctl' /\ ctl'[n + 1].kind = "ctor" => ctl'[n].phase = "body"
    PROVE  CtorsInBody'
  <1>1. n \in Nat /\ DOMAIN ctl = 1..Len(ctl) /\ 1..n \subseteq 1..Len(ctl)
    BY DEF TypeOK
  <1>2. ASSUME NEW f \in 1..n, ctl'[f].kind = "ctor" PROVE ctl'[f - 1].phase = "body"
    <2>1. f \in DOMAIN ctl /\ ctl[f].kind = "ctor"
      BY <1>1, <1>2 DEF SameBelow
    <2>2. f > 1 /\ ctl[f - 1].phase = "body"
      BY <2>1 DEF CtorsInTry, CtorsInBody
    <2>3. f - 1 \in 1..n
      BY <1>1, <2>2
    <2>4. QED
      BY <2>2, <2>3 DEF SameBelow
  <1>3. ASSUME NEW f \in DOMAIN ctl' PROVE f \in 1..n \/ (f = n + 1 /\ f - 1 = n)
    BY <1>1 DEF SameBelow
  <1>4. QED
    BY <1>2, <1>3 DEF CtorsInBody

\* What a step of a disciplined program is to ScopedTry: one of its steps or
\* none, and constructors stay above bodies.
LEMMA StepRefines ==
    ASSUME ~EarlyExit, ~LocalsAnywhere, TypeOK, StacksAgree, NeverUndefined,
           CtorsInBody, TypeOK', [Next]_vars
    PROVE  CtorsInBody' /\ AbstractStep
  <1>0. /\ Len(ctl) \in Nat /\ Len(ctl) \in 0..Len(ctl) /\ DOMAIN ctl = 1..Len(ctl)
        /\ CtorsInTry
    BY DEF TypeOK, StacksAgree
  <1>a. ASSUME NEW sc \in ScopeType, sc.kind \notin {"try", "ctor"},
               ctl' = Append(ctl, sc)
        PROVE  CtorsInBody' /\ (cleanup' = cleanup => Regions' = Regions)
    <2>1. PICK n \in Nat : n = Len(ctl) /\ n \in 0..Len(ctl)
      BY <1>0
    <2>2. SameBelow(n) /\ DOMAIN ctl' = 1..(n + 1) /\ ctl'[n + 1] = sc
      BY <1>a, <2>1, AppendKeeps
    <2>3. ~Armed(n + 1)' /\ ctl'[n + 1].kind # "ctor"
      BY <1>a, <2>2 DEF Armed
    <2>4. CtorsInBody'
      BY <1>0, <2>1, <2>2, <2>3, BodiesStay
    <2>5. \A j \in (n + 1)..Len(ctl) : ~Armed(j)
      BY <2>1
    <2>6. QED
      BY <2>1, <2>2, <2>3, <2>4, <2>5, QuietStep, SMTT(30)
  <1>b. ASSUME NEW f \in DOMAIN ctl, ctl' = Keep(f - 1)
        PROVE  CtorsInBody' /\ (MayLeave(f) /\ cleanup' = cleanup => Regions' = Regions)
    <2>1. f - 1 \in 0..Len(ctl) /\ SameBelow(f - 1) /\ DOMAIN ctl' = 1..(f - 1)
      BY <1>b, CutKeeps
    <2>2. (f - 1) + 1 = f /\ f \notin DOMAIN ctl'
      BY <1>0, <2>1
    <2>3. CtorsInBody'
      BY <1>0, <2>1, <2>2, BodiesStay
    <2>4. QED
      BY <2>1, <2>2, <2>3, QuietStep DEF MayLeave
  <1>c. ASSUME UNCHANGED <<ctl, cleanup>>
        PROVE  CtorsInBody' /\ Regions' = Regions
    BY <1>c DEF CtorsInBody, Regions, LastEntry, Ends, ArmedTrys, Armed
  <1>d. ASSUME Regions' = Regions, status' = status PROVE AbstractStep
    BY <1>d DEF AbstractStep
  <1>e. ASSUME Abstract!Next PROVE AbstractStep
    BY <1>e DEF AbstractStep
  <1>1. CASE Call
    <2>1. Scope("fn", NoObj) \in ScopeType /\ Scope("fn", NoObj).kind \notin {"try", "ctor"}
      BY ScopeHasType DEF Scope, Kinds, Callable
    <2>2. QED
      BY <1>1, <1>a, <1>d, <2>1 DEF Call
  <1>2. CASE OpenBlock
    <2>1. Scope("block", NoObj) \in ScopeType /\ Scope("block", NoObj).kind \notin {"try", "ctor"}
      BY ScopeHasType DEF Scope, Kinds, Callable
    <2>2. QED
      BY <1>2, <1>a, <1>d, <2>1 DEF OpenBlock
  <1>3. CASE EnterTry
    <2>1. TryScope \in ScopeType /\ TryScope.kind = "try"
      BY DEF TypeOK, TryScope, ScopeType, Kinds, Phases, Callable
    <2>2. SameBelow(Len(ctl)) /\ ctl'[Len(ctl) + 1] = TryScope
      BY <1>3, <2>1, AppendKeeps DEF EnterTry
    <2>3. CtorsInBody'
      BY <1>0, <2>1, <2>2, BodiesStay
    <2>4. QED
      BY <1>3, <1>e, <2>3, EnterTryOpens DEF Abstract!Next
  <1>4. ASSUME NEW o \in Objects, Construct(o) PROVE CtorsInBody' /\ AbstractStep
    <2>1. PICK n \in Nat : n = Len(ctl) /\ n \in 0..Len(ctl)
      BY <1>0
    <2>2. /\ SameBelow(n) /\ DOMAIN ctl' = 1..(n + 1)
          /\ ctl'[n + 1] = Scope("ctor", o)
      BY <1>4, <2>1, ConstructKeeps
    <2>3. ctl'[n + 1].kind = "ctor" /\ ~Armed(n + 1)'
      BY <2>2 DEF Scope, Armed
    <2>4. /\ ctl # <<>> /\ ctl[n].phase = "body"
          /\ cleanup' = cleanup /\ status' = status
      BY <1>4, <2>1 DEF Construct, Executing, Top, TypeOK
    <2>5. n \in 1..n
      BY <2>1, <2>4, EmptySeq DEF TypeOK
    <2>6. ctl'[n].phase = "body"
      BY <2>2, <2>4, <2>5 DEF SameBelow
    <2>7. CtorsInBody'
      BY <1>0, <2>1, <2>2, <2>6, BodiesStay
    <2>8. \A j \in (n + 1)..Len(ctl) : ~Armed(j)
      BY <2>1
    <2>9. Regions' = Regions
      BY <2>1, <2>2, <2>3, <2>4, <2>8, QuietStep
    <2>10. QED
      BY <1>d, <2>4, <2>7, <2>9, SMTT(30)
  <1>5. CASE LeaveBlock
    <2>1. PICK b \in DOMAIN ctl : MayLeave(b) /\ ctl' = Keep(b - 1)
      BY <1>5 DEF LeaveBlock
    <2>2. cleanup' = cleanup /\ status' = status
      BY <1>5 DEF LeaveBlock
    <2>3. QED
      BY <1>b, <1>d, <2>1, <2>2
  <1>6. CASE Return
    <2>1. PICK f \in DOMAIN ctl : /\ MayLeave(f) /\ ctl' = Keep(f - 1)
                                 /\ status' = IF f = 1 THEN "done" ELSE "running"
      BY <1>6 DEF Return
    <2>2. cleanup' = cleanup /\ status = "running"
      BY <1>6 DEF Return, Executing
    <2>3. CtorsInBody' /\ Regions' = Regions
      BY <1>b, <2>1, <2>2
    <2>4. CASE f = 1
      <3>1. ArmedTrys = {}
        BY <1>0, <2>1, <2>4 DEF MayLeave, ArmedTrys
      <3>2. DOMAIN Regions = {}
        BY <3>1 DEF Regions
      <3>3. Abstract!Exit
        BY <2>1, <2>2, <2>3, <2>4, <3>2 DEF Abstract!Exit
      <3>4. QED
        BY <1>e, <2>3, <3>3 DEF Abstract!Next
    <2>5. CASE f # 1
      BY <1>d, <2>1, <2>2, <2>3, <2>5
    <2>6. QED
      BY <2>4, <2>5
  <1>7. CASE ReturnCtor
    <2>1. CtorsInBody'
      BY <1>7, <1>b DEF ReturnCtor
    <2>2. QED
      BY <1>7, <1>e, <2>1, ReturnCtorBuilds DEF Abstract!Next
  <1>8. CASE PushFails
    <2>1. CtorsInBody' /\ Regions' = Regions /\ status = "running" /\ status' = "exit72"
      BY <1>8, <1>c DEF PushFails, Executing
    <2>2. Abstract!Exit
      BY <2>1 DEF Abstract!Exit
    <2>3. QED
      BY <1>e, <2>1, <2>2 DEF Abstract!Next
  <1>9. CASE ReturnDtor
    <2>1. PICK f \in DOMAIN ctl : MayLeave(f) /\ ctl' = Keep(f - 1)
      BY <1>9 DEF ReturnDtor
    <2>2. cleanup' = cleanup /\ status' = status
      BY <1>9 DEF ReturnDtor
    <2>3. QED
      BY <1>b, <1>d, <2>1, <2>2
  <1>10. CASE EndBody
    <2> DEFINE top == [Top EXCEPT !.phase = "ending"]
    <2>1. /\ ctl # <<>> /\ Top = ctl[Len(ctl)] /\ Top \in ScopeType
          /\ Top.kind = "try" /\ Top.phase = "body"
          /\ status = "running" /\ status' = status /\ cleanup' = cleanup
      BY <1>10 DEF EndBody, Executing, Top, TypeOK
    <2>2. ctl' = [ctl EXCEPT ![Len(ctl)] = top]
      BY <1>10 DEF EndBody, Top
    <2>3. top.kind = "try" /\ top.phase = "ending" /\ top.mark = Top.mark
      BY <2>1 DEF ScopeType
    <2> HIDE DEF top
    <2>4. /\ Len(ctl) - 1 \in 0..Len(ctl) /\ Len(ctl) \in DOMAIN ctl
          /\ SameBelow(Len(ctl) - 1) /\ DOMAIN ctl' = DOMAIN ctl /\ ctl'[Len(ctl)] = top
      BY <2>1, <2>2, TopKeeps
    <2>5. (Len(ctl) - 1) + 1 = Len(ctl)
      BY <1>0
    <2>6. CtorsInBody'
      BY <1>0, <2>3, <2>4, <2>5, BodiesStay
    <2>7. /\ Len(ctl) \in ArmedTrys /\ Len(ctl) \in ArmedTrys'
          /\ ctl'[Len(ctl)].mark = ctl[Len(ctl)].mark /\ ctl'[Len(ctl)].phase # "body"
      BY <2>1, <2>3, <2>4 DEF ArmedTrys, Armed
    <2>8. \A j \in (Len(ctl) + 1)..Len(ctl) : ~Armed(j)
      BY <1>0
    <2>9. Abstract!BeginClose
      BY <2>1, <2>4, <2>7, <2>8, ClosingBegins
    <2>10. QED
      BY <1>e, <2>6, <2>9 DEF Abstract!Next
  <1>11. CASE EndHandler
    <2>1. /\ Len(ctl) \in DOMAIN ctl /\ ~Armed(Len(ctl))
          /\ cleanup' = cleanup /\ status' = status /\ ctl' = Keep(Len(ctl) - 1)
      BY <1>11 DEF EndHandler, Executing, Top, Armed, TypeOK
    <2>2. \A j \in Len(ctl)..Len(ctl) : j = Len(ctl)
      BY DEF TypeOK
    <2>3. MayLeave(Len(ctl))
      BY <2>1, <2>2 DEF MayLeave
    <2>4. QED
      BY <1>b, <1>d, <2>1, <2>3
  <1>12. CASE ThrowUnhandled
    <2>1. /\ CtorsInBody' /\ Regions' = Regions /\ status = "running"
          /\ status' = "exit70" /\ exc = 0
      BY <1>12, <1>c DEF ThrowUnhandled, Executing
    <2>2. ArmedTrys = {}
      BY <1>0, <2>1 DEF StacksAgree, FramesMatchTries, InnermostFrame, ArmedTrys
    <2>3. DOMAIN Regions = {}
      BY <2>2 DEF Regions
    <2>4. Abstract!Exit
      BY <2>1, <2>3 DEF Abstract!Exit
    <2>5. QED
      BY <1>e, <2>1, <2>4 DEF Abstract!Next
  <1>13. CASE ThrowCaught
    <2>1. /\ exc \in DOMAIN ctl /\ ctl[exc].kind = "try"
          /\ exc - 1 \in 0..Len(ctl) /\ (exc - 1) + 1 = exc
          /\ SameBelow(exc - 1) /\ DOMAIN ctl' = 1..exc
          /\ ctl'[exc].kind = "try" /\ ctl'[exc].phase = "unwinding"
          /\ ctl'[exc].mark = ctl[exc].mark
      BY <1>13, ThrowKeeps
    <2>2. CtorsInBody'
      BY <1>0, <2>1, BodiesStay
    <2>3. Armed(exc) /\ \A j \in (exc + 1)..Len(ctl) : ~Armed(j)
      BY <1>0, <2>1 DEF StacksAgree, FramesMatchTries, InnermostFrame
    <2>4. exc \in ArmedTrys /\ exc \in ArmedTrys'
      BY <1>0, <2>1, <2>3 DEF ArmedTrys, Armed
    <2>5. cleanup' = cleanup /\ status = "running" /\ status' = status
      BY <1>13 DEF ThrowCaught, Executing
    <2>6. PICK t \in ArmedTrys : t = exc
      BY <2>4
    <2>7. t \in ArmedTrys'
      BY <1>0, <2>1, <2>6 DEF ArmedTrys, Armed
    <2>8. Abstract!BeginClose
      BY <2>1, <2>3, <2>5, <2>6, <2>7, ClosingBegins
    <2>9. QED
      BY <1>e, <2>2, <2>8 DEF Abstract!Next
  <1>14. CASE ThrowDangling
    <2>1. exc \in DOMAIN ctl /\ Armed(exc)
      BY <1>14 DEF ThrowDangling, StacksAgree, FramesMatchTries, InnermostFrame, TypeOK
    <2>2. QED
      BY <1>14, <2>1 DEF ThrowDangling, FrameInScope, Armed
  <1>15. CASE RunToStep
    <2>1. Victim \in Objects
      BY <1>15 DEF RunToStep, RunToDone, Victim, TypeOK
    <2>2. /\ Scope("dtor", Victim) \in ScopeType
          /\ Scope("dtor", Victim).kind \notin {"try", "ctor"}
      BY <2>1, ScopeHasType DEF Scope, Kinds, Callable
    <2>3. CtorsInBody'
      BY <1>15, <1>a, <2>2 DEF RunToStep
    <2>4. QED
      BY <1>15, <1>e, <2>3, RunToDestroys DEF Abstract!Next
  <1>16. CASE RunToDangling
    BY <1>16, RunToStepFacts DEF RunToDangling
  <1>17. CASE LeaveTry
    <2>1. /\ RunningTo /\ RunToDone /\ ctl' = Keep(Len(ctl) - 1)
          /\ cleanup' = cleanup /\ status' = status
      BY <1>17 DEF LeaveTry
    <2>2. Len(ctl) \in DOMAIN ctl
      BY <2>1, RunningTop DEF ArmedTrys
    <2>3. SameBelow(Len(ctl) - 1) /\ DOMAIN ctl' = 1..(Len(ctl) - 1)
      BY <2>1, <2>2, CutKeeps
    <2>4. Len(ctl) \notin ArmedTrys'
      BY <1>0, <2>3 DEF ArmedTrys
    <2>5. CtorsInBody' /\ Abstract!Close
      BY <1>b, <2>1, <2>2, <2>3, <2>4, DisarmCloses
    <2>6. QED
      BY <1>e, <2>5 DEF Abstract!Next
  <1>18. CASE EnterHandler
    <2> DEFINE top == [Top EXCEPT !.phase = "handler", !.own = {}]
    <2>1. /\ RunningTo /\ RunToDone /\ cleanup' = cleanup /\ status' = status
          /\ ctl # <<>> /\ Top = ctl[Len(ctl)] /\ Top \in ScopeType /\ Top.kind = "try"
      BY <1>18 DEF EnterHandler, RunningTo, Top, TypeOK
    <2>2. ctl' = [ctl EXCEPT ![Len(ctl)] = top]
      BY <1>18 DEF EnterHandler, Top
    <2>3. top.kind = "try" /\ top.phase = "handler"
      BY <2>1 DEF ScopeType
    <2> HIDE DEF top
    <2>4. /\ Len(ctl) - 1 \in 0..Len(ctl) /\ SameBelow(Len(ctl) - 1)
          /\ ctl'[Len(ctl)] = top /\ (Len(ctl) - 1) + 1 = Len(ctl)
      <3>1. (Len(ctl) - 1) + 1 = Len(ctl)
        BY <1>0
      <3>2. QED
        BY <2>1, <2>2, <3>1, TopKeeps
    <2>5. Len(ctl) \notin ArmedTrys'
      BY <2>3, <2>4 DEF ArmedTrys, Armed
    <2>6. CtorsInBody'
      BY <1>0, <2>3, <2>4, BodiesStay
    <2>7. QED
      BY <1>e, <2>1, <2>4, <2>5, <2>6, DisarmCloses DEF Abstract!Next
  <1>19. CASE UNCHANGED vars
    BY <1>19, <1>c, <1>d DEF vars
  <1>20. QED
    BY <1>1, <1>2, <1>3, <1>4, <1>5, <1>6, <1>7, <1>8, <1>9, <1>10, <1>11,
       <1>12, <1>13, <1>14, <1>15, <1>16, <1>17, <1>18, <1>19 DEF Next

\* The lowering of Try, Throw and class objects to frames, marks and a list of
\* destructors implements ScopedTry, for every disciplined program: its
\* regions are nested, what is built in one is destroyed when it is left, last
\* built first, before its Catch, and none is left out.
THEOREM DisciplinedRefinement ==
    ASSUME ~EarlyExit, ~LocalsAnywhere
    PROVE  Spec => ImplementsScopedTry
  <1>1. Init => CtorsInBody /\ Abstract!Init
    <2> SUFFICES ASSUME Init PROVE CtorsInBody /\ Abstract!Init
      OBVIOUS
    <2>1. DOMAIN ctl = {1} /\ ctl[1].kind = "fn" /\ status = "running"
      BY DEF Init, Scope
    <2>2. ArmedTrys = {}
      BY <2>1 DEF ArmedTrys, Armed
    <2>3. Regions = [l \in {} |-> [objs |-> <<>>, closing |-> FALSE]]
      BY <2>2 DEF Regions
    <2>4. QED
      BY <2>1, <2>3 DEF CtorsInBody, Abstract!Init, Abstract!Fresh
  <1>2. /\ TypeOK /\ StacksAgree /\ NeverUndefined /\ CtorsInBody /\ TypeOK' /\ [Next]_vars
           => CtorsInBody' /\ [Abstract!Next]_<<Regions, status>>
    BY StepRefines DEF AbstractStep
  <1>3. QED
    BY <1>1, <1>2, TypeCorrect, DisciplinedSafety, PTL
       DEF Spec, ImplementsScopedTry, Abstract!Spec
=============================================================================
