----------------------------- MODULE Exceptions -----------------------------
(***************************************************************************)
(* Try, Catch, Throw and the destruction of stack objects, as the frontend *)
(* lowers them to C.  The generated C keeps two global linked lists:       *)
(*   - __cmotive_exception_stack: one frame for each Try that a Throw may  *)
(*     longjmp to; the frames live in the C stack;                         *)
(*   - __cmotive_cleanup_stack: one malloc'ed entry for each class object  *)
(*     declared on the C stack, with the destructor to call on it.         *)
(* emit_try makes every Try remember the top of both, and undo both at the *)
(* end of its body and at the longjmp.  Nothing else is emitted for a      *)
(* Return, a Break, a Continue or the end of a block.                      *)
(*                                                                         *)
(* The C stack is a sequence of scopes; the position of a Try's scope in   *)
(* it is the address of the Try's frame, so that a frame whose scope is    *)
(* gone is a dangling pointer until another Try is entered at the same     *)
(* depth.  The program that runs is arbitrary: at each step it does        *)
(* anything its innermost scope allows, at most MaxOps times something     *)
(* that opens a scope.                                                     *)
(***************************************************************************)
EXTENDS Naturals, Sequences

CONSTANTS
    Objects,         \* the stack slots class objects can be declared in
    NoObj,           \* no object: the argument of a scope that has none
    MaxOps,          \* bound: how many scopes a program may open in a run
    EarlyExit,       \* may the program leave a Try by Return, Break, Continue?
    LocalsAnywhere   \* may it declare class objects outside of a Try's body?

ASSUME ConstantsAssumption ==
    /\ NoObj \notin Objects
    /\ MaxOps \in Nat
    /\ EarlyExit \in BOOLEAN
    /\ LocalsAnywhere \in BOOLEAN

VARIABLES
    ctl,      \* the C stack: a sequence of scopes, the innermost last
    exc,      \* __cmotive_exception_stack: position of a frame, 0 for NULL
    cleanup,  \* __cmotive_cleanup_stack: the objects registered, last on top
    built,    \* objects whose constructor returned, whose destructor was not
              \* called, and whose storage is still there
    status,   \* "running", or how the process ended
    fuel      \* scopes the program may still open

vars == <<ctl, exc, cleanup, built, status, fuel>>

-----------------------------------------------------------------------------
(* Scopes.                                                                 *)

Callable == {"fn", "ctor", "dtor"}

Kinds == Callable \union {"block", "try"}

\* A Try runs its body; then RunTo at the end of it; or, after a longjmp,
\* RunTo in the else branch and then the Catch body.
Phases == {"body", "ending", "unwinding", "handler"}

Statuses == {"running", "done", "exit70", "exit72", "undefined"}

ScopeType ==
    [kind : Kinds,
     phase : Phases,
     mark : Nat,                    \* __cmotive_mark: height of cleanup
     prev : Nat,                    \* __cmotive_frame.prev
     own : SUBSET Objects,          \* class objects declared in this scope
     obj : Objects \union {NoObj}]  \* what a ctor or dtor was called on

Scope(kind, obj) ==
    [kind |-> kind, phase |-> "body", mark |-> 0, prev |-> 0,
     own |-> {}, obj |-> obj]

\* Mutant: a Try that does not remember where the cleanup stack was.
TryScopeWithoutMark ==
    [kind |-> "try", phase |-> "body", mark |-> 0, prev |-> exc,
     own |-> {}, obj |-> NoObj]

\* Mutant: a mark one entry too high.
TryScopeMarkTooHigh ==
    [kind |-> "try", phase |-> "body", mark |-> Len(cleanup) + 1, prev |-> exc,
     own |-> {}, obj |-> NoObj]

TryScope ==
    [kind |-> "try", phase |-> "body", mark |-> Len(cleanup), prev |-> exc,
     own |-> {}, obj |-> NoObj]

Top == ctl[Len(ctl)]

\* The scopes that are left when the C stack is cut back to position n.
Keep(n) == SubSeq(ctl, 1, n)

Owned(stack) == UNION {stack[i].own : i \in DOMAIN stack}

\* Its frame is, or should be, on the exception stack.
Armed(i) == ctl[i].kind = "try" /\ ctl[i].phase # "handler"

\* RunTo is not between two of its iterations: the program's code runs.
Executing ==
    /\ status = "running"
    /\ Top.kind = "try" => Top.phase \in {"body", "handler"}

\* f is the function, constructor or destructor activation that is running.
Activation(f) ==
    /\ ctl[f].kind \in Callable
    /\ \A j \in (f + 1)..Len(ctl) : ctl[j].kind \notin Callable

\* Leaving every scope from position n on, other than by a Throw: the
\* disciplined program does not leave a Try this way.
MayLeave(n) == EarlyExit \/ \A j \in n..Len(ctl) : ~Armed(j)

\* The storage of the scopes that are gone is gone with what was in it.
DropStorage == built' = built \intersect Owned(ctl')

Spend == fuel > 0 /\ fuel' = fuel - 1

-----------------------------------------------------------------------------
(* What the program does.                                                  *)

Init ==
    /\ ctl = <<Scope("fn", NoObj)>>     \* main
    /\ exc = 0
    /\ cleanup = <<>>
    /\ built = {}
    /\ status = "running"
    /\ fuel = MaxOps

\* A call of a function or method.
Call ==
    /\ Executing
    /\ Spend
    /\ ctl' = Append(ctl, Scope("fn", NoObj))
    /\ UNCHANGED <<exc, cleanup, built, status>>

\* A nested block or the body of a loop.
OpenBlock ==
    /\ Executing
    /\ Spend
    /\ ctl' = Append(ctl, Scope("block", NoObj))
    /\ UNCHANGED <<exc, cleanup, built, status>>

\* "{ CMotive_ExceptionFrame f; mark = cleanup; f.prev = exc; exc = &f; ..."
EnterTry ==
    /\ Executing
    /\ Spend
    /\ ctl' = Append(ctl, TryScope)
    /\ exc' = Len(ctl) + 1
    /\ UNCHANGED <<cleanup, built, status>>

\* "T x; T__ctor(&x);": the slot is taken and the constructor called.
Construct(o) ==
    /\ Executing
    /\ LocalsAnywhere \/ (Top.kind = "try" /\ Top.phase = "body")
    /\ o \notin Owned(ctl)
    /\ Spend
    /\ ctl' = Append([ctl EXCEPT ![Len(ctl)].own = @ \union {o}],
                     Scope("ctor", o))
    /\ UNCHANGED <<exc, cleanup, built, status>>

\* The end of a block, and a Break or a Continue in it.
LeaveBlock ==
    /\ Executing
    /\ \E b \in DOMAIN ctl :
          /\ ctl[b].kind = "block"
          /\ \A j \in (b + 1)..Len(ctl) : ctl[j].kind = "try"
          /\ MayLeave(b)
          /\ ctl' = Keep(b - 1)
    /\ DropStorage
    /\ UNCHANGED <<exc, cleanup, status, fuel>>

\* A Return, or the end of a function's body.
Return ==
    /\ Executing
    /\ \E f \in DOMAIN ctl :
          /\ Activation(f)
          /\ ctl[f].kind = "fn"
          /\ MayLeave(f)
          /\ ctl' = Keep(f - 1)
          /\ status' = IF f = 1 THEN "done" ELSE "running"
    /\ DropStorage
    /\ UNCHANGED <<exc, cleanup, fuel>>

\* Mutant: NULL is registered in place of the object.
ReturnCtorPushesNull ==
    /\ Executing
    /\ \E f \in DOMAIN ctl :
          /\ Activation(f)
          /\ ctl[f].kind = "ctor"
          /\ MayLeave(f)
          /\ ctl' = Keep(f - 1)
          /\ cleanup' = Append(cleanup, NoObj)
          /\ built' = (built \intersect Owned(ctl')) \union {ctl[f].obj}
    /\ UNCHANGED <<exc, status, fuel>>

\* The constructor returns, and "CMotive_Cleanup_Push(&x, T__dtor);".
ReturnCtor ==
    /\ Executing
    /\ \E f \in DOMAIN ctl :
          /\ Activation(f)
          /\ ctl[f].kind = "ctor"
          /\ MayLeave(f)
          /\ ctl' = Keep(f - 1)
          /\ cleanup' = Append(cleanup, ctl[f].obj)
          /\ built' = (built \intersect Owned(ctl')) \union {ctl[f].obj}
    /\ UNCHANGED <<exc, status, fuel>>

\* The malloc in CMotive_Cleanup_Push fails: exit(72).
PushFails ==
    /\ Executing
    /\ \E f \in DOMAIN ctl : Activation(f) /\ ctl[f].kind = "ctor" /\ MayLeave(f)
    /\ status' = "exit72"
    /\ UNCHANGED <<ctl, exc, cleanup, built, fuel>>

\* A destructor returns to the RunTo that called it.
ReturnDtor ==
    /\ Executing
    /\ \E f \in DOMAIN ctl :
          /\ Activation(f)
          /\ ctl[f].kind = "dtor"
          /\ MayLeave(f)
          /\ ctl' = Keep(f - 1)
    /\ DropStorage
    /\ UNCHANGED <<exc, cleanup, status, fuel>>

\* The body of a Try runs to its end.
EndBody ==
    /\ Executing
    /\ Top.kind = "try" /\ Top.phase = "body"
    /\ ctl' = [ctl EXCEPT ![Len(ctl)].phase = "ending"]
    /\ UNCHANGED <<exc, cleanup, built, status, fuel>>

\* The body of a Catch runs to its end.
EndHandler ==
    /\ Executing
    /\ Top.kind = "try" /\ Top.phase = "handler"
    /\ ctl' = Keep(Len(ctl) - 1)
    /\ DropStorage
    /\ UNCHANGED <<exc, cleanup, status, fuel>>

-----------------------------------------------------------------------------
(* CMotive_Throw.                                                          *)

\* No frame: the message is printed and the process exits with 70.
ThrowUnhandled ==
    /\ Executing
    /\ exc = 0
    /\ status' = "exit70"
    /\ UNCHANGED <<ctl, exc, cleanup, built, fuel>>

\* The scopes of the catching Try's own activation, whose C stack frame is
\* still there after the longjmp: their objects can still be destroyed.
SameActivation(i) ==
    {j \in i..Len(ctl) : \A k \in (i + 1)..j : ctl[k].kind \notin Callable}

\* The scope the frame was declared in has not been left.
FrameInScope == exc \in DOMAIN ctl /\ ctl[exc].kind = "try"

\* longjmp to the frame: every scope above the Try's is abandoned.
ThrowCaught ==
    /\ Executing
    /\ FrameInScope
    /\ ctl' = [Keep(exc) EXCEPT
                  ![exc].phase = "unwinding",
                  ![exc].own = UNION {ctl[j].own : j \in SameActivation(exc)}]
    /\ DropStorage
    /\ UNCHANGED <<exc, cleanup, status, fuel>>

\* longjmp to a frame whose scope has been left: undefined behaviour.
ThrowDangling ==
    /\ Executing
    /\ exc # 0
    /\ ~FrameInScope
    /\ status' = "undefined"
    /\ UNCHANGED <<ctl, exc, cleanup, built, fuel>>

-----------------------------------------------------------------------------
(* CMotive_Cleanup_RunTo(__cmotive_mark) and CMOTIVE_EXCEPTION_POP.        *)

RunningTo ==
    /\ status = "running"
    /\ Top.kind = "try"
    /\ Top.phase \in {"ending", "unwinding"}

RunToDone == Len(cleanup) = Top.mark \/ cleanup = <<>>

Victim == cleanup[Len(cleanup)]

\* Mutant: the entry is taken off after its destructor returned.
RunToStepKeepsEntry ==
    /\ RunningTo
    /\ ~RunToDone
    /\ Victim \in built
    /\ built' = built \ {Victim}
    /\ ctl' = Append(ctl, Scope("dtor", Victim))
    /\ UNCHANGED <<exc, cleanup, status, fuel>>

\* Mutant: the Try's objects are destroyed first built first.
RunToStepInOrder ==
    /\ RunningTo
    /\ ~RunToDone
    /\ LET o == cleanup[Top.mark + 1]
       IN  /\ o \in built
           /\ cleanup' = SubSeq(cleanup, 1, Top.mark)
                            \o SubSeq(cleanup, Top.mark + 2, Len(cleanup))
           /\ built' = built \ {o}
           /\ ctl' = Append(ctl, Scope("dtor", o))
    /\ UNCHANGED <<exc, status, fuel>>

\* One iteration: the entry is taken off before its destructor is called, so
\* that a destructor that throws is not called again.
RunToStep ==
    /\ RunningTo
    /\ ~RunToDone
    /\ Victim \in built
    /\ cleanup' = SubSeq(cleanup, 1, Len(cleanup) - 1)
    /\ built' = built \ {Victim}
    /\ ctl' = Append(ctl, Scope("dtor", Victim))
    /\ UNCHANGED <<exc, status, fuel>>

\* The entry's object is not there any more: undefined behaviour.
RunToDangling ==
    /\ RunningTo
    /\ ~RunToDone
    /\ Victim \notin built
    /\ status' = "undefined"
    /\ UNCHANGED <<ctl, exc, cleanup, built, fuel>>

PopFrame == exc' = IF exc = Len(ctl) THEN Top.prev ELSE exc

\* Mutant: the frame stays on the exception stack.
LeaveTryKeepsFrame ==
    /\ RunningTo
    /\ RunToDone
    /\ Top.phase = "ending"
    /\ ctl' = Keep(Len(ctl) - 1)
    /\ DropStorage
    /\ UNCHANGED <<exc, cleanup, status, fuel>>

\* Mutant: no RunTo at the end of the body, only the frame is popped.
LeaveTryWithoutRunTo ==
    /\ RunningTo
    /\ Top.phase = "ending"
    /\ PopFrame
    /\ ctl' = Keep(Len(ctl) - 1)
    /\ DropStorage
    /\ UNCHANGED <<cleanup, status, fuel>>

\* The body ended and everything is destroyed: the Try is left.
LeaveTry ==
    /\ RunningTo
    /\ RunToDone
    /\ Top.phase = "ending"
    /\ PopFrame
    /\ ctl' = Keep(Len(ctl) - 1)
    /\ DropStorage
    /\ UNCHANGED <<cleanup, status, fuel>>

\* Mutant: the Try is left after the unwinding, its Catch body skipped.
EnterHandlerSkipsCatch ==
    /\ RunningTo
    /\ RunToDone
    /\ Top.phase = "unwinding"
    /\ PopFrame
    /\ ctl' = Keep(Len(ctl) - 1)
    /\ DropStorage
    /\ UNCHANGED <<cleanup, status, fuel>>

\* Everything is destroyed and the Catch body starts, its frame popped.
EnterHandler ==
    /\ RunningTo
    /\ RunToDone
    /\ Top.phase = "unwinding"
    /\ PopFrame
    /\ ctl' = [ctl EXCEPT ![Len(ctl)].phase = "handler",
                          ![Len(ctl)].own = {}]
    /\ DropStorage
    /\ UNCHANGED <<cleanup, status, fuel>>

-----------------------------------------------------------------------------

Next ==
    \/ Call
    \/ OpenBlock
    \/ EnterTry
    \/ \E o \in Objects : Construct(o)
    \/ LeaveBlock
    \/ Return
    \/ ReturnCtor
    \/ PushFails
    \/ ReturnDtor
    \/ EndBody
    \/ EndHandler
    \/ ThrowUnhandled
    \/ ThrowCaught
    \/ ThrowDangling
    \/ RunToStep
    \/ RunToDangling
    \/ LeaveTry
    \/ EnterHandler

Spec == Init /\ [][Next]_vars

\* The process keeps executing until it exits.
FairSpec == Spec /\ WF_vars(Next)

-----------------------------------------------------------------------------
(* Properties.                                                             *)

\* Every variable has its type; main is at the bottom of the C stack until
\* it returns, and a constructor runs on an object.
TypeOK ==
    /\ ctl \in Seq(ScopeType)
    /\ exc \in Nat
    /\ cleanup \in Seq(Objects)
    /\ built \subseteq Objects
    /\ status \in Statuses
    /\ fuel \in 0..MaxOps
    /\ status # "done" => ctl # <<>> /\ ctl[1].kind = "fn"
    /\ \A i \in DOMAIN ctl : ctl[i].kind = "ctor" => ctl[i].obj \in Objects

\* p is the frame of the innermost armed Try among the first n scopes, or
\* NULL when there is none.
InnermostFrame(p, n) ==
    \/ p = 0 /\ \A j \in 1..n : ~Armed(j)
    \/ /\ p \in 1..n
       /\ Armed(p)
       /\ \A j \in (p + 1)..n : ~Armed(j)

\* The exception stack, followed through prev, is exactly the list of the
\* Trys that are being executed, innermost first: a Throw unwinds to the
\* nearest active one and none that was left (emit_try, CMotive_Throw).
FramesMatchTries ==
    /\ InnermostFrame(exc, Len(ctl))
    /\ \A i \in DOMAIN ctl : Armed(i) => InnermostFrame(ctl[i].prev, i - 1)

\* Neither a longjmp to a Try that was left nor a destructor call on an
\* object that is gone ever happens (CMotive_Throw, CMotive_Cleanup_RunTo).
NeverUndefined == status # "undefined"

\* Entry h of the cleanup stack is one that Try i will come to: it lies above
\* its mark and below the marks of the Trys nested in it.
Guards(i, h) ==
    /\ Armed(i)
    /\ cleanup[h] \in ctl[i].own
    /\ ctl[i].mark < h
    /\ \A j \in (i + 1)..Len(ctl) : Armed(j) => h <= ctl[j].mark

\* Each registered object is there, once, and was declared by an armed Try
\* that will come to it.  Nothing that is built is missing from the list
\* (emit_local_decl, CMotive_Cleanup_Push).
CleanupMatchesBuilt ==
    /\ built = {cleanup[h] : h \in DOMAIN cleanup}
    /\ \A g, h \in DOMAIN cleanup : cleanup[g] = cleanup[h] => g = h
    /\ \A h \in DOMAIN cleanup : \E i \in DOMAIN ctl : Guards(i, h)

\* The destructor call that this step makes, if it makes one.
Destroys(o) == RunToStep /\ o = Victim

\* An object stops being there only because its destructor is called: no
\* block, function or longjmp takes the storage of an object away first.
NoLostDestructor ==
    [][\A o \in built \ built' : Destroys(o)]_vars

\* RunTo destroys what its own Try declared, never an object of an enclosing
\* Try or of a caller that goes on using it (the __cmotive_mark).
OnlyOwnDestroyed ==
    [][\A o \in built \ built' : o \in Top.own]_vars

\* The Try at position d, while RunTo is at work after a longjmp to it, and
\* once its Catch body runs.
Unwinding(d) ==
    d \in DOMAIN ctl /\ ctl[d].kind = "try" /\ ctl[d].phase = "unwinding"

Handling(d) ==
    d \in DOMAIN ctl /\ ctl[d].kind = "try" /\ ctl[d].phase = "handler"

\* A Throw that reached a Try gets to its Catch, whatever the destructors do
\* on the way: they may throw, catch and call (CMotive_Cleanup_RunTo).
UnwindingEnds ==
    \A d \in 1..(2 * MaxOps + 1) :
        Unwinding(d) ~> (Handling(d) \/ status = "exit72")

\* No Try that is being executed has had its own mark popped from under it:
\* RunTo compares pointers, and this is what makes it stop
\* (CMotive_Cleanup_RunTo's "while (stack != mark)").
MarksReachable ==
    \A i \in DOMAIN ctl : Armed(i) => ctl[i].mark <= Len(cleanup)

-----------------------------------------------------------------------------
(* The inductive invariant of a disciplined program, one that declares its *)
(* class objects in Try bodies and leaves them at the end or by Throw.     *)

\* The marks of the armed Trys rise with their nesting, up to the top.
MarksNested ==
    \A i \in DOMAIN ctl : Armed(i) =>
        /\ ctl[i].mark <= Len(cleanup)
        /\ \A j \in 1..(i - 1) : Armed(j) => ctl[j].mark <= ctl[i].mark

\* Only armed Trys have objects, and each object has one slot.
SlotsSeparate ==
    /\ \A i \in DOMAIN ctl : ~Armed(i) => ctl[i].own = {}
    /\ \A i, j \in DOMAIN ctl : i # j => ctl[i].own \intersect ctl[j].own = {}

\* A constructor runs on an object of the Try body right below it, which is
\* not registered yet.
CtorsInTry ==
    \A f \in DOMAIN ctl : ctl[f].kind = "ctor" =>
        /\ f > 1
        /\ Armed(f - 1)
        /\ ctl[f].obj \in ctl[f - 1].own
        /\ ctl[f].obj \notin built

\* Together: the exception stack, the cleanup stack and the C stack describe
\* the same nesting, so that neither list can name anything that is gone.
StacksAgree ==
    /\ FramesMatchTries
    /\ CleanupMatchesBuilt
    /\ MarksNested
    /\ SlotsSeparate
    /\ CtorsInTry

-----------------------------------------------------------------------------
(* What the documentation says of programs the code lets do more.          *)

\* "return statements inside protected blocks pop active exception frames
\* before returning" (docs/TEMPLATES_EXCEPTIONS_PACKAGES.md).
ReturnPopsFrames ==
    [][Return /\ status' = "running" => InnermostFrame(exc, Len(ctl))']_vars
=============================================================================
