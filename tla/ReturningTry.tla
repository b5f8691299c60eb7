---------------------------- MODULE ReturningTry ----------------------------
(***************************************************************************)
(* Try, Catch, Throw and Return as the Python bootstrap lowers them to C.  *)
(* The runtime is the one of Exceptions; NativeCodegen emits other code    *)
(* around it:                                                              *)
(*   - a Return runs and pops, for each Try body it stands in, innermost   *)
(*     first, CMotive_Cleanup_RunTo and CMOTIVE_EXCEPTION_POP, and only    *)
(*     then evaluates its expression;                                      *)
(*   - a class object is registered only when it is declared in a Try body *)
(*     of its function; any other one is constructed and never destroyed.  *)
(* A Return is a scope of kind "return" on top of the C stack, from its    *)
(* first RunTo to the end of its expression.  A Try it has popped is in    *)
(* the phase "handler": not armed, with code of its function running.      *)
(***************************************************************************)
EXTENDS Exceptions

Returning == status = "running" /\ Top.kind = "return"

\* cleanup, the argument of stmt: the Trys in whose bodies the code that
\* runs stands, within its function.
Protecting(stack) ==
    {j \in DOMAIN stack :
        /\ stack[j].kind = "try" /\ stack[j].phase = "body"
        /\ \A k \in (j + 1)..Len(stack) : stack[k].kind \notin Callable}

Innermost ==
    CHOOSE j \in Protecting(ctl) : \A k \in Protecting(ctl) : k <= j

\* Mutant: an object is registered wherever it is declared.
RegisteredAlways(stack) == TRUE

\* register_stack_cleanup.
Registered(stack) == Protecting(stack) # {}

\* Mutant: statements run in the middle of a Return.
InBodyAlways == Executing

\* Statements run, and not the expression of a Return.
InBody == Executing /\ ~Returning

-----------------------------------------------------------------------------
(* Declarations.                                                           *)

\* local_var.  The disciplined program declares no class object in a block
\* within a Try body.
Declare(o) ==
    /\ InBody
    /\ \/ LocalsAnywhere
       \/ Protecting(ctl) = {}
       \/ Top.kind = "try" /\ Top.phase = "body"
    /\ o \notin Owned(ctl)
    /\ Spend
    /\ ctl' = Append([ctl EXCEPT ![Len(ctl)].own = @ \union {o}],
                     Scope("ctor", o))
    /\ UNCHANGED <<exc, cleanup, built, status>>

-----------------------------------------------------------------------------
(* Return.                                                                 *)

BeginReturn ==
    /\ InBody
    /\ ctl' = Append(ctl, Scope("return", NoObj))
    /\ UNCHANGED <<exc, cleanup, built, status, fuel>>

\* RunTo of the innermost Try that is left.
ReturnRunsTo == Returning /\ Protecting(ctl) # {}

\* Mutant: a Return runs every destructor there is.
ReturnRunToNull == cleanup = <<>>

ReturnRunToDone == cleanup = <<>> \/ Len(cleanup) = ctl[Innermost].mark

\* Calls the destructor of the object registered last; of an object that is
\* no longer there, nothing can be said.
ReturnDestroys ==
    /\ ReturnRunsTo
    /\ ~ReturnRunToDone
    /\ IF Victim \in built
       THEN /\ cleanup' = SubSeq(cleanup, 1, Len(cleanup) - 1)
            /\ built' = built \ {Victim}
            /\ ctl' = Append(ctl, Scope("dtor", Victim))
            /\ UNCHANGED status
       ELSE /\ status' = "undefined"
            /\ UNCHANGED <<ctl, cleanup, built>>
    /\ UNCHANGED <<exc, fuel>>

\* Mutant: a Return only pops the frames.
ReturnPopsOnly ==
    /\ ReturnRunsTo
    /\ exc' = IF exc = Innermost THEN ctl[Innermost].prev ELSE exc
    /\ ctl' = [ctl EXCEPT ![Innermost].phase = "handler"]
    /\ UNCHANGED <<cleanup, built, status, fuel>>

ReturnPops ==
    /\ ReturnRunsTo
    /\ ReturnRunToDone
    /\ exc' = IF exc = Innermost THEN ctl[Innermost].prev ELSE exc
    /\ ctl' = [ctl EXCEPT ![Innermost].phase = "handler"]
    /\ UNCHANGED <<cleanup, built, status, fuel>>

\* The expression of a Return calls.
CallInReturn ==
    /\ Returning
    /\ Protecting(ctl) = {}
    /\ Call

\* The activation ends; a constructor's object is registered by the code
\* after the call, if that stands in a Try body.
EndReturn ==
    /\ Returning
    /\ Protecting(ctl) = {}
    /\ \E f \in DOMAIN ctl :
          /\ Activation(f)
          /\ ctl' = Keep(f - 1)
          /\ status' = IF f = 1 THEN "done" ELSE "running"
          /\ IF ctl[f].kind = "ctor" /\ Registered(ctl')
             THEN /\ cleanup' = Append(cleanup, ctl[f].obj)
                  /\ built' = (built \intersect Owned(ctl')) \union {ctl[f].obj}
             ELSE DropStorage /\ UNCHANGED cleanup
    /\ UNCHANGED <<exc, fuel>>

\* The malloc of CMotive_Cleanup_Push fails.
RegisterFails ==
    /\ Returning
    /\ Protecting(ctl) = {}
    /\ \E f \in DOMAIN ctl :
          Activation(f) /\ ctl[f].kind = "ctor" /\ Registered(Keep(f - 1))
    /\ status' = "exit72"
    /\ UNCHANGED <<ctl, exc, cleanup, built, fuel>>

-----------------------------------------------------------------------------
(* Throw: a statement, in an expression of a Return, and, at the end of a  *)
(* Try without a Catch, the Throw of the same message: a Catch body that   *)
(* throws at once.                                                         *)

MayThrow == Returning => Protecting(ctl) = {}

Throws ==
    /\ MayThrow
    /\ ThrowUnhandled \/ ThrowCaught \/ ThrowDangling

Body ==
    /\ InBody
    /\ Call \/ OpenBlock \/ EnterTry \/ LeaveBlock \/ EndBody \/ EndHandler

Unwind == RunToStep \/ RunToDangling \/ LeaveTry \/ EnterHandler

Leave ==
    \/ BeginReturn \/ ReturnDestroys \/ ReturnPops
    \/ CallInReturn \/ EndReturn \/ RegisterFails

ReturningNext ==
    \/ Body
    \/ \E o \in Objects : Declare(o)
    \/ Leave
    \/ Throws
    \/ Unwind

ReturningSpec == Init /\ [][ReturningNext]_vars

-----------------------------------------------------------------------------
(* Properties of programs that leave no Try by Break or Continue and       *)
(* declare no class object in a block of a Try body.                       *)

\* Every variable has its type; a Return is on top or called something.
ReturningTypeOK ==
    /\ \A i \in DOMAIN ctl :
          /\ ctl[i].kind \in Kinds \union {"return"}
          /\ ctl[i].phase \in Phases
          /\ ctl[i].own \subseteq Objects
          /\ ctl[i].kind = "return" /\ i < Len(ctl) => ctl[i + 1].kind \in Callable
    /\ exc \in Nat
    /\ cleanup \in Seq(Objects)
    /\ built \subseteq Objects
    /\ status \in Statuses
    /\ fuel \in 0..MaxOps

\* At every point, in the middle of a Return, of an unwinding, of both at
\* once: the frames are those of the Trys that still run, innermost first,
\* and the registered objects are there, once each, in reach of the Try that
\* declared them (cleanup_emit, try_catch, register_stack_cleanup).
ListsAgree == FramesMatchTries /\ CleanupMatchesBuilt

\* A registered object stops being there only because its destructor is
\* called, by the Try that declared it: at its end, unwinding, or in a
\* Return that leaves it (CMotive_Cleanup_RunTo).
DestroyedByItsTry ==
    [][\A o \in built \ built' :
         /\ o = Victim
         /\ \/ RunToStep /\ o \in Top.own
            \/ ReturnDestroys /\ o \in ctl[Innermost].own]_vars
=============================================================================
