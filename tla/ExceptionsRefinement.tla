------------------------ MODULE ExceptionsRefinement ------------------------
(***************************************************************************)
(* The lowering of Try and Throw implements ScopedTry: the armed Trys are  *)
(* the open regions, and the objects of a region are the cleanup entries   *)
(* between its mark and the mark of the next armed Try.                    *)
(***************************************************************************)
EXTENDS Exceptions

ArmedTrys == {i \in DOMAIN ctl : Armed(i)}

\* Where the entries of the armed Try at position i may end: at the mark of
\* an armed Try within it, or at the top.
Ends(i) ==
    {Len(cleanup)} \union
        {ctl[j].mark : j \in {k \in ArmedTrys : k > i}}

LastEntry(i) == CHOOSE e \in Ends(i) : \A d \in Ends(i) : e <= d

\* The level of a region is the position of its Try in the C stack.
Regions ==
    [i \in ArmedTrys |->
        [objs |-> SubSeq(cleanup, ctl[i].mark + 1, LastEntry(i)),
         closing |-> ctl[i].phase # "body"]]

Abstract ==
    INSTANCE ScopedTry WITH regions <- Regions, outcome <- status

\* A program that keeps its class objects in Try bodies sees nested regions
\* whose objects are destroyed last built first, before the Catch body.
ImplementsScopedTry == Abstract!Spec
=============================================================================
