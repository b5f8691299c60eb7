-------------------------- MODULE MCLocalsAnywhere --------------------------
(***************************************************************************)
(* Programs that declare class objects outside of a Try's body, with a     *)
(* record of the objects that a function took with it when it returned:    *)
(* what Exceptions itself forgets once the storage is gone.                *)
(***************************************************************************)
EXTENDS Exceptions

CONSTANTS s1, s2

VARIABLE returned  \* objects still there when their function returned

WatchedInit == Init /\ returned = {}

\* An object built again in the same slot is another object.
WatchedNext ==
    /\ Next
    /\ returned' = IF Return THEN returned \union (built \ built')
                             ELSE returned \ built'

WatchedSpec == WatchedInit /\ [][WatchedNext]_<<vars, returned>>

\* "Destructor cleanup is implemented for stack objects constructed in
\* generated `Try` scopes" (docs/CLASSES_INHERITANCE_LIFECYCLE.md): a Try
\* whose body ran to its end, without a Throw, calls no destructor on an
\* object of a function that was called in the body and has returned
\* (emit_local_decl, CMotive_Cleanup_RunTo).
ReturnedNotDestroyed ==
    [][RunToStep \/ RunToDangling
           => ~(Top.phase = "ending" /\ Victim \in returned)]_<<vars, returned>>
=============================================================================
