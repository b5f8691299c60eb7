------------------------------ MODULE ScopedTry ------------------------------
(***************************************************************************)
(* What Try promises a program that declares its class objects in Try      *)
(* bodies and leaves them at their end or by Throw, with no word of        *)
(* longjmp, linked lists or C storage:                                     *)
(*   - Try regions are nested; an object belongs to the innermost one;     *)
(*   - once a region closes, for whichever reason, its objects are         *)
(*     destroyed one by one, the last built first;                         *)
(*   - a region goes away only when it is empty;                           *)
(*   - an exception is unhandled only if no region is open.                *)
(***************************************************************************)
EXTENDS Naturals, Sequences

CONSTANT Objects

VARIABLES
    regions,   \* the open regions: a function from their nesting levels
    outcome    \* "running", "done", "exit70" (unhandled), "exit72" (no memory)

\* A region: its objects in the order they were built, and whether it is
\* being left.
Fresh == [objs |-> <<>>, closing |-> FALSE]

\* The innermost region has the highest level.
Innermost(l) == l \in DOMAIN regions /\ \A k \in DOMAIN regions : k <= l

Elsewhere(o) ==
    \A r \in DOMAIN regions :
        \A k \in DOMAIN regions[r].objs : regions[r].objs[k] # o

Init ==
    /\ regions = [l \in {} |-> Fresh]
    /\ outcome = "running"

\* A region is opened within all the others.
Open ==
    /\ outcome = "running"
    /\ \E l \in DOMAIN regions' :
          /\ \A k \in DOMAIN regions : k < l
          /\ regions' = [k \in DOMAIN regions \union {l} |->
                            IF k = l THEN Fresh ELSE regions[k]]
    /\ UNCHANGED outcome

Build(o) ==
    /\ outcome = "running"
    /\ Elsewhere(o)
    /\ \E l \in DOMAIN regions :
          /\ Innermost(l)
          /\ ~regions[l].closing
          /\ regions' = [regions EXCEPT ![l].objs = Append(@, o)]
    /\ UNCHANGED outcome

BeginClose ==
    /\ outcome = "running"
    /\ \E l \in DOMAIN regions :
          /\ Innermost(l)
          /\ regions' = [regions EXCEPT ![l].closing = TRUE]
    /\ UNCHANGED outcome

Destroy ==
    /\ outcome = "running"
    /\ \E l \in DOMAIN regions :
          /\ Innermost(l)
          /\ regions[l].closing
          /\ regions[l].objs # <<>>
          /\ regions' = [regions EXCEPT
                            ![l].objs = SubSeq(@, 1, Len(@) - 1)]
    /\ UNCHANGED outcome

Close ==
    /\ outcome = "running"
    /\ \E l \in DOMAIN regions :
          /\ Innermost(l)
          /\ regions[l].closing
          /\ regions[l].objs = <<>>
          /\ regions' = [k \in DOMAIN regions \ {l} |-> regions[k]]
    /\ UNCHANGED outcome

Exit ==
    /\ outcome = "running"
    /\ \/ outcome' = "exit72"
       \/ DOMAIN regions = {} /\ outcome' \in {"done", "exit70"}
    /\ UNCHANGED regions

Next ==
    \/ Open
    \/ \E o \in Objects : Build(o)
    \/ BeginClose
    \/ Destroy
    \/ Close
    \/ Exit

Spec == Init /\ [][Next]_<<regions, outcome>>
=============================================================================
