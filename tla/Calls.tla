-------------------------------- MODULE Calls --------------------------------
(***************************************************************************)
(* What a program and its containers see of each other: the method called  *)
(* last, with its arguments, and what malloc and realloc refused it.  A    *)
(* class and what it promises share this record, so a step of the one is   *)
(* compared with the same method of the other.                             *)
(***************************************************************************)
EXTENDS Integers

NoCall == [op |-> "none", args |-> <<>>, denied |-> {}, turn |-> 0]

\* The call after another; turn tells it from the same call once more.
CallAfter(call, op, args, denied) ==
    [op |-> op, args |-> args, denied |-> denied, turn |-> 1 - call.turn]
=============================================================================
