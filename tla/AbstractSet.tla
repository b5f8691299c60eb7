----------------------------- MODULE AbstractSet -----------------------------
(***************************************************************************)
(* What BinaryTree, BinarySearchTree, BTree and BPlusTree promise: a set   *)
(* of integers, to which every call does what its method is named for.  An *)
(* insertion that is denied memory changes nothing.  out is what the last  *)
(* read returned, 0 standing for no and for no such.                       *)
(***************************************************************************)
EXTENDS Calls, FiniteSets

CONSTANT Values

VARIABLES
    set,    \* the subset of Values the tree holds
    out,
    call

Init == set = {} /\ out = 0 /\ call = NoCall

Called(op, args, denied) == call' = CallAfter(call, op, args, denied)

Does(op, args, s) ==
    /\ Called(op, args, {})
    /\ set' = s
    /\ UNCHANGED out

Answers(op, args, x) ==
    /\ Called(op, args, {})
    /\ out' = x
    /\ UNCHANGED set

Insert(x) ==
    \/ Does("Insert", <<x>>, set \union {x})
    \/ Called("Insert", <<x>>, {"room"}) /\ UNCHANGED <<set, out>>

Erase(x) == Does("Erase", <<x>>, set \ {x})

Clear == Does("Clear", <<>>, {})

Destroy == Does("Destroy", <<>>, {})

Contains(x) == Answers("Contains", <<x>>, IF x \in set THEN 1 ELSE 0)

Size == Answers("Size", <<>>, Cardinality(set))

\* That of the lowest binary tree with as many nodes.
Height ==
    \E n \in 0..Cardinality(set) :
        /\ 2 ^ n >= Cardinality(set) + 1
        /\ n > 0 => 2 ^ (n - 1) < Cardinality(set) + 1
        /\ Answers("Height", <<>>, n)

Min ==
    \/ \E x \in set : (\A y \in set : x <= y) /\ Answers("Min", <<>>, x)
    \/ set = {} /\ Answers("Min", <<>>, 0)

Max ==
    \/ \E x \in set : (\A y \in set : x >= y) /\ Answers("Max", <<>>, x)
    \/ set = {} /\ Answers("Max", <<>>, 0)

Next ==
    \/ \E x \in Values : Insert(x) \/ Erase(x) \/ Contains(x)
    \/ Clear \/ Destroy \/ Size \/ Height \/ Min \/ Max

vars == <<set, out, call>>

Spec == Init /\ [][Next]_vars
=============================================================================
