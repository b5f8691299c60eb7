------------------------------- MODULE AnyTree -------------------------------
(***************************************************************************)
(* The classes BinaryTree, BinarySearchTree, BTree and BPlusTree of        *)
(* Sys::STL: four copies of one text over CMotive_AnyTree, which is a      *)
(* vector kept sorted and free of duplicates.                              *)
(***************************************************************************)
EXTENDS VectorOps, Calls

CONSTANT MaxCells   \* bound: cells allocated to the tree

VARIABLES
    made,   \* did the constructor get memory?
    tree,   \* the vector
    out,    \* what the last method with a result returned
    call    \* the last method called: a history variable

vars == <<made, tree, out, call>>

Init ==
    /\ made \in BOOLEAN
    /\ tree = NewVector
    /\ out = 0
    /\ call = NoCall

Becomes(v) ==
    /\ made
    /\ Cap(v) <= MaxCells
    /\ tree' = v
    /\ UNCHANGED <<made, out>>

Called(op, args, denied) == call' = CallAfter(call, op, args, denied)

Does(op, args, v) == Called(op, args, {}) /\ Becomes(v)

Answers(op, args, x) ==
    /\ Called(op, args, {})
    /\ out' = x
    /\ UNCHANGED <<made, tree>>

\* i cells have been read, w of them kept; a cell is kept unless it is equal
\* to the one kept last.
Unique(v) ==
    LET Kept[i \in 0..v.count] ==
            IF i = 0 THEN [cells |-> v.cells, w |-> 0]
            ELSE LET k == Kept[i - 1]
                 IN  IF k.w = 0 \/ k.cells[i] # k.cells[k.w]
                     THEN [cells |-> [k.cells EXCEPT ![k.w + 1] = k.cells[i]],
                           w |-> k.w + 1]
                     ELSE k
    IN  [v EXCEPT !.cells = Kept[v.count].cells, !.count = Kept[v.count].w]

SortUnique(v) == {Unique(s) : s \in SortOn(v)}

Denied(r) == IF r.rc = 0 THEN {} ELSE {"room"}

\* Mutant: the tree is put in order before the push.
InsertLast(x) ==
    \E v \in SortUnique(tree) : \E r \in PushBackOn(v, x) :
        Called("Insert", <<x>>, Denied(r)) /\ Becomes(r.vec)

\* Mutant: the last element is taken back when there was no room.
InsertTakenBack(x) ==
    \E r \in PushBackOn(tree, x) :
        \E v \in SortUnique(IF r.rc = 0 THEN r.vec ELSE PopBackOn(r.vec)) :
            Called("Insert", <<x>>, Denied(r)) /\ Becomes(v)

\* Whether there was room for x is not looked at.
Insert(x) ==
    \E r \in PushBackOn(tree, x) : \E v \in SortUnique(r.vec) :
        Called("Insert", <<x>>, Denied(r)) /\ Becomes(v)

Erase(x) ==
    LET i == BinarySearchOn(tree, x)
    IN  Does("Erase", <<x>>, IF i < 0 THEN tree ELSE EraseOn(tree, i))

Clear == Does("Clear", <<>>, [tree EXCEPT !.count = 0])

\* The destructor leaves Null in the handle.
Destroy ==
    /\ Called("Destroy", <<>>, {})
    /\ made' = FALSE
    /\ tree' = NewVector
    /\ UNCHANGED out

\* Find is the same call.
Contains(x) ==
    Answers("Contains", <<x>>, IF BinarySearchOn(tree, x) >= 0 THEN 1 ELSE 0)

Size == Answers("Size", <<>>, tree.count)

\* p = 2^hgt is doubled until it is at least count + 1.
Height ==
    \E hgt \in 0..tree.count :
        /\ 2 ^ hgt >= tree.count + 1
        /\ \A lower \in 0..(hgt - 1) : 2 ^ lower < tree.count + 1
        /\ Answers("Height", <<>>, hgt)

Min == Answers("Min", <<>>, ElementAt(tree, 0))

Max == Answers("Max", <<>>, LastElement(tree))

Next ==
    \/ \E x \in Values : Insert(x) \/ Erase(x) \/ Contains(x)
    \/ Clear \/ Destroy \/ Size \/ Height \/ Min \/ Max

Spec == Init /\ [][Next]_vars

-----------------------------------------------------------------------------
(* The cells in use lie inside of the block and hold values. *)
TypeOK ==
    /\ made \in BOOLEAN
    /\ tree \in Vectors
    /\ tree.count <= Cap(tree)
    /\ out \in Values \union Nat

(* The order the binary searches rely on: strictly increasing, whichever   *)
(* pushes found no memory.                                                 *)
StrictlySorted ==
    \A i, j \in 1..tree.count : i < j => tree.cells[i] < tree.cells[j]

Seen == INSTANCE AbstractSet
            WITH set <- {tree.cells[i] : i \in 1..tree.count}

(* Whatever was inserted and erased, in whatever order and with whatever   *)
(* memory, the tree is the set of what went in and did not come out: an    *)
(* insertion that had room puts its element in, one without changes        *)
(* nothing, each element is counted once and found, and what Min and Max   *)
(* answer are the least and the greatest.                                  *)
ImplementsSet == Seen!Spec
=============================================================================
