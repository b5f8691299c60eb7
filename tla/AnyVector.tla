------------------------------ MODULE AnyVector ------------------------------
(***************************************************************************)
(* The classes Vector, List and Dlist of Sys::STL, three copies of one     *)
(* text over CMotive_AnyVector, for a T of 8 bytes.  The methods that      *)
(* change the vector are Void: what the runtime answers, out of memory     *)
(* included, is dropped.  A read that fails returns the 0 its result was   *)
(* initialised with.                                                       *)
(***************************************************************************)
EXTENDS VectorOps, Calls

CONSTANTS
    Handles,    \* the objects of the program
    MaxCells    \* bound: cells allocated to two of them together

ASSUME BoundAssumption == MaxCells \in Nat

VARIABLES
    made,   \* the objects whose constructor got memory; the others hold Null
    vec,    \* Handles -> Vectors
    out,    \* what the last method with a result returned
    call    \* the last method called: a history variable

vars == <<made, vec, out, call>>

Init ==
    /\ made \in SUBSET Handles
    /\ vec = [h \in Handles |-> NewVector]
    /\ out = 0
    /\ call = NoCall

WithinBound(h, v) ==
    \A g \in Handles \ {h} : Cap(vec[g]) + Cap(v) <= MaxCells

\* A Null handle makes every function return at once.
Becomes(h, v) ==
    /\ h \in made
    /\ WithinBound(h, v)
    /\ vec' = [vec EXCEPT ![h] = v]
    /\ UNCHANGED made

Called(op, args, denied) == call' = CallAfter(call, op, args, denied)

\* A method that needs no memory, and one that may, with what realloc did.
Does(h, op, args, v) ==
    /\ Called(op, args, {})
    /\ Becomes(h, v)
    /\ UNCHANGED out

Tries(h, op, args, outcomes) ==
    \E r \in outcomes :
        /\ Called(op, args, IF r.rc = 0 THEN {} ELSE {"room"})
        /\ Becomes(h, r.vec)
        /\ UNCHANGED out

Answers(op, args, x) ==
    /\ Called(op, args, {})
    /\ out' = x
    /\ UNCHANGED <<made, vec>>

-----------------------------------------------------------------------------
(* Methods that change the vector.                                         *)

Counts == 0..MaxCells

Indexes(h) == 0..vec[h].count + 1

Assign(h, n, x) == Tries(h, "Assign", <<h, n, x>>, AssignOn(vec[h], n, x))

Set(h, i, x) == Does(h, "Set", <<h, i, x>>, SetOn(vec[h], i, x))

ReserveCells(h, n) == Tries(h, "Reserve", <<h, n>>, Reserve(vec[h], n))

ShrinkToFit(h) == Tries(h, "ShrinkToFit", <<h>>, ShrinkToFitOn(vec[h]))

Clear(h) == Does(h, "Clear", <<h>>, [vec[h] EXCEPT !.count = 0])

\* Emplace is the same call.
Insert(h, i, x) == Tries(h, "Insert", <<h, i, x>>, InsertOn(vec[h], i, x))

Erase(h, i) == Does(h, "Erase", <<h, i>>, EraseOn(vec[h], i))

\* EmplaceBack is the same call.
PushBack(h, x) == Tries(h, "PushBack", <<h, x>>, PushBackOn(vec[h], x))

PopBack(h) ==
    /\ Called("PopBack", <<h>>, {})
    /\ Becomes(h, PopBackOn(vec[h]))
    /\ out' = LastElement(vec[h])

Resize(h, n) == Tries(h, "Resize", <<h, n>>, ResizeOn(vec[h], n, 0))

ResizeFill(h, n, x) ==
    Tries(h, "ResizeFill", <<h, n, x>>, ResizeOn(vec[h], n, x))

Swap(h, other) ==
    /\ {h, other} \subseteq made
    /\ Called("Swap", <<h, other>>, {})
    /\ vec' = [vec EXCEPT ![h] = vec[other], ![other] = vec[h]]
    /\ UNCHANGED <<made, out>>

\* StableSort is the same call.
Sort(h) == \E v \in SortOn(vec[h]) : Does(h, "Sort", <<h>>, v)

\* The destructor leaves Null in the handle.
Destroy(h) ==
    /\ h \in made
    /\ Called("Destroy", <<h>>, {})
    /\ made' = made \ {h}
    /\ vec' = [vec EXCEPT ![h] = NewVector]
    /\ UNCHANGED out

-----------------------------------------------------------------------------
(* Methods that read it: of a Null handle, as of an empty vector.          *)

\* At and Get.
At(h, i) == Answers("At", <<h, i>>, ElementAt(vec[h], i))

Front(h) == Answers("Front", <<h>>, ElementAt(vec[h], 0))

Back(h) == Answers("Back", <<h>>, LastElement(vec[h]))

Size(h) == Answers("Size", <<h>>, vec[h].count)

\* Contains is LinearSearch >= 0.
LinearSearch(h, x) == Answers("LinearSearch", <<h, x>>, FindOn(vec[h], x))

BinarySearch(h, x) ==
    Answers("BinarySearch", <<h, x>>, BinarySearchOn(vec[h], x))

Next ==
    \E h \in Handles :
        \/ ShrinkToFit(h) \/ Clear(h) \/ PopBack(h) \/ Sort(h) \/ Destroy(h)
        \/ Front(h) \/ Back(h) \/ Size(h)
        \/ \E n \in Counts : ReserveCells(h, n) \/ Resize(h, n)
        \/ \E n \in Counts, x \in Values : Assign(h, n, x) \/ ResizeFill(h, n, x)
        \/ \E i \in Indexes(h) : Erase(h, i) \/ At(h, i)
        \/ \E i \in Indexes(h), x \in Values : Set(h, i, x) \/ Insert(h, i, x)
        \/ \E x \in Values :
              PushBack(h, x) \/ LinearSearch(h, x) \/ BinarySearch(h, x)
        \/ \E other \in Handles : Swap(h, other)

Spec == Init /\ [][Next]_vars

-----------------------------------------------------------------------------
(* The objects are what the program says they are; the elements in use lie *)
(* inside of the block; what is read is an element, a place or -1.         *)
TypeOK ==
    /\ made \subseteq Handles
    /\ vec \in [Handles -> Vectors]
    /\ \A h \in Handles : vec[h].count <= Cap(vec[h])
    /\ out \in Values \union Nat \union {-1}

(* No method of any object, in whatever order they are called and whichever*)
(* allocations fail, reads or writes a cell outside of the object's block. *)
InsideTheBlock == \A h \in Handles : ~vec[h].fault

Seen == INSTANCE AbstractSequence
            WITH seq <- [h \in Handles |-> Contents(vec[h])]

(* Every method, with the arguments it was called with, does to the        *)
(* elements what its name says, or nothing if realloc refused it room:     *)
(* growth loses no element and shows none that was not stored, Assign      *)
(* drops the old elements only when it has room for the new ones, and the  *)
(* searches return the first place, or any place of a sorted one.          *)
ImplementsSequence == Seen!Spec
=============================================================================
