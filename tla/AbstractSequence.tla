-------------------------- MODULE AbstractSequence --------------------------
(***************************************************************************)
(* What Vector, List and Dlist promise: each handle is a sequence.  A call *)
(* does what its method is named for or, if it was denied memory, nothing, *)
(* and no call changes a sequence it was not asked to change.  out is what *)
(* the last read returned, 0 standing for no such element.  Indexes are    *)
(* those of C, from 0.                                                     *)
(***************************************************************************)
EXTENDS Calls, Sequences, FiniteSets

CONSTANTS
    Handles,
    Values,
    Counts      \* the lengths that are asked for

VARIABLES
    seq,    \* Handles -> Seq(Values)
    out,
    call

Sorted(s) == \A i, j \in DOMAIN s : i < j => s[i] <= s[j]

Places(s, x) == {i \in DOMAIN s : s[i] = x}

Reorderings(s) ==
    {t \in [DOMAIN s -> Values] :
        \A x \in Values : Cardinality(Places(t, x)) = Cardinality(Places(s, x))}

ElementOrNone(s, i) == IF i \in DOMAIN s THEN s[i] ELSE 0

\* x before the element i, and at the end if there is none.
Added(s, i, x) ==
    LET n == IF i < Len(s) THEN i ELSE Len(s)
    IN  SubSeq(s, 1, n) \o <<x>> \o SubSeq(s, n + 1, Len(s))

Without(s, i) == SubSeq(s, 1, i) \o SubSeq(s, i + 2, Len(s))

\* The first n elements stay, as many more as are missing are x.
Adjusted(s, n, x) == [k \in 1..n |-> IF k <= Len(s) THEN s[k] ELSE x]

Init ==
    /\ seq = [h \in Handles |-> <<>>]
    /\ out = 0
    /\ call = NoCall

Becomes(h, s) == UNCHANGED out /\ seq' = [seq EXCEPT ![h] = s]

Called(op, args, denied) == call' = CallAfter(call, op, args, denied)

\* A call that needs no memory, and one that may.
Does(h, op, args, s) == Called(op, args, {}) /\ Becomes(h, s)

Tries(h, op, args, s) ==
    \/ Does(h, op, args, s)
    \/ Called(op, args, {"room"}) /\ UNCHANGED <<seq, out>>

Answers(op, args, x) ==
    /\ Called(op, args, {})
    /\ out' = x
    /\ UNCHANGED seq

-----------------------------------------------------------------------------
Assign(h, n, x) == Tries(h, "Assign", <<h, n, x>>, [k \in 1..n |-> x])

Set(h, i, x) ==
    Does(h, "Set", <<h, i, x>>,
         IF i < Len(seq[h]) THEN [seq[h] EXCEPT ![i + 1] = x] ELSE seq[h])

Reserve(h, n) == Tries(h, "Reserve", <<h, n>>, seq[h])

ShrinkToFit(h) == Tries(h, "ShrinkToFit", <<h>>, seq[h])

Clear(h) == Does(h, "Clear", <<h>>, <<>>)

Insert(h, i, x) == Tries(h, "Insert", <<h, i, x>>, Added(seq[h], i, x))

Erase(h, i) ==
    Does(h, "Erase", <<h, i>>,
         IF i < Len(seq[h]) THEN Without(seq[h], i) ELSE seq[h])

PushBack(h, x) == Tries(h, "PushBack", <<h, x>>, Append(seq[h], x))

PopBack(h) ==
    /\ Called("PopBack", <<h>>, {})
    /\ out' = ElementOrNone(seq[h], Len(seq[h]))
    /\ seq' = [seq EXCEPT ![h] = SubSeq(@, 1, Len(@) - 1)]

Resize(h, n) == Tries(h, "Resize", <<h, n>>, Adjusted(seq[h], n, 0))

ResizeFill(h, n, x) ==
    Tries(h, "ResizeFill", <<h, n, x>>, Adjusted(seq[h], n, x))

Sort(h) ==
    /\ Called("Sort", <<h>>, {})
    /\ \E s \in Reorderings(seq[h]) : Sorted(s) /\ Becomes(h, s)

Destroy(h) == Does(h, "Destroy", <<h>>, <<>>)

Swap(g, h) ==
    /\ Called("Swap", <<g, h>>, {})
    /\ UNCHANGED out
    /\ seq' = [seq EXCEPT ![g] = seq[h], ![h] = seq[g]]

-----------------------------------------------------------------------------
At(h, i) == Answers("At", <<h, i>>, ElementOrNone(seq[h], i + 1))

Front(h) == Answers("Front", <<h>>, ElementOrNone(seq[h], 1))

Back(h) == Answers("Back", <<h>>, ElementOrNone(seq[h], Len(seq[h])))

Size(h) == Answers("Size", <<h>>, Len(seq[h]))

\* The place of the first x; -1 if there is none.
LinearSearch(h, x) ==
    \/ \E i \in Places(seq[h], x) :
          /\ \A j \in Places(seq[h], x) : i <= j
          /\ Answers("LinearSearch", <<h, x>>, i - 1)
    \/ Places(seq[h], x) = {} /\ Answers("LinearSearch", <<h, x>>, -1)

\* Only a sorted sequence makes -1 an answer to rely on.
BinarySearch(h, x) ==
    \/ \E i \in Places(seq[h], x) : Answers("BinarySearch", <<h, x>>, i - 1)
    \/ /\ Sorted(seq[h]) => Places(seq[h], x) = {}
       /\ Answers("BinarySearch", <<h, x>>, -1)

Next ==
    \E h \in Handles :
        \/ ShrinkToFit(h) \/ Clear(h) \/ PopBack(h) \/ Sort(h) \/ Destroy(h)
        \/ Front(h) \/ Back(h) \/ Size(h)
        \/ \E n \in Counts : Reserve(h, n) \/ Resize(h, n)
        \/ \E n \in Counts, x \in Values : Assign(h, n, x) \/ ResizeFill(h, n, x)
        \/ \E i \in 0..Len(seq[h]) + 1 : Erase(h, i) \/ At(h, i)
        \/ \E i \in 0..Len(seq[h]) + 1, x \in Values :
              Set(h, i, x) \/ Insert(h, i, x)
        \/ \E x \in Values :
              PushBack(h, x) \/ LinearSearch(h, x) \/ BinarySearch(h, x)
        \/ \E other \in Handles : Swap(h, other)

vars == <<seq, out, call>>

Spec == Init /\ [][Next]_vars
=============================================================================
