------------------------------ MODULE VectorOps ------------------------------
(***************************************************************************)
(* CMotive_AnyVector, the storage of Vector, List, Dlist and the trees: a  *)
(* block of cells and the count of those in use.  Every operator here is   *)
(* one function of runtime.c on one vector.  A function that may allocate  *)
(* returns the set of its outcomes, for realloc may fail.  Indexes are     *)
(* those of C: cell i of the block is cells[i + 1].                        *)
(*                                                                         *)
(* fault records an access outside of the block.                           *)
(***************************************************************************)
EXTENDS Integers, Sequences, FiniteSets

CONSTANTS
    Values,     \* what is stored: integers, 0 among them
    Junk,       \* what memory holds before anything is stored in it
    FirstCap    \* the capacity the first growth gives: 8 in the code

ASSUME VectorAssumption ==
    /\ Values \subseteq Int
    /\ 0 \in Values
    /\ Junk \in Int \ Values
    /\ FirstCap \in Nat \ {0}

Vectors ==
    [cells : Seq(Values \union {Junk}), count : Nat, fault : BOOLEAN]

NewVector == [cells |-> <<>>, count |-> 0, fault |-> FALSE]

Cap(v) == Len(v.cells)

\* The elements of the vector, which is all that its user may see.
Contents(v) == SubSeq(v.cells, 1, v.count)

Ok(v) == [rc |-> 0, vec |-> v]

Failed(v) == [rc |-> -1, vec |-> v]

Smaller(a, b) == IF a < b THEN a ELSE b

-----------------------------------------------------------------------------
(* The C library: realloc, memcpy of one element, memmove of n.            *)

Realloc(v, cap) ==
    [v EXCEPT !.cells =
        [k \in 1..cap |-> IF k <= Cap(v) THEN v.cells[k] ELSE Junk]]

Store(v, i, x) ==
    IF i < Cap(v)
    THEN [v EXCEPT !.cells[i + 1] = x]
    ELSE [v EXCEPT !.fault = TRUE]

Move(v, to, from, n) ==
    IF n = 0 \/ (to + n <= Cap(v) /\ from + n <= Cap(v))
    THEN [v EXCEPT !.cells =
            [k \in DOMAIN v.cells |->
                IF k \in (to + 1)..(to + n)
                THEN v.cells[k - to + from] ELSE v.cells[k]]]
    ELSE [v EXCEPT !.fault = TRUE]

-----------------------------------------------------------------------------
(* The functions that may grow the block.                                  *)

Reserve(v, cap) ==
    IF cap <= Cap(v) THEN {Ok(v)} ELSE {Ok(Realloc(v, cap)), Failed(v)}

\* Mutant: no growth for the last free cell.
MakeRoomLate(v) ==
    IF v.count > Cap(v) \/ Cap(v) = 0
    THEN Reserve(v, IF Cap(v) > 0 THEN 2 * Cap(v) ELSE FirstCap)
    ELSE {Ok(v)}

\* A cell for one more element.
MakeRoom(v) ==
    IF v.count = Cap(v)
    THEN Reserve(v, IF Cap(v) > 0 THEN 2 * Cap(v) ELSE FirstCap)
    ELSE {Ok(v)}

PushBackOn(v, x) ==
    {IF r.rc = 0
     THEN Ok([Store(r.vec, v.count, x) EXCEPT !.count = v.count + 1])
     ELSE r : r \in MakeRoom(v)}

\* An index past the end inserts at the end.
InsertOn(v, index, x) ==
    LET i == Smaller(index, v.count)
    IN  {IF r.rc = 0
         THEN LET moved == Move(r.vec, i + 1, i, v.count - i)
              IN  Ok([Store(moved, i, x) EXCEPT !.count = v.count + 1])
         ELSE r : r \in MakeRoom(v)}

\* Mutant: the old elements are dropped before there is room.
AssignOnDropped(v, n, x) ==
    {IF r.rc = 0
     THEN Ok([r.vec EXCEPT
                !.cells = [k \in DOMAIN @ |-> IF k <= n THEN x ELSE @[k]],
                !.count = n])
     ELSE r : r \in Reserve([v EXCEPT !.count = 0], n)}

\* The old elements are dropped only once there is room for the new ones.
AssignOn(v, n, x) ==
    {IF r.rc = 0
     THEN Ok([r.vec EXCEPT
                !.cells = [k \in DOMAIN @ |-> IF k <= n THEN x ELSE @[k]],
                !.count = n])
     ELSE r : r \in Reserve(v, n)}

\* x is 0 where the code is given no value.
ResizeOn(v, n, x) ==
    {IF r.rc = 0
     THEN Ok([r.vec EXCEPT
                !.cells = [k \in DOMAIN @ |->
                              IF k \in (v.count + 1)..n THEN x ELSE @[k]],
                !.count = n])
     ELSE r : r \in Reserve(v, n)}

\* Mutant: one cell too few is kept.
ShrinkToFitOnShort(v) ==
    IF v.count = Cap(v) THEN {Ok(v)}
    ELSE IF v.count = 0 THEN {Ok([v EXCEPT !.cells = <<>>])}
    ELSE {Ok(Realloc(v, v.count - 1)), Failed(v)}

ShrinkToFitOn(v) ==
    IF v.count = Cap(v) THEN {Ok(v)}
    ELSE IF v.count = 0 THEN {Ok([v EXCEPT !.cells = <<>>])}
    ELSE {Ok(Realloc(v, v.count)), Failed(v)}

-----------------------------------------------------------------------------
(* The functions that do not allocate.                                     *)

SetOn(v, i, x) == IF i < v.count THEN Store(v, i, x) ELSE v

EraseOn(v, i) ==
    IF i < v.count
    THEN [Move(v, i, i + 1, v.count - i - 1) EXCEPT !.count = v.count - 1]
    ELSE v

PopBackOn(v) == IF v.count > 0 THEN [v EXCEPT !.count = @ - 1] ELSE v

\* What a read returns; the wrappers return 0 when it fails.
ElementAt(v, i) == IF i < v.count THEN v.cells[i + 1] ELSE 0

LastElement(v) == IF v.count > 0 THEN v.cells[v.count] ELSE 0

HowMany(s, x) == Cardinality({i \in DOMAIN s : s[i] = x})

\* qsort: any order of the elements of s that increases.
InOrder(s) ==
    {t \in [DOMAIN s -> Values] :
        /\ \A i, j \in DOMAIN s : i < j => t[i] <= t[j]
        /\ \A x \in Values : HowMany(t, x) = HowMany(s, x)}

SortOn(v) ==
    {[v EXCEPT !.cells = [k \in DOMAIN @ |-> IF k <= v.count THEN t[k] ELSE @[k]]]
        : t \in InOrder(Contents(v))}

\* The index of the first element equal to x, or -1.
FindOn(v, x) ==
    LET From[i \in 0..v.count] ==
            IF i = v.count THEN -1
            ELSE IF v.cells[i + 1] = x THEN i
            ELSE From[i + 1]
    IN  From[0]

\* The half-open interval lo, hi shrinks until it is empty or x is met.
BinarySearchOn(v, x) ==
    LET Probe[p \in (0..v.count) \X (0..v.count)] ==
            LET lo == p[1]
                hi == p[2]
                mid == lo + (hi - lo) \div 2
                val == v.cells[mid + 1]
            IN  IF lo >= hi THEN -1
                ELSE IF val = x THEN mid
                ELSE IF val < x THEN Probe[<<mid + 1, hi>>]
                ELSE Probe[<<lo, mid>>]
    IN  Probe[<<0, v.count>>]
=============================================================================
