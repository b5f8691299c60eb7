-------------------------- MODULE ContainersProofs --------------------------
(***************************************************************************)
(* Proofs about AnyVector, for any objects, values and capacities; then    *)
(* what they and MapProofs say of a program that has vectors, a tree and   *)
(* maps side by side; and the proofs about the tree.                       *)
(***************************************************************************)
EXTENDS MCContainers, SequenceTheorems, FiniteSetTheorems,
        WellFoundedInduction, TLAPS

-----------------------------------------------------------------------------
(* The vectors.                                                            *)
USE VectorAssumption

Cells == Values \union {Junk}

\* A vector whose elements lie in its block and were all stored by somebody,
\* and that has been used so far without an access outside of the block.
Sound(v) ==
    /\ v \in Vectors
    /\ v.count <= Cap(v)
    /\ \A k \in 1..v.count : v.cells[k] \in Values
    /\ v.fault = FALSE

\* w has the elements of v.
Keeps(w, v) ==
    /\ w.count = v.count
    /\ \A k \in 1..v.count : w.cells[k] = v.cells[k]

\* A block of n cells.
LEMMA BlockOfCells ==
    ASSUME NEW n \in Nat, NEW f \in [1..n -> Cells]
    PROVE  f \in Seq(Cells) /\ Len(f) = n /\ DOMAIN f = 1..n
  <1>1. f \in Seq(Cells)
    BY SeqDef
  <1>2. DOMAIN f = 1..n
    OBVIOUS
  <1>3. QED
    BY <1>1, <1>2, LenProperties

\* What is known of the parts of a sound vector.
LEMMA SoundParts ==
    ASSUME NEW v, Sound(v)
    PROVE  /\ v.cells \in Seq(Cells)
           /\ v.cells \in [1..Cap(v) -> Cells]
           /\ DOMAIN v.cells = 1..Cap(v)
           /\ Cap(v) \in Nat
           /\ v.count \in Nat
           /\ v.count <= Cap(v)
           /\ \A k \in 1..v.count : v.cells[k] \in Values
           /\ v.fault = FALSE
  <1>1. v.cells \in Seq(Cells) /\ v.count \in Nat /\ v.fault = FALSE
    BY DEF Sound, Vectors, Cells
  <1>2. QED
    BY <1>1, LenProperties DEF Sound, Cap

\* Cells of a block and a count in it make a sound vector.
LEMMA MakesSound ==
    ASSUME NEW n \in Nat, NEW f \in [1..n -> Cells], NEW c \in Nat, c <= n,
           \A k \in 1..c : f[k] \in Values
    PROVE  Sound([cells |-> f, count |-> c, fault |-> FALSE])
           /\ Cap([cells |-> f, count |-> c, fault |-> FALSE]) = n
  BY BlockOfCells DEF Sound, Vectors, Cells, Cap

\* The other parts of a vector stay when one is replaced.
LEMMA Replaced ==
    ASSUME NEW v, Sound(v), NEW x
    PROVE  /\ [v EXCEPT !.cells = x]
                = [cells |-> x, count |-> v.count, fault |-> v.fault]
           /\ [v EXCEPT !.count = x]
                = [cells |-> v.cells, count |-> x, fault |-> v.fault]
  BY DEF Sound, Vectors

\* The cells of a vector may be replaced by as many others as hold them all.
LEMMA CellsSound ==
    ASSUME NEW v, Sound(v), NEW n \in Nat, v.count <= n, NEW f \in [1..n -> Cells],
           \A k \in 1..v.count : f[k] \in Values
    PROVE  /\ Sound([v EXCEPT !.cells = f])
           /\ Cap([v EXCEPT !.cells = f]) = n
           /\ [v EXCEPT !.cells = f].count = v.count
           /\ [v EXCEPT !.cells = f].cells = f
  <1>1. [v EXCEPT !.cells = f] = [cells |-> f, count |-> v.count, fault |-> FALSE]
    BY SoundParts, Replaced
  <1>2. v.count \in Nat
    BY SoundParts
  <1> DEFINE w == [cells |-> f, count |-> v.count, fault |-> FALSE]
  <1>3. Sound(w) /\ Cap(w) = n
    BY <1>2, MakesSound
  <1>4. QED
    BY <1>1, <1>3

\* The count may change within the block, if it uncovers no junk.
LEMMA CountSound ==
    ASSUME NEW v, Sound(v), NEW c \in Nat, c <= Cap(v),
           \A k \in 1..c : v.cells[k] \in Values
    PROVE  /\ Sound([v EXCEPT !.count = c])
           /\ Cap([v EXCEPT !.count = c]) = Cap(v)
           /\ [v EXCEPT !.count = c].count = c
           /\ [v EXCEPT !.count = c].cells = v.cells
  <1>1. [v EXCEPT !.count = c] = [cells |-> v.cells, count |-> c, fault |-> FALSE]
    <2>1. v.fault = FALSE
      BY SoundParts
    <2>2. [v EXCEPT !.count = c]
              = [cells |-> v.cells, count |-> c, fault |-> v.fault]
      BY DEF Sound, Vectors
    <2>3. QED
      BY <2>1, <2>2
  <1>2. v.cells \in [1..Cap(v) -> Cells] /\ Cap(v) \in Nat
    BY SoundParts
  <1> DEFINE w == [cells |-> v.cells, count |-> c, fault |-> FALSE]
  <1>3. Sound(w) /\ Cap(w) = Cap(v)
    BY <1>2, MakesSound
  <1>4. QED
    BY <1>1, <1>3

\* v with other cells and another count.
Rebuilt(v, f, c) == [v EXCEPT !.cells = f, !.count = c]

\* The first c of the cells f may be the elements of v.
Fits(v, f, c) ==
    /\ c \in Nat /\ c <= Cap(v)
    /\ f \in [1..Cap(v) -> Cells]
    /\ \A k \in 1..c : f[k] \in Values

\* Both at once.
LEMMA OverwrittenSound ==
    ASSUME NEW v, Sound(v), NEW c, NEW f, Fits(v, f, c), NEW w, w = Rebuilt(v, f, c)
    PROVE  Sound(w) /\ w.count = c /\ w.cells = f
  <1>1. w = [cells |-> f, count |-> c, fault |-> FALSE]
    <2>1. v.fault = FALSE
      BY SoundParts
    <2>2. [v EXCEPT !.cells = f, !.count = c] = [[v EXCEPT !.cells = f] EXCEPT !.count = c]
      BY DEF Sound, Vectors
    <2>3. [v EXCEPT !.cells = f] = [cells |-> f, count |-> v.count, fault |-> v.fault]
      BY Replaced
    <2>4. \A u : u = [cells |-> f, count |-> v.count, fault |-> v.fault]
              => [u EXCEPT !.count = c] = [cells |-> f, count |-> c, fault |-> v.fault]
      OBVIOUS
    <2>5. QED
      BY <2>1, <2>2, <2>3, <2>4, Zenon DEF Rebuilt
  <1>2. Cap(v) \in Nat
    BY SoundParts
  <1> DEFINE u == [cells |-> f, count |-> c, fault |-> FALSE]
  <1>3. Sound(u)
    BY <1>2, MakesSound DEF Fits
  <1>4. QED
    BY <1>1, <1>3

\* realloc keeps what is in the block, as far as it goes.
LEMMA ReallocSound ==
    ASSUME NEW v, Sound(v), NEW cap \in Nat, v.count <= cap
    PROVE  /\ Sound(Realloc(v, cap))
           /\ Cap(Realloc(v, cap)) = cap
           /\ Keeps(Realloc(v, cap), v)
  <1> DEFINE f == [k \in 1..cap |-> IF k <= Cap(v) THEN v.cells[k] ELSE Junk]
  <1>0. /\ v.cells \in [1..Cap(v) -> Cells]
        /\ DOMAIN v.cells = 1..Cap(v)
        /\ Cap(v) \in Nat /\ v.count \in Nat /\ v.count <= Cap(v)
        /\ \A k \in 1..v.count : v.cells[k] \in Values
    BY SoundParts
  <1>1. f \in [1..cap -> Cells]
    BY <1>0 DEF Cells
  <1>2. \A k \in 1..v.count : f[k] = v.cells[k]
    BY <1>0
  <1>3. Realloc(v, cap) = [v EXCEPT !.cells = f]
    BY DEF Realloc
  <1> HIDE DEF f
  <1>4. QED
    BY <1>0, <1>1, <1>2, <1>3, CellsSound DEF Keeps

\* Reserve, successful or not, keeps the elements; when it is successful there
\* is room.
LEMMA ReserveSound ==
    ASSUME NEW v, Sound(v), NEW cap \in Nat, NEW r \in Reserve(v, cap)
    PROVE  /\ Sound(r.vec)
           /\ Keeps(r.vec, v)
           /\ r.rc = 0 => Cap(r.vec) >= cap
  <1>0. Cap(v) \in Nat /\ v.count \in Nat /\ v.count <= Cap(v)
    BY SoundParts
  <1>1. Keeps(v, v)
    BY DEF Keeps
  <1>2. CASE cap <= Cap(v)
    BY <1>0, <1>1, <1>2 DEF Reserve, Ok
  <1>3. CASE ~(cap <= Cap(v))
    <2>1. r = Ok(Realloc(v, cap)) \/ r = Failed(v)
      BY <1>3 DEF Reserve
    <2>2. /\ Sound(Realloc(v, cap))
          /\ Cap(Realloc(v, cap)) = cap
          /\ Keeps(Realloc(v, cap), v)
      BY <1>0, <1>3, ReallocSound
    <2>3. QED
      BY <1>0, <1>1, <2>1, <2>2 DEF Ok, Failed
  <1>4. QED
    BY <1>2, <1>3

\* There is a cell for one more element when the growth was successful.
LEMMA MakeRoomSound ==
    ASSUME NEW v, Sound(v), NEW r \in MakeRoom(v)
    PROVE  /\ Sound(r.vec)
           /\ Keeps(r.vec, v)
           /\ r.rc = 0 => v.count < Cap(r.vec)
  <1> DEFINE cap == IF Cap(v) > 0 THEN 2 * Cap(v) ELSE FirstCap
  <1>0. Cap(v) \in Nat /\ v.count \in Nat /\ v.count <= Cap(v)
    BY SoundParts
  <1>1. cap \in Nat /\ cap > Cap(v)
    BY <1>0
  <1>2. CASE v.count = Cap(v)
    <2>1. r \in Reserve(v, cap)
      BY <1>2 DEF MakeRoom
    <2> HIDE DEF cap
    <2>2. Sound(r.vec) /\ Keeps(r.vec, v) /\ (r.rc = 0 => Cap(r.vec) >= cap)
      BY <1>1, <2>1, ReserveSound
    <2>3. r.rc = 0 => Cap(r.vec) \in Nat
      BY <2>2, SoundParts
    <2>4. QED
      BY <1>0, <1>1, <1>2, <2>2, <2>3
  <1>3. CASE v.count # Cap(v)
    BY <1>0, <1>3 DEF MakeRoom, Ok, Keeps
  <1>4. QED
    BY <1>2, <1>3

\* An element is stored into a cell of the block.
LEMMA StoreSound ==
    ASSUME NEW v, Sound(v), NEW i \in Nat, i < Cap(v), NEW x \in Values
    PROVE  /\ Sound(Store(v, i, x))
           /\ Cap(Store(v, i, x)) = Cap(v)
           /\ Store(v, i, x).count = v.count
           /\ Store(v, i, x).cells[i + 1] = x
           /\ \A k \in 1..Cap(v) : k # i + 1 => Store(v, i, x).cells[k] = v.cells[k]
  <1> DEFINE f == [v.cells EXCEPT ![i + 1] = x]
  <1>0. /\ v.cells \in [1..Cap(v) -> Cells]
        /\ DOMAIN v.cells = 1..Cap(v)
        /\ Cap(v) \in Nat /\ v.count \in Nat /\ v.count <= Cap(v)
        /\ \A k \in 1..v.count : v.cells[k] \in Values
    BY SoundParts
  <1>1. f \in [1..Cap(v) -> Cells]
    BY <1>0 DEF Cells
  <1>2. f[i + 1] = x /\ \A k \in 1..Cap(v) : k # i + 1 => f[k] = v.cells[k]
    BY <1>0
  <1>3. Store(v, i, x) = [v EXCEPT !.cells = f]
    BY DEF Store
  <1> HIDE DEF f
  <1>4. \A k \in 1..v.count : f[k] \in Values
    BY <1>0, <1>2
  <1>5. /\ Sound([v EXCEPT !.cells = f])
        /\ Cap([v EXCEPT !.cells = f]) = Cap(v)
        /\ [v EXCEPT !.cells = f].count = v.count
        /\ [v EXCEPT !.cells = f].cells = f
    BY <1>0, <1>1, <1>4, CellsSound
  <1>6. QED
    BY <1>2, <1>3, <1>5

\* w has the n elements of v that start at from also where to starts.
Moved(w, v, to, from, n) ==
    \A k \in 1..Cap(v) :
       w.cells[k] = IF k \in (to + 1)..(to + n) THEN v.cells[k - to + from] ELSE v.cells[k]

\* Elements are moved within the block.
LEMMA MoveSound ==
    ASSUME NEW v, Sound(v), NEW to \in Nat, NEW from \in Nat, NEW n \in Nat,
           to + n <= Cap(v), from + n <= v.count
    PROVE  /\ Sound(Move(v, to, from, n))
           /\ Cap(Move(v, to, from, n)) = Cap(v)
           /\ Move(v, to, from, n).count = v.count
           /\ Moved(Move(v, to, from, n), v, to, from, n)
  <1> DEFINE f == [k \in DOMAIN v.cells |->
                      IF k \in (to + 1)..(to + n)
                      THEN v.cells[k - to + from] ELSE v.cells[k]]
  <1>0. /\ v.cells \in [1..Cap(v) -> Cells]
        /\ DOMAIN v.cells = 1..Cap(v)
        /\ Cap(v) \in Nat /\ v.count \in Nat /\ v.count <= Cap(v)
        /\ \A k \in 1..v.count : v.cells[k] \in Values
    BY SoundParts
  <1>1. \A k \in (to + 1)..(to + n) : k - to + from \in 1..v.count
    BY <1>0
  <1>2. /\ f \in [1..Cap(v) -> Cells]
        /\ \A k \in 1..v.count : f[k] \in Values
    BY <1>0, <1>1, SMTT(30) DEF Cells
  <1>3. \A k \in 1..Cap(v) :
           f[k] = IF k \in (to + 1)..(to + n) THEN v.cells[k - to + from] ELSE v.cells[k]
    BY <1>0
  <1>4. Move(v, to, from, n) = [v EXCEPT !.cells = f]
    <2>1. n = 0 \/ (to + n <= Cap(v) /\ from + n <= Cap(v))
      BY <1>0
    <2>2. QED
      BY <2>1 DEF Move
  <1> HIDE DEF f
  <1>5. /\ Sound([v EXCEPT !.cells = f])
        /\ Cap([v EXCEPT !.cells = f]) = Cap(v)
        /\ [v EXCEPT !.cells = f].count = v.count
        /\ [v EXCEPT !.cells = f].cells = f
    BY <1>0, <1>2, CellsSound
  <1>6. QED
    BY <1>3, <1>4, <1>5 DEF Moved

-----------------------------------------------------------------------------
(* The operations, and what they do to the elements.                       *)

\* w has the elements of v and x, behind the first i of them.
Inserted(w, v, i, x) ==
    /\ w.count = v.count + 1
    /\ \A k \in 1..w.count :
          w.cells[k] = IF k <= i THEN v.cells[k]
                       ELSE IF k = i + 1 THEN x ELSE v.cells[k - 1]

\* w has the elements of v but the one behind the first i of them.
Erased(w, v, i) ==
    /\ w.count = v.count - 1
    /\ \A k \in 1..w.count :
          w.cells[k] = IF k <= i THEN v.cells[k] ELSE v.cells[k + 1]

\* w has n elements, those of v that there are, the others x.
Adjusted(w, v, n, x) ==
    /\ w.count = n
    /\ \A k \in 1..n : w.cells[k] = IF k <= v.count THEN v.cells[k] ELSE x

\* push_back: the element or, only without memory, nothing.
LEMMA PushBackSound ==
    ASSUME NEW v, Sound(v), NEW x \in Values, NEW s \in PushBackOn(v, x)
    PROVE  /\ Sound(s.vec)
           /\ s.rc = 0 => Inserted(s.vec, v, v.count, x)
           /\ s.rc # 0 => Keeps(s.vec, v)
  <1>0. Cap(v) \in Nat /\ v.count \in Nat /\ v.count <= Cap(v)
    BY SoundParts
  <1>1. PICK r \in MakeRoom(v) :
          s = IF r.rc = 0
              THEN Ok([Store(r.vec, v.count, x) EXCEPT !.count = v.count + 1])
              ELSE r
    BY DEF PushBackOn
  <1>2. Sound(r.vec) /\ Keeps(r.vec, v) /\ (r.rc = 0 => v.count < Cap(r.vec))
    BY MakeRoomSound
  <1>3. CASE r.rc = 0
    <2>1. Cap(r.vec) \in Nat /\ \A k \in 1..v.count : v.cells[k] \in Values
      BY <1>2, SoundParts
    <2>2. PICK w : w = Store(r.vec, v.count, x)
      OBVIOUS
    <2>3. /\ Sound(w) /\ Cap(w) = Cap(r.vec)
          /\ w.cells[v.count + 1] = x
          /\ \A k \in 1..Cap(r.vec) : k # v.count + 1 => w.cells[k] = r.vec.cells[k]
      <3>1. PICK u : u = r.vec /\ Sound(u) /\ v.count < Cap(u)
        BY <1>2, <1>3
      <3>2. /\ Sound(Store(u, v.count, x)) /\ Cap(Store(u, v.count, x)) = Cap(u)
            /\ Store(u, v.count, x).cells[v.count + 1] = x
            /\ \A k \in 1..Cap(u) : k # v.count + 1 =>
                  Store(u, v.count, x).cells[k] = u.cells[k]
        BY <1>0, <3>1, StoreSound
      <3>3. QED
        BY <2>2, <3>1, <3>2
    <2>4. \A k \in 1..v.count : w.cells[k] = v.cells[k]
      BY <1>0, <1>2, <1>3, <2>1, <2>3 DEF Keeps
    <2>5. \A k \in 1..(v.count + 1) : w.cells[k] \in Values
      BY <1>0, <2>1, <2>3, <2>4
    <2>6. v.count + 1 \in Nat /\ v.count + 1 <= Cap(w)
      BY <1>0, <1>2, <1>3, <2>1, <2>3
    <2>7. /\ Sound([w EXCEPT !.count = v.count + 1])
          /\ [w EXCEPT !.count = v.count + 1].count = v.count + 1
          /\ [w EXCEPT !.count = v.count + 1].cells = w.cells
      BY <2>3, <2>5, <2>6, CountSound
    <2>8. s.rc = 0 /\ s.vec = [w EXCEPT !.count = v.count + 1]
      BY <1>1, <1>3, <2>2 DEF Ok
    <2>9. Inserted(s.vec, v, v.count, x)
      BY <1>0, <2>3, <2>4, <2>7, <2>8 DEF Inserted
    <2>10. QED
      BY <2>7, <2>8, <2>9
  <1>4. QED
    BY <1>1, <1>2, <1>3

\* insert: the cells above the place move up into the block.
LEMMA InsertSound ==
    ASSUME NEW v, Sound(v), NEW index \in Nat, NEW x \in Values,
           NEW s \in InsertOn(v, index, x)
    PROVE  /\ Sound(s.vec)
           /\ s.rc = 0 => Inserted(s.vec, v, Smaller(index, v.count), x)
           /\ s.rc # 0 => Keeps(s.vec, v)
  <1>0. Cap(v) \in Nat /\ v.count \in Nat /\ v.count <= Cap(v)
    BY SoundParts
  <1>1. PICK i \in 0..v.count : i = Smaller(index, v.count)
    BY <1>0 DEF Smaller
  <1>2. PICK r \in MakeRoom(v) :
          s = IF r.rc = 0
              THEN Ok([Store(Move(r.vec, i + 1, i, v.count - i), i, x)
                          EXCEPT !.count = v.count + 1])
              ELSE r
    BY <1>1 DEF InsertOn
  <1>3. Sound(r.vec) /\ Keeps(r.vec, v) /\ (r.rc = 0 => v.count < Cap(r.vec))
    BY MakeRoomSound
  <1>4. CASE r.rc = 0
    <2>1. /\ Cap(r.vec) \in Nat /\ v.count < Cap(r.vec) /\ r.vec.count = v.count
          /\ \A k \in 1..v.count : v.cells[k] \in Values /\ r.vec.cells[k] = v.cells[k]
      BY <1>3, <1>4, SoundParts DEF Keeps
    <2>2. /\ i \in Nat /\ i + 1 \in Nat /\ v.count - i \in Nat
          /\ i + 1 + (v.count - i) <= Cap(r.vec) /\ i + (v.count - i) <= r.vec.count
          /\ i + 1 + (v.count - i) = v.count + 1 /\ (i + 1) + 1 = i + 2
      BY <1>0, <1>1, <2>1
    <2>3. PICK moved : moved = Move(r.vec, i + 1, i, v.count - i)
      OBVIOUS
    <2>4. /\ Sound(moved) /\ Cap(moved) = Cap(r.vec)
          /\ \A k \in 1..Cap(r.vec) : moved.cells[k] =
                IF k \in ((i + 1) + 1)..(i + 1 + (v.count - i))
                THEN r.vec.cells[k - (i + 1) + i] ELSE r.vec.cells[k]
      <3>1. PICK u, to, n : u = r.vec /\ to = i + 1 /\ n = v.count - i
        OBVIOUS
      <3>2. /\ Sound(u) /\ to \in Nat /\ i \in Nat /\ n \in Nat
            /\ to + n <= Cap(u) /\ i + n <= u.count
        BY <1>3, <2>2, <3>1
      <3>3. /\ Sound(Move(u, to, i, n)) /\ Cap(Move(u, to, i, n)) = Cap(u)
            /\ Moved(Move(u, to, i, n), u, to, i, n)
        BY <3>2, MoveSound
      <3>4. QED
        BY <2>3, <3>1, <3>3 DEF Moved
    <2>5. PICK w : w = Store(moved, i, x)
      OBVIOUS
    <2>6. /\ Sound(w) /\ Cap(w) = Cap(r.vec)
          /\ w.cells[i + 1] = x
          /\ \A k \in 1..Cap(r.vec) : k # i + 1 => w.cells[k] = moved.cells[k]
      <3>1. i < Cap(moved)
        BY <1>0, <1>1, <2>1, <2>4
      <3>2. QED
        BY <2>2, <2>4, <2>5, <3>1, StoreSound
    <2>7. \A k \in 1..(v.count + 1) :
             w.cells[k] = IF k <= i THEN v.cells[k]
                          ELSE IF k = i + 1 THEN x ELSE v.cells[k - 1]
      <3> SUFFICES ASSUME NEW k \in 1..(v.count + 1)
                   PROVE  w.cells[k] = IF k <= i THEN v.cells[k]
                                       ELSE IF k = i + 1 THEN x ELSE v.cells[k - 1]
        OBVIOUS
      <3>1. k \in 1..Cap(r.vec)
        BY <1>0, <2>1
      <3>2. CASE k <= i
        <4>1. k \notin ((i + 1) + 1)..(i + 1 + (v.count - i)) /\ k \in 1..v.count /\ k # i + 1
          BY <1>0, <3>2
        <4>2. QED
          BY <2>1, <2>4, <2>6, <3>1, <3>2, <4>1
      <3>3. CASE k = i + 1
        BY <2>6, <3>3
      <3>4. CASE k > i + 1
        <4>1. /\ k \in ((i + 1) + 1)..(i + 1 + (v.count - i))
              /\ k - (i + 1) + i = k - 1 /\ k - 1 \in 1..v.count /\ ~(k <= i)
          BY <1>0, <3>4
        <4>2. w.cells[k] = moved.cells[k] /\ moved.cells[k] = r.vec.cells[k - 1]
          BY <2>4, <2>6, <3>1, <3>4, <4>1
        <4>3. QED
          BY <2>1, <3>4, <4>1, <4>2
      <3>5. QED
        BY <3>2, <3>3, <3>4
    <2>8. \A k \in 1..(v.count + 1) : w.cells[k] \in Values
      BY <1>0, <2>1, <2>7
    <2>9. v.count + 1 \in Nat /\ v.count + 1 <= Cap(w)
      BY <1>0, <2>1, <2>6
    <2>10. /\ Sound([w EXCEPT !.count = v.count + 1])
           /\ [w EXCEPT !.count = v.count + 1].count = v.count + 1
           /\ [w EXCEPT !.count = v.count + 1].cells = w.cells
      BY <2>6, <2>8, <2>9, CountSound
    <2>11. s.rc = 0 /\ s.vec = [w EXCEPT !.count = v.count + 1]
      BY <1>2, <1>4, <2>3, <2>5 DEF Ok
    <2>12. Inserted(s.vec, v, i, x)
      BY <2>7, <2>10, <2>11, SMTT(30) DEF Inserted
    <2>13. QED
      BY <1>1, <2>10, <2>11, <2>12
  <1>5. QED
    BY <1>2, <1>3, <1>4

\* assign, whether there is memory or not.
LEMMA AssignSound ==
    ASSUME NEW v, Sound(v), NEW n \in Nat, NEW x \in Values,
           NEW s \in AssignOn(v, n, x)
    PROVE  /\ Sound(s.vec)
           /\ s.rc = 0 => s.vec.count = n /\ \A k \in 1..n : s.vec.cells[k] = x
           /\ s.rc # 0 => Keeps(s.vec, v)
  <1> DEFINE f(w) == [k \in DOMAIN w.cells |-> IF k <= n THEN x ELSE w.cells[k]]
  <1>1. PICK r \in Reserve(v, n) :
          s = IF r.rc = 0 THEN Ok([r.vec EXCEPT !.cells = f(r.vec), !.count = n])
              ELSE r
    BY DEF AssignOn
  <1>2. Sound(r.vec) /\ Keeps(r.vec, v) /\ (r.rc = 0 => Cap(r.vec) >= n)
    BY ReserveSound
  <1>3. CASE r.rc = 0
    <2>1. /\ r.vec.cells \in [1..Cap(r.vec) -> Cells]
          /\ DOMAIN r.vec.cells = 1..Cap(r.vec)
          /\ Cap(r.vec) \in Nat /\ Cap(r.vec) >= n
      BY <1>2, <1>3, SoundParts
    <2>2. /\ f(r.vec) \in [1..Cap(r.vec) -> Cells]
          /\ \A k \in 1..n : f(r.vec)[k] = x
      BY <2>1 DEF Cells
    <2> HIDE DEF f
    <2>3. PICK w : w = Rebuilt(r.vec, f(r.vec), n)
      OBVIOUS
    <2>4. Sound(w) /\ w.count = n /\ w.cells = f(r.vec)
      <3>1. PICK u, g : u = r.vec /\ g = f(r.vec)
        OBVIOUS
      <3>2. /\ Sound(u) /\ n <= Cap(u) /\ g \in [1..Cap(u) -> Cells]
            /\ \A k \in 1..n : g[k] \in Values
            /\ w = Rebuilt(u, g, n)
        BY <1>2, <2>1, <2>2, <2>3, <3>1
      <3>3. Fits(u, g, n)
        BY <3>2 DEF Fits
      <3>4. QED
        BY <3>1, <3>2, <3>3, OverwrittenSound
    <2>5. s.rc = 0 /\ s.vec = w
      BY <1>1, <1>3, <2>3 DEF Ok, f, Rebuilt
    <2>6. QED
      BY <2>2, <2>4, <2>5
  <1>4. QED
    BY <1>1, <1>2, <1>3

\* resize, whether there is memory or not.
LEMMA ResizeSound ==
    ASSUME NEW v, Sound(v), NEW n \in Nat, NEW x \in Values,
           NEW s \in ResizeOn(v, n, x)
    PROVE  /\ Sound(s.vec)
           /\ s.rc = 0 => Adjusted(s.vec, v, n, x)
           /\ s.rc # 0 => Keeps(s.vec, v)
  <1> DEFINE f(w) == [k \in DOMAIN w.cells |->
                         IF k \in (v.count + 1)..n THEN x ELSE w.cells[k]]
  <1>1. PICK r \in Reserve(v, n) :
          s = IF r.rc = 0 THEN Ok([r.vec EXCEPT !.cells = f(r.vec), !.count = n])
              ELSE r
    BY DEF ResizeOn
  <1>2. Sound(r.vec) /\ Keeps(r.vec, v) /\ (r.rc = 0 => Cap(r.vec) >= n)
    BY ReserveSound
  <1>3. CASE r.rc = 0
    <2>1. /\ r.vec.cells \in [1..Cap(r.vec) -> Cells]
          /\ DOMAIN r.vec.cells = 1..Cap(r.vec)
          /\ Cap(r.vec) \in Nat /\ Cap(r.vec) >= n
          /\ v.count \in Nat /\ \A k \in 1..v.count : v.cells[k] \in Values
          /\ \A k \in 1..v.count : r.vec.cells[k] = v.cells[k]
      BY <1>2, <1>3, SoundParts DEF Keeps
    <2>2. f(r.vec) \in [1..Cap(r.vec) -> Cells]
      BY <2>1 DEF Cells
    <2>3. \A k \in 1..n : f(r.vec)[k] = IF k <= v.count THEN v.cells[k] ELSE x
      BY <2>1
    <2> HIDE DEF f
    <2>4. \A k \in 1..n : f(r.vec)[k] \in Values
      BY <2>1, <2>3
    <2>5. PICK w : w = Rebuilt(r.vec, f(r.vec), n)
      OBVIOUS
    <2>6. Sound(w) /\ w.count = n /\ w.cells = f(r.vec)
      <3>1. PICK u, g : u = r.vec /\ g = f(r.vec)
        OBVIOUS
      <3>2. /\ Sound(u) /\ n <= Cap(u) /\ g \in [1..Cap(u) -> Cells]
            /\ \A k \in 1..n : g[k] \in Values
            /\ w = Rebuilt(u, g, n)
        BY <1>2, <2>1, <2>2, <2>4, <2>5, <3>1
      <3>3. Fits(u, g, n)
        BY <3>2 DEF Fits
      <3>4. QED
        BY <3>1, <3>2, <3>3, OverwrittenSound
    <2>7. s.rc = 0 /\ s.vec = w
      BY <1>1, <1>3, <2>5 DEF Ok, f, Rebuilt
    <2>8. QED
      BY <2>3, <2>6, <2>7 DEF Adjusted
  <1>4. QED
    BY <1>1, <1>2, <1>3

\* A vector whose block is freed.
LEMMA NewSound == Sound(NewVector) /\ NewVector.count = 0
  <1>1. <<>> \in Seq(Cells) /\ Len(<<>>) = 0
    OBVIOUS
  <1>2. QED
    BY <1>1 DEF NewVector, Sound, Vectors, Cap, Cells

\* shrink_to_fit keeps the elements.
LEMMA ShrinkToFitSound ==
    ASSUME NEW v, Sound(v), NEW s \in ShrinkToFitOn(v)
    PROVE  Sound(s.vec) /\ Keeps(s.vec, v)
  <1>0. Cap(v) \in Nat /\ v.count \in Nat /\ v.fault = FALSE /\ Keeps(v, v)
    BY SoundParts DEF Keeps
  <1>1. CASE v.count = Cap(v)
    BY <1>0, <1>1 DEF ShrinkToFitOn, Ok
  <1>2. CASE v.count # Cap(v) /\ v.count = 0
    <2>1. s.vec = [v EXCEPT !.cells = <<>>]
      BY <1>2 DEF ShrinkToFitOn, Ok
    <2>2. [v EXCEPT !.cells = <<>>] = NewVector
      BY <1>0, <1>2, Replaced DEF NewVector
    <2>3. QED
      BY <1>2, <2>1, <2>2, NewSound DEF Keeps
  <1>3. CASE v.count # Cap(v) /\ v.count # 0
    <2>1. s = Ok(Realloc(v, v.count)) \/ s = Failed(v)
      BY <1>3 DEF ShrinkToFitOn
    <2>2. Sound(Realloc(v, v.count)) /\ Keeps(Realloc(v, v.count), v)
      BY <1>0, ReallocSound
    <2>3. QED
      BY <1>0, <2>1, <2>2 DEF Ok, Failed
  <1>4. QED
    BY <1>1, <1>2, <1>3

\* w has the elements of v but x as the one of index i.
ChangedAt(w, v, i, x) ==
    /\ w.count = v.count
    /\ \A k \in 1..v.count : w.cells[k] = IF k = i + 1 THEN x ELSE v.cells[k]

\* set writes to a cell in use or to none.
LEMMA SetSound ==
    ASSUME NEW v, Sound(v), NEW i \in Nat, NEW x \in Values
    PROVE  Sound(SetOn(v, i, x)) /\ ChangedAt(SetOn(v, i, x), v, i, x)
  <1>0. Cap(v) \in Nat /\ v.count \in Nat /\ v.count <= Cap(v)
    BY SoundParts
  <1>1. CASE i < v.count
    <2>1. /\ Sound(Store(v, i, x)) /\ Store(v, i, x).count = v.count
          /\ Store(v, i, x).cells[i + 1] = x
          /\ \A k \in 1..Cap(v) : k # i + 1 => Store(v, i, x).cells[k] = v.cells[k]
      BY <1>0, <1>1, StoreSound
    <2>2. SetOn(v, i, x) = Store(v, i, x)
      BY <1>1 DEF SetOn
    <2>3. QED
      BY <1>0, <2>1, <2>2 DEF ChangedAt
  <1>2. CASE ~(i < v.count)
    <2>1. SetOn(v, i, x) = v
      BY <1>2 DEF SetOn
    <2>2. QED
      BY <1>0, <1>2, <2>1 DEF ChangedAt
  <1>3. QED
    BY <1>1, <1>2

\* erase reads no cell above those in use.
LEMMA EraseSound ==
    ASSUME NEW v, Sound(v), NEW i \in Nat
    PROVE  /\ Sound(EraseOn(v, i))
           /\ i < v.count => Erased(EraseOn(v, i), v, i)
           /\ ~(i < v.count) => EraseOn(v, i) = v
  <1>0. /\ Cap(v) \in Nat /\ v.count \in Nat /\ v.count <= Cap(v)
        /\ \A k \in 1..v.count : v.cells[k] \in Values
    BY SoundParts
  <1>1. CASE i < v.count
    <2>1. PICK n \in Nat : n = v.count - i - 1
      BY <1>0, <1>1
    <2>2. i + n <= Cap(v) /\ (i + 1) + n <= v.count /\ i + n = v.count - 1 /\ i + 1 \in Nat
      BY <1>0, <2>1
    <2>3. PICK moved : moved = Move(v, i, i + 1, n)
      OBVIOUS
    <2>4. /\ Sound(moved) /\ Cap(moved) = Cap(v)
          /\ \A k \in 1..Cap(v) : moved.cells[k] =
                IF k \in (i + 1)..(i + n) THEN v.cells[k - i + (i + 1)] ELSE v.cells[k]
      BY <2>2, <2>3, MoveSound DEF Moved
    <2>5. \A k \in 1..(v.count - 1) :
             moved.cells[k] = IF k <= i THEN v.cells[k] ELSE v.cells[k + 1]
      <3> SUFFICES ASSUME NEW k \in 1..(v.count - 1)
                   PROVE  moved.cells[k] = IF k <= i THEN v.cells[k] ELSE v.cells[k + 1]
        OBVIOUS
      <3>1. k \in 1..Cap(v) /\ k - i + (i + 1) = k + 1
        BY <1>0
      <3>2. k <= i => k \notin (i + 1)..(i + n)
        BY <1>0, <2>2
      <3>3. ~(k <= i) => k \in (i + 1)..(i + n)
        BY <1>0, <2>2
      <3>4. QED
        BY <2>4, <3>1, <3>2, <3>3
    <2>6. \A k \in 1..(v.count - 1) : moved.cells[k] \in Values
      BY <1>0, <2>5
    <2>7. v.count - 1 \in Nat /\ v.count - 1 <= Cap(moved)
      BY <1>0, <1>1, <2>4
    <2>8. /\ Sound([moved EXCEPT !.count = v.count - 1])
          /\ [moved EXCEPT !.count = v.count - 1].count = v.count - 1
          /\ [moved EXCEPT !.count = v.count - 1].cells = moved.cells
      BY <2>4, <2>6, <2>7, CountSound
    <2>9. EraseOn(v, i) = [moved EXCEPT !.count = v.count - 1]
      BY <1>1, <2>1, <2>3 DEF EraseOn
    <2>10. QED
      BY <1>1, <2>5, <2>8, <2>9 DEF Erased
  <1>2. CASE ~(i < v.count)
    BY <1>2 DEF EraseOn
  <1>3. QED
    BY <1>1, <1>2

\* Fewer elements.
LEMMA FewerSound ==
    ASSUME NEW v, Sound(v), NEW c \in 0..v.count
    PROVE  /\ Sound([v EXCEPT !.count = c])
           /\ [v EXCEPT !.count = c].count = c
           /\ [v EXCEPT !.count = c].cells = v.cells
  <1>1. /\ Cap(v) \in Nat /\ v.count \in Nat /\ v.count <= Cap(v)
        /\ \A k \in 1..v.count : v.cells[k] \in Values
    BY SoundParts
  <1>2. c \in Nat /\ c <= Cap(v) /\ \A k \in 1..c : v.cells[k] \in Values
    BY <1>1
  <1>3. QED
    BY <1>2, CountSound

\* pop_back does not go below an empty vector.
LEMMA PopBackSound ==
    ASSUME NEW v, Sound(v)
    PROVE  /\ Sound(PopBackOn(v))
           /\ PopBackOn(v).count = IF v.count > 0 THEN v.count - 1 ELSE 0
           /\ PopBackOn(v).cells = v.cells
  <1>0. v.count \in Nat
    BY SoundParts
  <1>1. CASE v.count > 0
    <2>1. v.count - 1 \in 0..v.count
      BY <1>0, <1>1
    <2>2. PopBackOn(v) = [v EXCEPT !.count = v.count - 1]
      BY <1>1 DEF PopBackOn
    <2>3. QED
      BY <1>1, <2>1, <2>2, FewerSound
  <1>2. CASE ~(v.count > 0)
    BY <1>0, <1>2 DEF PopBackOn
  <1>3. QED
    BY <1>1, <1>2

\* The elements of a sound vector.
LEMMA ContentsIs ==
    ASSUME NEW v, Sound(v)
    PROVE  /\ Contents(v) \in [1..v.count -> Values]
           /\ Contents(v) \in Seq(Values)
           /\ Len(Contents(v)) = v.count
           /\ DOMAIN Contents(v) = 1..v.count
           /\ \A k \in 1..v.count : Contents(v)[k] = v.cells[k]
  <1>0. /\ v.cells \in Seq(Cells) /\ Len(v.cells) = Cap(v)
        /\ Cap(v) \in Nat /\ v.count \in Nat /\ v.count <= Cap(v)
        /\ \A k \in 1..v.count : v.cells[k] \in Values
    BY SoundParts DEF Cap
  <1>1. PICK s : s = SubSeq(v.cells, 1, v.count)
    OBVIOUS
  <1>2. /\ s \in Seq(Cells) /\ Len(s) = v.count
        /\ \A k \in 1..v.count : s[k] = v.cells[k]
    <2>1. CASE v.count = 0
      BY <1>0, <1>1, <2>1, SubSeqEmpty
    <2>2. CASE v.count # 0
      <3>1. 1 \in 1..Len(v.cells) /\ v.count \in 1..Len(v.cells)
        BY <1>0, <2>2
      <3>2. \A k \in 1..v.count : 1 + k - 1 = k
        BY <1>0
      <3>3. QED
        BY <1>0, <1>1, <3>1, <3>2, SubSeqProperties
    <2>3. QED
      BY <2>1, <2>2
  <1>3. s \in [1..v.count -> Values] /\ DOMAIN s = 1..v.count
    BY <1>0, <1>2
  <1>4. s \in Seq(Values)
    BY <1>0, <1>3, SeqDef
  <1>5. QED
    BY <1>1, <1>2, <1>3, <1>4 DEF Contents

\* qsort rearranges the cells in use.
LEMMA SortSound ==
    ASSUME NEW v, Sound(v), NEW s \in SortOn(v)
    PROVE  /\ Sound(s) /\ s.count = v.count
           /\ \E t \in InOrder(Contents(v)) :
                 /\ t \in [1..v.count -> Values]
                 /\ \A k \in 1..v.count : s.cells[k] = t[k]
  <1>0. /\ v.cells \in [1..Cap(v) -> Cells]
        /\ DOMAIN v.cells = 1..Cap(v)
        /\ Cap(v) \in Nat /\ v.count \in Nat /\ v.count <= Cap(v)
    BY SoundParts
  <1>1. PICK t \in InOrder(Contents(v)) :
          s = [v EXCEPT !.cells = [k \in DOMAIN v.cells |->
                                      IF k <= v.count THEN t[k] ELSE v.cells[k]]]
    BY DEF SortOn
  <1> DEFINE f == [k \in DOMAIN v.cells |-> IF k <= v.count THEN t[k] ELSE v.cells[k]]
  <1>2. t \in [1..v.count -> Values]
    BY ContentsIs DEF InOrder
  <1>3. f \in [1..Cap(v) -> Cells] /\ \A k \in 1..v.count : f[k] = t[k]
    BY <1>0, <1>2 DEF Cells
  <1> HIDE DEF f
  <1>4. \A k \in 1..v.count : f[k] \in Values
    BY <1>2, <1>3
  <1>5. /\ Sound([v EXCEPT !.cells = f])
        /\ [v EXCEPT !.cells = f].count = v.count
        /\ [v EXCEPT !.cells = f].cells = f
    BY <1>0, <1>3, <1>4, CellsSound
  <1>6. s = [v EXCEPT !.cells = f]
    BY <1>1 DEF f
  <1>7. QED
    BY <1>2, <1>3, <1>5, <1>6

-----------------------------------------------------------------------------
(* The searches: the recursive functions they are have the values their    *)
(* equations give, and these are places of x.                              *)

\* Each set of naturals that is not empty has a least element.
LEMMA LeastExists ==
    ASSUME NEW S \in SUBSET Nat, S # {}
    PROVE  \E e \in S : \A d \in S : e <= d
  <1> DEFINE less == {ss \in Nat \X Nat : ss[1] < ss[2]}
  <1>1. IsWellFoundedOn(less, Nat)
    BY NatLessThanWellFounded DEF OpToRel
  <1>2. PICK e \in S : \A d \in S : <<d, e>> \notin less
    <2> HIDE DEF less
    <2>1. QED
      BY <1>1, WFMin
  <1>3. ASSUME NEW d \in S PROVE e <= d
    <2>1. e \in Nat /\ d \in Nat /\ <<d, e>> \in Nat \X Nat
      OBVIOUS
    <2>2. ~(<<d, e>>[1] < <<d, e>>[2])
      BY <1>2, <2>1
    <2>3. QED
      BY <2>1, <2>2
  <1>4. QED
    BY <1>3

\* All naturals belong to a set that has 0 and is closed under successor.
LEMMA Inductive ==
    ASSUME NEW S, 0 \in S, \A n \in Nat : n \in S => n + 1 \in S
    PROVE  Nat \subseteq S
  <1> SUFFICES ASSUME NEW m \in Nat, m \notin S PROVE FALSE
    OBVIOUS
  <1> DEFINE Out == {n \in Nat : n \notin S}
  <1>0. m \in Out /\ Out \subseteq Nat
    OBVIOUS
  <1>1. PICK n \in Out : \A k \in 0..(n - 1) : k \notin Out
    <2> HIDE DEF Out
    <2>1. PICK n \in Out : \A k \in Out : n <= k
      BY <1>0, LeastExists
    <2>2. QED
      BY <1>0, <2>1
  <1>2. n # 0 /\ n - 1 \in Nat /\ n - 1 + 1 = n
    OBVIOUS
  <1>3. n - 1 \in 0..(n - 1)
    BY <1>2
  <1>4. n - 1 \in S
    BY <1>1, <1>2, <1>3
  <1>5. QED
    BY <1>2, <1>4

\* One step of linear_search at i, the rest being given by f.
Scanned(f, v, x, i) ==
    IF i = v.count THEN -1 ELSE IF v.cells[i + 1] = x THEN i ELSE f[i + 1]

\* linear_search of the elements behind the first i of them.
FirstFrom(v, x, i, y) ==
    \/ y = -1 /\ \A k \in (i + 1)..v.count : v.cells[k] # x
    \/ /\ y \in i..(v.count - 1) /\ v.cells[y + 1] = x
       /\ \A k \in (i + 1)..y : v.cells[k] # x

\* linear_search is the function its equation describes.
LEMMA FindUnfolds ==
    ASSUME NEW v, v.count \in Nat, NEW x
    PROVE  \E f : /\ \A i \in 0..v.count : f[i] = Scanned(f, v, x, i)
                  /\ FindOn(v, x) = f[0]
  <1>1. PICK n \in Nat : n = v.count
    OBVIOUS
  <1> DEFINE Solves(f, d) ==
                \A i \in 0..n : n - i <= d => f[i] = Scanned(f, v, x, i)
             Good == {d \in Nat : \E f : Solves(f, d)}
  <1>2. 0 \in Good
    <2> DEFINE f == [i \in 0..n |-> -1]
    <2>1. \A i \in 0..n : n - i <= 0 => i = n /\ f[i] = -1
      OBVIOUS
    <2>2. Solves(f, 0)
      BY <1>1, <2>1 DEF Scanned
    <2>3. QED
      BY <2>2
  <1>3. ASSUME NEW d \in Nat, d \in Good PROVE d + 1 \in Good
    <2>1. PICK f : Solves(f, d)
      BY <1>3
    <2> DEFINE g == [i \in 0..n |-> Scanned(f, v, x, i)]
    <2>2. ASSUME NEW i \in 0..n, n - i <= d + 1 PROVE g[i] = Scanned(g, v, x, i)
      <3>1. CASE i = n
        BY <1>1, <3>1 DEF Scanned
      <3>2. CASE i # n
        <4>1. i + 1 \in 0..n /\ n - (i + 1) <= d
          BY <2>2, <3>2
        <4>2. g[i + 1] = f[i + 1]
          BY <2>1, <4>1
        <4>3. QED
          BY <4>2 DEF Scanned
      <3>3. QED
        BY <3>1, <3>2
    <2>3. Solves(g, d + 1)
      <3> HIDE DEF g
      <3>1. QED
        BY <2>2
    <2>4. QED
      <3> HIDE DEF g, Solves
      <3>1. QED
        BY <2>3
  <1>4. n \in Good
    <2> HIDE DEF Good
    <2>1. QED
      BY <1>2, <1>3, Inductive
  <1>5. PICK f : Solves(f, n)
    BY <1>4
  <1> DEFINE g == [i \in 0..v.count |-> f[i]]
             From == CHOOSE h : h = [i \in 0..v.count |->
                                       IF i = v.count THEN -1
                                       ELSE IF v.cells[i + 1] = x THEN i ELSE h[i + 1]]
  <1>6. g = [i \in 0..v.count |->
                IF i = v.count THEN -1
                ELSE IF v.cells[i + 1] = x THEN i ELSE g[i + 1]]
    <2>1. ASSUME NEW i \in 0..v.count
          PROVE  g[i] = IF i = v.count THEN -1
                        ELSE IF v.cells[i + 1] = x THEN i ELSE g[i + 1]
      <3>1. f[i] = Scanned(f, v, x, i)
        BY <1>1, <1>5
      <3>2. i # v.count => g[i + 1] = f[i + 1]
        OBVIOUS
      <3>3. QED
        BY <3>1, <3>2 DEF Scanned
    <2>2. QED
      BY <2>1
  <1>7. From = [i \in 0..v.count |->
                  IF i = v.count THEN -1
                  ELSE IF v.cells[i + 1] = x THEN i ELSE From[i + 1]]
    <2> HIDE DEF g
    <2>1. QED
      BY <1>6
  <1>8. FindOn(v, x) = From[0]
    BY Zenon DEF FindOn
  <1> HIDE DEF From
  <1>9. \A i \in 0..v.count : From[i] = Scanned(From, v, x, i)
    BY <1>7 DEF Scanned
  <1>10. QED
    BY <1>8, <1>9

\* linear_search returns the first place of x, or -1.
LEMMA FindIs ==
    ASSUME NEW v, Sound(v), NEW x
    PROVE  FirstFrom(v, x, 0, FindOn(v, x))
  <1>1. PICK n \in Nat : n = v.count
    BY SoundParts
  <1>2. PICK f : /\ \A i \in 0..n : f[i] = Scanned(f, v, x, i)
                 /\ FindOn(v, x) = f[0]
    BY <1>1, FindUnfolds
  <1> DEFINE Good == {d \in Nat : \A i \in 0..n : n - i <= d => FirstFrom(v, x, i, f[i])}
  <1>3. 0 \in Good
    <2>1. ASSUME NEW i \in 0..n, n - i <= 0 PROVE FirstFrom(v, x, i, f[i])
      <3>1. i = n /\ f[i] = -1
        BY <1>1, <1>2, <2>1 DEF Scanned
      <3>2. QED
        BY <1>1, <3>1 DEF FirstFrom
    <2>2. QED
      BY <2>1
  <1>4. ASSUME NEW d \in Nat, d \in Good PROVE d + 1 \in Good
    <2>1. ASSUME NEW i \in 0..n, n - i <= d + 1 PROVE FirstFrom(v, x, i, f[i])
      <3>1. CASE i = n
        BY <1>1, <1>2, <3>1 DEF Scanned, FirstFrom
      <3>2. CASE i # n /\ v.cells[i + 1] = x
        BY <1>1, <1>2, <3>2 DEF Scanned, FirstFrom
      <3>3. CASE i # n /\ v.cells[i + 1] # x
        <4>1. i + 1 \in 0..n /\ n - (i + 1) <= d
          BY <2>1, <3>3
        <4>2. f[i] = f[i + 1] /\ FirstFrom(v, x, i + 1, f[i + 1])
          BY <1>1, <1>2, <1>4, <3>3, <4>1 DEF Scanned
        <4>3. \A k \in (i + 1)..n : k # i + 1 => k \in (i + 2)..n
          OBVIOUS
        <4>4. QED
          BY <1>1, <3>3, <4>2, <4>3 DEF FirstFrom
      <3>4. QED
        BY <3>1, <3>2, <3>3
    <2>2. QED
      BY <2>1
  <1>5. n \in Good
    <2> HIDE DEF Good
    <2>1. QED
      BY <1>3, <1>4, Inductive
  <1>6. QED
    BY <1>2, <1>5

\* The middle of an interval that is not empty lies in it.
LEMMA MiddleIn ==
    ASSUME NEW lo \in Nat, NEW hi \in Nat, lo < hi
    PROVE  lo + (hi - lo) \div 2 \in lo..(hi - 1)
  <1>1. PICK d \in Nat : d = hi - lo /\ d > 0
    OBVIOUS
  <1>2. d \div 2 \in Nat /\ d \div 2 < d
    BY <1>1
  <1>3. QED
    BY <1>1, <1>2

\* One round of binary_search on the interval p, what follows being given by f.
Probed(f, v, x, p) ==
    LET lo == p[1]
        hi == p[2]
        mid == lo + (hi - lo) \div 2
        val == v.cells[mid + 1]
    IN  IF lo >= hi THEN -1
        ELSE IF val = x THEN mid
        ELSE IF val < x THEN f[<<mid + 1, hi>>]
        ELSE f[<<lo, mid>>]

Intervals(n) == (0..n) \X (0..n)

\* A round looks only at shorter intervals.
LEMMA ProbedLess ==
    ASSUME NEW n \in Nat, NEW v, NEW x, NEW f, NEW g, NEW d \in Nat,
           \A q \in Intervals(n) : q[2] - q[1] <= d => f[q] = g[q],
           NEW p \in Intervals(n), p[2] - p[1] <= d + 1
    PROVE  Probed(f, v, x, p) = Probed(g, v, x, p)
  <1>1. PICK lo, hi \in 0..n : p = <<lo, hi>>
    BY DEF Intervals
  <1>2. p[1] = lo /\ p[2] = hi
    BY <1>1
  <1>3. CASE lo >= hi
    BY <1>2, <1>3 DEF Probed
  <1>4. CASE lo < hi
    <2>1. PICK mid : mid = lo + (hi - lo) \div 2
      OBVIOUS
    <2>2. mid \in lo..(hi - 1)
      BY <1>4, <2>1, MiddleIn
    <2>3. PICK q, r : q = <<mid + 1, hi>> /\ r = <<lo, mid>>
      OBVIOUS
    <2>4. /\ q \in Intervals(n) /\ q[2] - q[1] <= d
          /\ r \in Intervals(n) /\ r[2] - r[1] <= d
      BY <1>2, <2>2, <2>3 DEF Intervals
    <2>5. f[q] = g[q] /\ f[r] = g[r]
      BY <2>4
    <2>6. QED
      BY <1>2, <2>1, <2>3, <2>5 DEF Probed
  <1>5. QED
    BY <1>3, <1>4

\* binary_search is the function its equation describes.
LEMMA BinarySearchUnfolds ==
    ASSUME NEW v, v.count \in Nat, NEW x
    PROVE  \E f : /\ \A p \in Intervals(v.count) : f[p] = Probed(f, v, x, p)
                  /\ BinarySearchOn(v, x) = f[<<0, v.count>>]
  <1>1. PICK n \in Nat : n = v.count
    OBVIOUS
  <1> DEFINE Solves(f, d) ==
                \A p \in Intervals(n) : p[2] - p[1] <= d => f[p] = Probed(f, v, x, p)
             Good == {d \in Nat : \E f : Solves(f, d)}
  <1>2. \A f : \A p \in Intervals(n) : p[2] - p[1] <= 0 => Probed(f, v, x, p) = -1
    BY DEF Probed, Intervals
  <1>3. 0 \in Good
    <2> DEFINE f == [p \in Intervals(n) |-> -1]
    <2>1. \A p \in Intervals(n) : f[p] = -1
      OBVIOUS
    <2>2. Solves(f, 0)
      <3> HIDE DEF f
      <3>1. QED
        BY <1>2, <2>1
    <2>3. QED
      <3> HIDE DEF f, Solves
      <3>1. QED
        BY <2>2
  <1>4. ASSUME NEW d \in Nat, d \in Good PROVE d + 1 \in Good
    <2>1. PICK f : Solves(f, d)
      BY <1>4
    <2>2. PICK g : g = [p \in Intervals(n) |-> Probed(f, v, x, p)]
      OBVIOUS
    <2>3. \A p \in Intervals(n) : g[p] = Probed(f, v, x, p)
      BY <2>2
    <2>4. \A p \in Intervals(n) : p[2] - p[1] <= d => g[p] = f[p]
      BY <2>1, <2>3
    <2>5. \A p \in Intervals(n) : p[2] - p[1] <= d + 1 =>
             Probed(g, v, x, p) = Probed(f, v, x, p)
      BY <2>4, ProbedLess
    <2>6. Solves(g, d + 1)
      BY <2>3, <2>5
    <2>7. QED
      <3> HIDE DEF Solves
      <3>1. QED
        BY <2>6
  <1>5. n \in Good
    <2> HIDE DEF Good
    <2>1. QED
      BY <1>3, <1>4, Inductive
  <1>6. PICK f : Solves(f, n)
    BY <1>5
  <1>7. \A p \in Intervals(n) : f[p] = Probed(f, v, x, p)
    <2>1. \A p \in Intervals(n) : p[2] - p[1] <= n
      BY DEF Intervals
    <2>2. QED
      BY <1>6, <2>1
  <1>8. PICK g : g = [p \in Intervals(n) |-> f[p]]
    OBVIOUS
  <1>9. \A p \in Intervals(n) : g[p] = Probed(g, v, x, p)
    <2>1. \A p \in Intervals(n) : g[p] = f[p]
      BY <1>8
    <2>2. \A p \in Intervals(n) : p[2] - p[1] <= n + 1
      BY DEF Intervals
    <2>3. \A p \in Intervals(n) : Probed(g, v, x, p) = Probed(f, v, x, p)
      BY <2>1, <2>2, ProbedLess
    <2>4. QED
      BY <1>7, <2>1, <2>3
  <1>10. g = [p \in Intervals(n) |-> Probed(g, v, x, p)]
    BY <1>8, <1>9
  <1> DEFINE Probe == CHOOSE h : h = [p \in Intervals(v.count) |-> Probed(h, v, x, p)]
  <1>11. Probe = [p \in Intervals(v.count) |-> Probed(Probe, v, x, p)]
    BY <1>1, <1>10, Zenon
  <1>12. BinarySearchOn(v, x) = Probe[<<0, v.count>>]
    BY Zenon DEF BinarySearchOn, Intervals, Probed
  <1> HIDE DEF Probe
  <1>13. \A p \in Intervals(v.count) : Probe[p] = Probed(Probe, v, x, p)
    BY <1>11
  <1>14. QED
    BY <1>12, <1>13

\* The answer y to a search for x in the half-open interval lo, hi.
FoundIn(v, x, lo, hi, y) ==
    \/ y \in lo..(hi - 1) /\ v.cells[y + 1] = x
    \/ /\ y = -1
       /\ (\A i, j \in 1..v.count : i < j => v.cells[i] <= v.cells[j]) =>
             \A k \in (lo + 1)..hi : v.cells[k] # x

\* binary_search returns a place of x, or -1; if the elements are in order,
\* then -1 only if x is not among them.
LEMMA BinarySearchIs ==
    ASSUME NEW v, Sound(v), NEW x \in Values
    PROVE  FoundIn(v, x, 0, v.count, BinarySearchOn(v, x))
  <1>1. PICK n \in Nat : n = v.count /\ \A k \in 1..n : v.cells[k] \in Int
    BY SoundParts
  <1>2. PICK f : /\ \A p \in Intervals(n) : f[p] = Probed(f, v, x, p)
                 /\ BinarySearchOn(v, x) = f[<<0, n>>]
    BY <1>1, BinarySearchUnfolds
  <1> DEFINE Good == {d \in Nat : \A lo, hi \in 0..n :
                         hi - lo <= d => FoundIn(v, x, lo, hi, f[<<lo, hi>>])}
  <1>3. ASSUME NEW lo \in 0..n, NEW hi \in 0..n, lo >= hi
        PROVE  FoundIn(v, x, lo, hi, f[<<lo, hi>>])
    <2>1. f[<<lo, hi>>] = -1
      BY <1>2, <1>3 DEF Probed, Intervals
    <2>2. (lo + 1)..hi = {}
      BY <1>3
    <2>3. QED
      BY <2>1, <2>2 DEF FoundIn
  <1>4. 0 \in Good
    BY <1>3
  <1>5. ASSUME NEW d \in Nat, d \in Good PROVE d + 1 \in Good
    <2>1. ASSUME NEW lo \in 0..n, NEW hi \in 0..n, hi - lo <= d + 1, lo < hi
          PROVE  FoundIn(v, x, lo, hi, f[<<lo, hi>>])
      <3>1. PICK mid : mid = lo + (hi - lo) \div 2
        OBVIOUS
      <3>2. mid \in lo..(hi - 1)
        BY <2>1, <3>1, MiddleIn
      <3>3. PICK val \in Int : val = v.cells[mid + 1]
        BY <1>1, <3>2
      <3>4. /\ mid + 1 \in 0..n /\ hi - (mid + 1) <= d
            /\ mid \in 0..n /\ mid - lo <= d
            /\ mid + 1 \in 1..n
        BY <2>1, <3>2
      <3>5. f[<<lo, hi>>] = IF val = x THEN mid
                            ELSE IF val < x THEN f[<<mid + 1, hi>>]
                            ELSE f[<<lo, mid>>]
        <4>1. <<lo, hi>> \in Intervals(n) /\ ~(lo >= hi)
          BY <2>1 DEF Intervals
        <4>2. <<lo, hi>>[1] = lo /\ <<lo, hi>>[2] = hi
          OBVIOUS
        <4>3. f[<<lo, hi>>] = Probed(f, v, x, <<lo, hi>>)
          BY <1>2, <4>1
        <4>4. QED
          BY <3>1, <3>3, <4>1, <4>2, <4>3 DEF Probed
      <3>6. CASE val = x
        BY <3>2, <3>3, <3>5, <3>6 DEF FoundIn
      <3>7. CASE val < x
        <4>1. PICK y : y = f[<<mid + 1, hi>>]
          OBVIOUS
        <4>2. FoundIn(v, x, mid + 1, hi, y)
          BY <1>5, <3>4, <4>1
        <4>3. f[<<lo, hi>>] = y
          BY <3>3, <3>5, <3>7, <4>1
        <4>4. ASSUME \A i, j \in 1..v.count : i < j => v.cells[i] <= v.cells[j],
                     NEW k \in (lo + 1)..hi, k <= mid + 1
              PROVE  v.cells[k] # x
          <5>1. k \in 1..n /\ v.cells[k] \in Int
            BY <1>1, <3>4
          <5>2. v.cells[k] <= val
            BY <1>1, <3>3, <3>4, <4>4, <5>1
          <5>3. QED
            BY <3>7, <5>1, <5>2
        <4>5. \A k \in (lo + 1)..hi : k <= mid + 1 \/ k \in ((mid + 1) + 1)..hi
          BY <3>2
        <4>6. y \in (mid + 1)..(hi - 1) => y \in lo..(hi - 1)
          BY <3>2
        <4>7. QED
          BY <4>2, <4>3, <4>4, <4>5, <4>6 DEF FoundIn
      <3>8. CASE ~(val = x) /\ ~(val < x)
        <4>1. PICK y : y = f[<<lo, mid>>]
          OBVIOUS
        <4>2. FoundIn(v, x, lo, mid, y)
          BY <1>5, <3>4, <4>1
        <4>3. f[<<lo, hi>>] = y
          BY <3>3, <3>5, <3>8, <4>1
        <4>4. ASSUME \A i, j \in 1..v.count : i < j => v.cells[i] <= v.cells[j],
                     NEW k \in (lo + 1)..hi, k > mid
              PROVE  v.cells[k] # x
          <5>1. k \in 1..n /\ v.cells[k] \in Int
            BY <1>1, <3>4
          <5>2. val <= v.cells[k]
            BY <1>1, <3>3, <3>4, <4>4, <5>1
          <5>3. QED
            BY <3>8, <5>1, <5>2
        <4>5. \A k \in (lo + 1)..hi : k > mid \/ k \in (lo + 1)..mid
          BY <3>2
        <4>6. y \in lo..(mid - 1) => y \in lo..(hi - 1)
          BY <3>2
        <4>7. QED
          BY <4>2, <4>3, <4>4, <4>5, <4>6 DEF FoundIn
      <3>9. QED
        BY <3>6, <3>7, <3>8
    <2>2. \A lo, hi \in 0..n : hi - lo <= d + 1 => FoundIn(v, x, lo, hi, f[<<lo, hi>>])
      BY <1>3, <2>1
    <2>3. QED
      BY <2>2
  <1>6. n \in Good
    <2> HIDE DEF Good
    <2>1. QED
      BY <1>4, <1>5, Inductive
  <1>7. FoundIn(v, x, 0, n, f[<<0, n>>])
    <2>1. 0 \in 0..n /\ n \in 0..n /\ n - 0 <= n
      OBVIOUS
    <2>2. QED
      BY <1>6, <2>1
  <1>8. QED
    BY <1>1, <1>2, <1>7

-----------------------------------------------------------------------------
(* What qsort returns.                                                     *)

Places(s, x) == {i \in DOMAIN s : s[i] = x}

\* t increases and has each value as often as s, and so has the same values.
LEMMA InOrderIs ==
    ASSUME NEW n \in Nat, NEW s \in [1..n -> Values], NEW t \in InOrder(s)
    PROVE  /\ t \in [1..n -> Values]
           /\ \A i, j \in 1..n : i < j => t[i] <= t[j]
           /\ {t[k] : k \in 1..n} = {s[k] : k \in 1..n}
  <1>1. /\ t \in [1..n -> Values]
        /\ \A i, j \in 1..n : i < j => t[i] <= t[j]
        /\ \A x \in Values : HowMany(t, x) = HowMany(s, x)
    BY DEF InOrder
  <1>2. ASSUME NEW x \in Values
        PROVE  Places(t, x) = {} <=> Places(s, x) = {}
    <2>1. IsFiniteSet(Places(t, x)) /\ IsFiniteSet(Places(s, x))
      <3>1. IsFiniteSet(1..n)
        BY FS_Interval
      <3>2. Places(t, x) \subseteq 1..n /\ Places(s, x) \subseteq 1..n
        BY <1>1 DEF Places
      <3>3. QED
        BY <3>1, <3>2, FS_Subset
    <2>2. Cardinality(Places(t, x)) = Cardinality(Places(s, x))
      BY <1>1 DEF HowMany, Places
    <2>3. QED
      BY <2>1, <2>2, FS_EmptySet
  <1>3. \A x \in Values : (\E k \in 1..n : t[k] = x) <=> (\E k \in 1..n : s[k] = x)
    BY <1>1, <1>2 DEF Places
  <1>4. ASSUME NEW x PROVE x \in {t[k] : k \in 1..n} <=> x \in {s[k] : k \in 1..n}
    <2>1. CASE x \in Values
      BY <1>3, <2>1
    <2>2. CASE x \notin Values
      <3>1. \A k \in 1..n : t[k] \in Values /\ s[k] \in Values
        BY <1>1
      <3>2. QED
        BY <2>2, <3>1
    <2>3. QED
      BY <2>1, <2>2
  <1>5. QED
    BY <1>1, <1>4

-----------------------------------------------------------------------------
(* The objects.                                                            *)

\* Every object is a sound vector, made or not.  That no cell outside of a
\* block was touched is not inductive without the counts being in the block,
\* and that what is read was stored not without it being so of all elements.
VectorsSound ==
    /\ vec \in [Handles -> Vectors]
    /\ \A h \in Handles : Sound(vec[h])

\* One vector became another sound one.
LEMMA OneBecomes ==
    ASSUME VectorsSound, NEW h \in Handles, NEW v, Sound(v),
           vec' = [vec EXCEPT ![h] = v]
    PROVE  VectorsSound'
  <1>1. v \in Vectors
    BY DEF Sound
  <1>2. QED
    BY <1>1 DEF VectorsSound

\* A method that may find no memory leaves sound vectors.
LEMMA TriesSound ==
    ASSUME VectorsSound, NEW h \in Handles, NEW op, NEW args, NEW outcomes,
           \A r \in outcomes : Sound(r.vec), Tries(h, op, args, outcomes)
    PROVE  VectorsSound'
  BY OneBecomes DEF Tries, Becomes

\* So does one that needs none.
LEMMA DoesSound ==
    ASSUME VectorsSound, NEW h \in Handles, NEW op, NEW args, NEW v, Sound(v),
           Does(h, op, args, v)
    PROVE  VectorsSound'
  BY OneBecomes DEF Does, Becomes

\* The methods, one by one.
LEMMA CallsOf ==
    ASSUME Next
    PROVE  \E h \in Handles :
              \/ \E n \in Counts, x \in Values : Assign(h, n, x)
              \/ \E i \in Indexes(h), x \in Values : Set(h, i, x)
              \/ \E n \in Counts : ReserveCells(h, n)
              \/ ShrinkToFit(h)
              \/ Clear(h)
              \/ \E i \in Indexes(h), x \in Values : Insert(h, i, x)
              \/ \E i \in Indexes(h) : Erase(h, i)
              \/ \E x \in Values : PushBack(h, x)
              \/ PopBack(h)
              \/ \E n \in Counts : Resize(h, n)
              \/ \E n \in Counts, x \in Values : ResizeFill(h, n, x)
              \/ Sort(h)
              \/ Destroy(h)
              \/ \E i \in Indexes(h) : At(h, i)
              \/ Front(h) \/ Back(h) \/ Size(h)
              \/ \E x \in Values : LinearSearch(h, x)
              \/ \E x \in Values : BinarySearch(h, x)
              \/ \E other \in Handles : Swap(h, other)
  BY Zenon DEF Next

\* Whichever method of whichever object is called, the vectors stay sound.
LEMMA VectorStep ==
    ASSUME VectorsSound, [Next]_vars
    PROVE  VectorsSound'
  <1>1. CASE UNCHANGED vars
    BY <1>1 DEF VectorsSound, vars, Sound, Cap
  <1>2. CASE Next
    <2>1. PICK h \in Handles :
              \/ \E n \in Counts, x \in Values : Assign(h, n, x)
              \/ \E i \in Indexes(h), x \in Values : Set(h, i, x)
              \/ \E n \in Counts : ReserveCells(h, n)
              \/ ShrinkToFit(h)
              \/ Clear(h)
              \/ \E i \in Indexes(h), x \in Values : Insert(h, i, x)
              \/ \E i \in Indexes(h) : Erase(h, i)
              \/ \E x \in Values : PushBack(h, x)
              \/ PopBack(h)
              \/ \E n \in Counts : Resize(h, n)
              \/ \E n \in Counts, x \in Values : ResizeFill(h, n, x)
              \/ Sort(h)
              \/ Destroy(h)
              \/ \E i \in Indexes(h) : At(h, i)
              \/ Front(h) \/ Back(h) \/ Size(h)
              \/ \E x \in Values : LinearSearch(h, x)
              \/ \E x \in Values : BinarySearch(h, x)
              \/ \E other \in Handles : Swap(h, other)
      BY <1>2, CallsOf, Zenon
    <2>2. Sound(vec[h])
      BY DEF VectorsSound
    <2>3. vec[h].count \in Nat /\ vec[h].count <= Cap(vec[h]) /\ Cap(vec[h]) \in Nat
      BY <2>2, SoundParts
    <2>4. Indexes(h) \subseteq Nat /\ Counts \subseteq Nat
      BY <2>3, BoundAssumption DEF Indexes, Counts
    <2>5. ASSUME NEW n \in Counts, NEW x \in Values, Assign(h, n, x) PROVE VectorsSound'
      <3>1. \A r \in AssignOn(vec[h], n, x) : Sound(r.vec)
        BY <2>2, <2>4, AssignSound
      <3>2. QED
        BY <2>5, <3>1, TriesSound DEF Assign
    <2>6. ASSUME NEW i \in Indexes(h), NEW x \in Values, Set(h, i, x) PROVE VectorsSound'
      <3>1. Sound(SetOn(vec[h], i, x))
        BY <2>2, <2>4, SetSound
      <3>2. QED
        BY <2>6, <3>1, DoesSound DEF Set
    <2>7. ASSUME NEW n \in Counts, ReserveCells(h, n) PROVE VectorsSound'
      <3>1. \A r \in Reserve(vec[h], n) : Sound(r.vec)
        BY <2>2, <2>4, ReserveSound
      <3>2. QED
        BY <2>7, <3>1, TriesSound DEF ReserveCells
    <2>8. CASE ShrinkToFit(h)
      BY <2>2, <2>8, ShrinkToFitSound, TriesSound DEF ShrinkToFit
    <2>9. CASE Clear(h)
      BY <2>2, <2>3, <2>9, FewerSound, DoesSound DEF Clear
    <2>10. ASSUME NEW i \in Indexes(h), NEW x \in Values, Insert(h, i, x)
           PROVE  VectorsSound'
      <3>1. \A r \in InsertOn(vec[h], i, x) : Sound(r.vec)
        BY <2>2, <2>4, InsertSound
      <3>2. QED
        BY <2>10, <3>1, TriesSound DEF Insert
    <2>11. ASSUME NEW i \in Indexes(h), Erase(h, i) PROVE VectorsSound'
      <3>1. Sound(EraseOn(vec[h], i))
        BY <2>2, <2>4, EraseSound
      <3>2. QED
        BY <2>11, <3>1, DoesSound DEF Erase
    <2>12. ASSUME NEW x \in Values, PushBack(h, x) PROVE VectorsSound'
      <3>1. \A r \in PushBackOn(vec[h], x) : Sound(r.vec)
        BY <2>2, PushBackSound
      <3>2. QED
        BY <2>12, <3>1, TriesSound DEF PushBack
    <2>13. CASE PopBack(h)
      <3>1. Sound(PopBackOn(vec[h]))
        BY <2>2, PopBackSound
      <3>2. QED
        BY <2>13, <3>1, OneBecomes DEF PopBack, Becomes
    <2>14. ASSUME NEW n \in Counts, Resize(h, n) PROVE VectorsSound'
      <3>1. \A r \in ResizeOn(vec[h], n, 0) : Sound(r.vec)
        BY <2>2, <2>4, ResizeSound
      <3>2. QED
        BY <2>14, <3>1, TriesSound DEF Resize
    <2>15. ASSUME NEW n \in Counts, NEW x \in Values, ResizeFill(h, n, x)
           PROVE  VectorsSound'
      <3>1. \A r \in ResizeOn(vec[h], n, x) : Sound(r.vec)
        BY <2>2, <2>4, ResizeSound
      <3>2. QED
        BY <2>15, <3>1, TriesSound DEF ResizeFill
    <2>16. CASE Sort(h)
      <3>1. PICK v \in SortOn(vec[h]) : Does(h, "Sort", <<h>>, v)
        BY <2>16 DEF Sort
      <3>2. Sound(v)
        BY <2>2, SortSound
      <3>3. QED
        BY <3>1, <3>2, DoesSound
    <2>17. CASE Destroy(h)
      BY <2>17, NewSound, OneBecomes DEF Destroy
    <2>18. CASE \/ \E i \in Indexes(h) : At(h, i)
                \/ Front(h) \/ Back(h) \/ Size(h)
                \/ \E x \in Values : LinearSearch(h, x)
                \/ \E x \in Values : BinarySearch(h, x)
      <3>1. vec' = vec
        BY <2>18 DEF At, Front, Back, Size, LinearSearch, BinarySearch, Answers
      <3>2. QED
        BY <3>1 DEF VectorsSound, Sound, Cap
    <2>19. CASE \E other \in Handles : Swap(h, other)
      <3>1. PICK other \in Handles :
              vec' = [vec EXCEPT ![h] = vec[other], ![other] = vec[h]]
        BY <2>19 DEF Swap
      <3>2. /\ vec' \in [Handles -> Vectors]
            /\ \A g \in Handles : \E k \in Handles : vec'[g] = vec[k]
        BY <3>1 DEF VectorsSound
      <3>3. QED
        BY <3>2 DEF VectorsSound
    <2>20. QED
      BY <2>1, <2>5, <2>6, <2>7, <2>8, <2>9, <2>10, <2>11, <2>12, <2>13, <2>14,
         <2>15, <2>16, <2>17, <2>18, <2>19, Zenon
  <1>3. QED
    BY <1>1, <1>2

\* No method of a Vector, List or Dlist ever touches a cell outside of the
\* object's block: for any number of objects, any values, any capacity the
\* first growth gives, and whichever reallocs fail (runtime.c, AnyVector).
THEOREM VectorsInsideTheBlock == Spec => []InsideTheBlock
  <1>1. Init => VectorsSound
    BY NewSound DEF Init, VectorsSound, Sound
  <1>2. VectorsSound /\ [Next]_vars => VectorsSound'
    BY VectorStep
  <1>3. VectorsSound => InsideTheBlock
    BY DEF VectorsSound, Sound, InsideTheBlock
  <1>4. QED
    BY <1>1, <1>2, <1>3, PTL DEF Spec
\* What a method reads is an element that was stored, a place, a count, or the
\* 0 or -1 that stand for none.
LEMMA ReadsTyped ==
    ASSUME VectorsSound, out \in Values \union Nat \union {-1}, [Next]_vars
    PROVE  out' \in Values \union Nat \union {-1}
  <1> DEFINE Typed(x) == x \in Values \union Nat \union {-1}
  <1>1. ASSUME NEW h \in Handles
        PROVE  /\ vec[h].count \in Nat
               /\ \A k \in 1..vec[h].count : vec[h].cells[k] \in Values
               /\ Sound(vec[h])
    BY SoundParts DEF VectorsSound
  <1>2. ASSUME NEW h \in Handles, NEW i \in Indexes(h) PROVE Typed(ElementAt(vec[h], i))
    <2>1. i \in Nat
      BY <1>1 DEF Indexes
    <2>2. i < vec[h].count => i + 1 \in 1..vec[h].count
      BY <1>1, <2>1
    <2>3. QED
      BY <1>1, <2>2 DEF ElementAt
  <1>3. ASSUME NEW h \in Handles PROVE Typed(LastElement(vec[h])) /\ 0 \in Indexes(h)
    BY <1>1 DEF LastElement, Indexes
  <1>4. ASSUME NEW h \in Handles, NEW x \in Values
        PROVE  Typed(FindOn(vec[h], x)) /\ Typed(BinarySearchOn(vec[h], x))
    BY <1>1, FindIs, BinarySearchIs DEF FirstFrom, FoundIn
  <1>5. CASE out' = out
    BY <1>5
  <1>6. ASSUME NEW h \in Handles,
               \/ PopBack(h)
               \/ \E i \in Indexes(h) : At(h, i)
               \/ Front(h) \/ Back(h) \/ Size(h)
               \/ \E x \in Values : LinearSearch(h, x) \/ BinarySearch(h, x)
        PROVE  Typed(out')
    <2>1. CASE PopBack(h)
      BY <1>3, <2>1 DEF PopBack
    <2>2. CASE \E i \in Indexes(h) : At(h, i)
      BY <1>2, <2>2 DEF At, Answers
    <2>3. CASE Front(h)
      BY <1>2, <1>3, <2>3 DEF Front, Answers
    <2>4. CASE Back(h)
      BY <1>3, <2>4 DEF Back, Answers
    <2>5. CASE Size(h)
      BY <1>1, <2>5 DEF Size, Answers
    <2>6. CASE \E x \in Values : LinearSearch(h, x) \/ BinarySearch(h, x)
      BY <1>4, <2>6 DEF LinearSearch, BinarySearch, Answers
    <2>7. QED
      BY <1>6, <2>1, <2>2, <2>3, <2>4, <2>5, <2>6
  <1> HIDE DEF Typed
  <1>7. \/ out' = out
        \/ \E h \in Handles :
              \/ PopBack(h)
              \/ \E i \in Indexes(h) : At(h, i)
              \/ Front(h) \/ Back(h) \/ Size(h)
              \/ \E x \in Values : LinearSearch(h, x) \/ BinarySearch(h, x)
    <2>1. ASSUME NEW h, NEW n, NEW x,
                 \/ Assign(h, n, x) \/ Set(h, n, x) \/ ReserveCells(h, n)
                 \/ ShrinkToFit(h) \/ Clear(h) \/ Insert(h, n, x) \/ Erase(h, n)
                 \/ PushBack(h, x) \/ Resize(h, n) \/ ResizeFill(h, n, x)
                 \/ Sort(h) \/ Destroy(h) \/ Swap(h, x)
          PROVE  out' = out
      BY <2>1 DEF Assign, Set, ReserveCells, ShrinkToFit, Clear, Insert, Erase, PushBack,
               Resize, ResizeFill, Sort, Destroy, Swap, Tries, Does
    <2>2. UNCHANGED vars => out' = out
      BY DEF vars
    <2>3. QED
      BY <2>1, <2>2, CallsOf, Zenon
  <1>8. CASE out' = out
    BY <1>8
  <1>9. QED
    BY <1>6, <1>7, <1>8 DEF Typed

\* Every object of the program is a vector whose elements lie in its block, and
\* no read shows what nobody stored: growth and Resize leave no cell of the
\* elements unwritten (runtime.c, AnyVector).
THEOREM VectorsTyped == Spec => []TypeOK
  <1> DEFINE Inv == VectorsSound /\ TypeOK
  <1>1. Init => Inv
    <2>1. NewVector.count <= Cap(NewVector) /\ NewVector \in Vectors
      BY NewSound DEF Sound
    <2>2. QED
      BY <2>1, NewSound DEF Init, VectorsSound, TypeOK
  <1>2. Inv /\ [Next]_vars => Inv'
    <2> SUFFICES ASSUME VectorsSound, TypeOK, [Next]_vars PROVE Inv'
      OBVIOUS
    <2>1. VectorsSound'
      BY VectorStep
    <2>2. out' \in Values \union Nat \union {-1}
      BY ReadsTyped DEF TypeOK
    <2>3. made' \subseteq Handles
      <3>1. ASSUME NEW h, NEW n, NEW x,
                   \/ Assign(h, n, x) \/ Set(h, n, x) \/ ReserveCells(h, n)
                   \/ ShrinkToFit(h) \/ Clear(h) \/ Insert(h, n, x) \/ Erase(h, n)
                   \/ PushBack(h, x) \/ Resize(h, n) \/ ResizeFill(h, n, x)
                   \/ Sort(h) \/ PopBack(h) \/ Swap(h, x)
            PROVE  made' = made
        BY <3>1 DEF Assign, Set, ReserveCells, ShrinkToFit, Clear, Insert, Erase, PushBack,
                 PopBack, Resize, ResizeFill, Sort, Swap, Tries, Does, Becomes
      <3>2. ASSUME NEW h, NEW n, NEW x,
                   \/ At(h, n) \/ Front(h) \/ Back(h) \/ Size(h)
                   \/ LinearSearch(h, x) \/ BinarySearch(h, x)
            PROVE  made' = made
        BY <3>2 DEF At, Front, Back, Size, LinearSearch, BinarySearch, Answers
      <3>3. \A h : Destroy(h) => made' = made \ {h}
        BY DEF Destroy
      <3>4. UNCHANGED vars => made' = made
        BY DEF vars
      <3>5. made' = made \/ \E h : made' = made \ {h}
        BY <3>1, <3>2, <3>3, <3>4, CallsOf, Zenon
      <3>6. QED
        BY <3>5 DEF TypeOK
    <2>4. \A h \in Handles : vec'[h].count <= Cap(vec'[h])
      BY <2>1 DEF VectorsSound, Sound
    <2>5. QED
      BY <2>1, <2>2, <2>3, <2>4 DEF VectorsSound, TypeOK
  <1>3. QED
    <2>1. Inv => TypeOK
      OBVIOUS
    <2> HIDE DEF Inv
    <2>2. QED
      BY <1>1, <1>2, <2>1, PTL DEF Spec

-----------------------------------------------------------------------------
(* Vectors as sequences.                                                   *)

\* A part of a sequence.
LEMMA PartIs ==
    ASSUME NEW S, NEW s \in Seq(S), NEW m \in 1..Len(s) + 1, NEW n \in 0..Len(s), m <= n + 1
    PROVE  /\ SubSeq(s, m, n) \in Seq(S)
           /\ Len(SubSeq(s, m, n)) = n - m + 1
           /\ \A k \in 1..(n - m + 1) : SubSeq(s, m, n)[k] = s[m + k - 1]
  <1>1. Len(s) \in Nat /\ m \in Int /\ n \in Int
    BY LenProperties
  <1>2. \A i \in m..n : s[i] \in S
    BY <1>1, ElementOfSeq
  <1>3. /\ SubSeq(s, m, n) \in Seq(S)
        /\ Len(SubSeq(s, m, n)) = IF m <= n THEN n - m + 1 ELSE 0
        /\ \A k \in 1..(n - m + 1) : SubSeq(s, m, n)[k] = s[m + k - 1]
    BY <1>1, <1>2, SubSeqProperties
  <1>4. QED
    BY <1>1, <1>3

\* t has one element more than s, one less.
Added(s, t, i, x) ==
    /\ Len(t) = Len(s) + 1
    /\ \A k \in 1..Len(t) :
          t[k] = IF k <= i THEN s[k] ELSE IF k = i + 1 THEN x ELSE s[k - 1]

Removed(s, t, i) ==
    /\ Len(t) = Len(s) - 1
    /\ \A k \in 1..Len(t) : t[k] = IF k <= i - 1 THEN s[k] ELSE s[k + 1]

LEMMA AddedIs ==
    ASSUME NEW s \in Seq(Values), NEW t \in Seq(Values), NEW i \in 0..Len(s), NEW x \in Values,
           Added(s, t, i, x)
    PROVE  t = SubSeq(s, 1, i) \o <<x>> \o SubSeq(s, i + 1, Len(s))
  <1> USE DEF Added
  <1>1. PICK n \in Nat : n = Len(s)
    BY LenProperties
  <1>2. PICK a, b : a = SubSeq(s, 1, i) /\ b = SubSeq(s, i + 1, n)
    OBVIOUS
  <1>3. /\ a \in Seq(Values) /\ Len(a) = i
        /\ \A k \in 1..i : a[k] = s[k]
    <2>1. /\ 1 \in 1..Len(s) + 1 /\ i \in 0..Len(s) /\ 1 <= i + 1 /\ i - 1 + 1 = i
          /\ \A k \in 1..i : 1 + k - 1 = k
      BY <1>1
    <2>2. QED
      BY <1>2, <2>1, PartIs
  <1>4. /\ b \in Seq(Values) /\ Len(b) = n - i
        /\ \A k \in 1..(n - i) : b[k] = s[i + k]
    <2>1. /\ i + 1 \in 1..Len(s) + 1 /\ n \in 0..Len(s) /\ i + 1 <= n + 1
          /\ n - (i + 1) + 1 = n - i
          /\ \A k \in 1..(n - i) : i + 1 + k - 1 = i + k
      BY <1>1
    <2>2. QED
      BY <1>2, <2>1, PartIs
  <1>5. <<x>> \in Seq(Values) /\ Len(<<x>>) = 1 /\ <<x>>[1] = x
    OBVIOUS
  <1>6. PICK c : c = a \o <<x>>
    OBVIOUS
  <1>7. /\ c \in Seq(Values) /\ Len(c) = i + 1
        /\ \A k \in 1..(i + 1) : c[k] = IF k <= i THEN a[k] ELSE <<x>>[k - i]
    BY <1>3, <1>5, <1>6, ConcatProperties
  <1>8. \A k \in 1..(i + 1) : c[k] = IF k <= i THEN s[k] ELSE x
    <2>1. ASSUME NEW k \in 1..(i + 1), ~(k <= i) PROVE k - i = 1
      BY <2>1
    <2>2. QED
      BY <1>3, <1>5, <1>7, <2>1
  <1>9. PICK d : d = c \o b
    OBVIOUS
  <1>10. /\ d \in Seq(Values) /\ Len(d) = n + 1
         /\ \A k \in 1..(n + 1) : d[k] = IF k <= i + 1 THEN c[k] ELSE b[k - (i + 1)]
    <2>1. i + 1 + (n - i) = n + 1
      BY <1>1
    <2>2. QED
      BY <1>4, <1>7, <1>9, <2>1, ConcatProperties
  <1>11. ASSUME NEW k \in 1..(n + 1) PROVE d[k] = t[k]
    <2>1. CASE k <= i + 1
      BY <1>1, <1>8, <1>10, <2>1
    <2>2. CASE ~(k <= i + 1)
      <3>1. k - (i + 1) \in 1..(n - i) /\ i + (k - (i + 1)) = k - 1
        BY <1>1, <2>2
      <3>2. d[k] = s[k - 1]
        BY <1>4, <1>10, <2>2, <3>1
      <3>3. QED
        BY <1>1, <2>2, <3>2
    <2>3. QED
      BY <2>1, <2>2
  <1>12. d = t
    BY <1>1, <1>10, <1>11, SeqEqual
  <1>13. QED
    BY <1>1, <1>2, <1>6, <1>9, <1>12

LEMMA RemovedIs ==
    ASSUME NEW s \in Seq(Values), NEW t \in Seq(Values), NEW i \in 1..Len(s), Removed(s, t, i)
    PROVE  t = SubSeq(s, 1, i - 1) \o SubSeq(s, i + 1, Len(s))
  <1> USE DEF Removed
  <1>1. PICK n \in Nat : n = Len(s)
    BY LenProperties
  <1>2. PICK a, b : a = SubSeq(s, 1, i - 1) /\ b = SubSeq(s, i + 1, n)
    OBVIOUS
  <1>3. /\ a \in Seq(Values) /\ Len(a) = i - 1
        /\ \A k \in 1..(i - 1) : a[k] = s[k]
    <2>1. /\ 1 \in 1..Len(s) + 1 /\ i - 1 \in 0..Len(s) /\ 1 <= i - 1 + 1
          /\ i - 1 - 1 + 1 = i - 1
          /\ \A k \in 1..(i - 1) : 1 + k - 1 = k
      BY <1>1
    <2>2. QED
      BY <1>2, <2>1, PartIs
  <1>4. /\ b \in Seq(Values) /\ Len(b) = n - i
        /\ \A k \in 1..(n - i) : b[k] = s[i + k]
    <2>1. /\ i + 1 \in 1..Len(s) + 1 /\ n \in 0..Len(s) /\ i + 1 <= n + 1
          /\ n - (i + 1) + 1 = n - i
          /\ \A k \in 1..(n - i) : i + 1 + k - 1 = i + k
      BY <1>1
    <2>2. QED
      BY <1>2, <2>1, PartIs
  <1>5. PICK d : d = a \o b
    OBVIOUS
  <1>6. /\ d \in Seq(Values) /\ Len(d) = n - 1
        /\ \A k \in 1..(n - 1) : d[k] = IF k <= i - 1 THEN a[k] ELSE b[k - (i - 1)]
    <2>1. i - 1 + (n - i) = n - 1
      BY <1>1
    <2>2. QED
      BY <1>3, <1>4, <1>5, <2>1, ConcatProperties
  <1>7. ASSUME NEW k \in 1..(n - 1) PROVE d[k] = t[k]
    <2>1. CASE k <= i - 1
      BY <1>1, <1>3, <1>6, <2>1
    <2>2. CASE ~(k <= i - 1)
      <3>1. k - (i - 1) \in 1..(n - i) /\ i + (k - (i - 1)) = k + 1
        BY <1>1, <2>2
      <3>2. d[k] = s[k + 1]
        BY <1>4, <1>6, <2>2, <3>1
      <3>3. QED
        BY <1>1, <2>2, <3>2
    <2>3. QED
      BY <2>1, <2>2
  <1>8. d = t
    BY <1>1, <1>6, <1>7, SeqEqual
  <1>9. QED
    BY <1>1, <1>2, <1>5, <1>8

\* The elements of w are the n of f.
Holds(w, f, n) ==
    /\ f \in [1..n -> Values]
    /\ w.count = n
    /\ \A k \in 1..n : w.cells[k] = f[k]

LEMMA SameContents ==
    ASSUME NEW w, Sound(w), NEW n, NEW f, Holds(w, f, n)
    PROVE  Contents(w) = f
  <1>1. w.count = n /\ f \in [1..n -> Values] /\ \A k \in 1..n : w.cells[k] = f[k]
    BY Zenon DEF Holds
  <1>2. PICK t \in [1..w.count -> Values] :
          t = Contents(w) /\ \A k \in 1..w.count : t[k] = w.cells[k]
    BY ContentsIs
  <1>3. t \in [1..n -> Values]
    BY <1>1
  <1>4. \A k \in 1..n : t[k] = f[k]
    BY <1>1, <1>2
  <1>5. t = f
    <2>1. n \in Nat
      BY <1>1, SoundParts
    <2>2. QED
      BY <1>1, <1>3, <1>4, <2>1
  <1>6. QED
    BY <1>2, <1>5

LEMMA KeepsContents ==
    ASSUME NEW v, Sound(v), NEW w, Sound(w), Keeps(w, v)
    PROVE  Contents(w) = Contents(v)
  <1>1. PICK n \in Nat : n = v.count
    BY SoundParts
  <1>2. PICK s \in [1..n -> Values] : s = Contents(v) /\ \A k \in 1..n : s[k] = v.cells[k]
    BY <1>1, ContentsIs
  <1>3. w.count = n /\ \A k \in 1..n : w.cells[k] = s[k]
    BY <1>1, <1>2 DEF Keeps
  <1>4. Holds(w, s, n)
    BY <1>2, <1>3 DEF Holds
  <1>5. QED
    BY <1>2, <1>4, SameContents

LEMMA InsertedContents ==
    ASSUME NEW v, Sound(v), NEW w, Sound(w), NEW i \in 0..v.count, NEW x \in Values,
           Inserted(w, v, i, x)
    PROVE  Contents(w) = SubSeq(Contents(v), 1, i) \o <<x>>
                         \o SubSeq(Contents(v), i + 1, Len(Contents(v)))
  <1>1. PICK n \in Nat : n = v.count
    BY SoundParts
  <1>2. PICK s \in Seq(Values) :
          /\ s = Contents(v) /\ Len(s) = n /\ \A k \in 1..n : s[k] = v.cells[k]
    BY <1>1, ContentsIs
  <1>3. w.count = n + 1
    BY <1>1 DEF Inserted
  <1>4. PICK t \in Seq(Values) :
          /\ t = Contents(w) /\ Len(t) = n + 1 /\ \A k \in 1..(n + 1) : t[k] = w.cells[k]
    BY <1>3, ContentsIs
  <1>5. ASSUME NEW k \in 1..(n + 1)
        PROVE  t[k] = IF k <= i THEN s[k] ELSE IF k = i + 1 THEN x ELSE s[k - 1]
    <2>1. w.cells[k] = IF k <= i THEN v.cells[k]
                       ELSE IF k = i + 1 THEN x ELSE v.cells[k - 1]
      BY <1>3 DEF Inserted
    <2>2. (k <= i => k \in 1..n) /\ (~(k <= i) /\ k # i + 1 => k - 1 \in 1..n)
      BY <1>1
    <2>3. QED
      BY <1>2, <1>4, <2>1, <2>2
  <1>6. t = SubSeq(s, 1, i) \o <<x>> \o SubSeq(s, i + 1, Len(s))
    <2>1. Added(s, t, i, x)
      BY <1>2, <1>4, <1>5 DEF Added
    <2>2. QED
      BY <1>1, <1>2, <2>1, AddedIs
  <1>7. QED
    BY <1>2, <1>4, <1>6

LEMMA ErasedContents ==
    ASSUME NEW v, Sound(v), NEW w, Sound(w), NEW i \in 1..v.count, Erased(w, v, i - 1)
    PROVE  Contents(w) = SubSeq(Contents(v), 1, i - 1)
                         \o SubSeq(Contents(v), i + 1, Len(Contents(v)))
  <1>1. PICK n \in Nat : n = v.count
    BY SoundParts
  <1>2. PICK s \in Seq(Values) :
          /\ s = Contents(v) /\ Len(s) = n /\ \A k \in 1..n : s[k] = v.cells[k]
    BY <1>1, ContentsIs
  <1>3. w.count = n - 1 /\ n - 1 \in Nat
    BY <1>1 DEF Erased
  <1>4. PICK t \in Seq(Values) :
          /\ t = Contents(w) /\ Len(t) = n - 1 /\ \A k \in 1..(n - 1) : t[k] = w.cells[k]
    <2>1. PICK m \in Nat : m = w.count
      BY <1>3
    <2>2. PICK t \in Seq(Values) :
            t = Contents(w) /\ Len(t) = m /\ \A k \in 1..m : t[k] = w.cells[k]
      BY <2>1, ContentsIs
    <2>3. m = n - 1
      BY <1>3, <2>1
    <2>4. QED
      BY <2>2, <2>3
  <1>5. ASSUME NEW k \in 1..(n - 1)
        PROVE  t[k] = IF k <= i - 1 THEN s[k] ELSE s[k + 1]
    <2>1. w.cells[k] = IF k <= i - 1 THEN v.cells[k] ELSE v.cells[k + 1]
      BY <1>3 DEF Erased
    <2>2. k \in 1..n /\ k + 1 \in 1..n
      BY <1>1
    <2>3. QED
      BY <1>2, <1>4, <2>1, <2>2
  <1>6. t = SubSeq(s, 1, i - 1) \o SubSeq(s, i + 1, Len(s))
    <2>1. Removed(s, t, i)
      BY <1>2, <1>4, <1>5 DEF Removed
    <2>2. QED
      BY <1>1, <1>2, <2>1, RemovedIs
  <1>7. QED
    BY <1>2, <1>4, <1>6

LEMMA AdjustedContents ==
    ASSUME NEW v, Sound(v), NEW w, Sound(w), NEW n \in Nat, NEW x \in Values,
           Adjusted(w, v, n, x)
    PROVE  Contents(w) = [k \in 1..n |-> IF k <= Len(Contents(v)) THEN Contents(v)[k] ELSE x]
  <1>1. PICK m \in Nat : m = v.count
    BY SoundParts
  <1>2. PICK s : /\ s = Contents(v) /\ Len(s) = m
                 /\ \A k \in 1..m : s[k] = v.cells[k] /\ s[k] \in Values
    BY <1>1, ContentsIs
  <1>3. PICK f : f = [k \in 1..n |-> IF k <= m THEN s[k] ELSE x]
    OBVIOUS
  <1>4. \A k \in 1..n : k <= m => k \in 1..m
    OBVIOUS
  <1>5. f \in [1..n -> Values]
    BY <1>2, <1>3, <1>4
  <1>6. w.count = n /\ \A k \in 1..n : w.cells[k] = f[k]
    BY <1>1, <1>2, <1>3, <1>4 DEF Adjusted
  <1>7. Contents(w) = f
    BY <1>5, <1>6, SameContents DEF Holds
  <1>8. QED
    BY <1>2, <1>3, <1>7

LEMMA FilledContents ==
    ASSUME NEW w, Sound(w), NEW n \in Nat, NEW x \in Values, w.count = n,
           \A k \in 1..n : w.cells[k] = x
    PROVE  Contents(w) = [k \in 1..n |-> x]
  <1>1. PICK f : f = [k \in 1..n |-> x]
    OBVIOUS
  <1>2. f \in [1..n -> Values] /\ \A k \in 1..n : w.cells[k] = f[k]
    BY <1>1
  <1>3. Holds(w, f, n)
    BY <1>2 DEF Holds
  <1>4. QED
    BY <1>1, <1>3, SameContents

LEMMA ChangedContents ==
    ASSUME NEW v, Sound(v), NEW w, Sound(w), NEW i \in 1..v.count, NEW x \in Values,
           ChangedAt(w, v, i - 1, x)
    PROVE  Contents(w) = [Contents(v) EXCEPT ![i] = x]
  <1>1. PICK n \in Nat : n = v.count
    BY SoundParts
  <1>2. PICK s \in [1..n -> Values] : s = Contents(v) /\ \A k \in 1..n : s[k] = v.cells[k]
    BY <1>1, ContentsIs
  <1>3. PICK f : f = [s EXCEPT ![i] = x]
    OBVIOUS
  <1>4. f \in [1..n -> Values] /\ \A k \in 1..n : f[k] = IF k = i THEN x ELSE s[k]
    BY <1>1, <1>2, <1>3
  <1>5. w.count = n /\ \A k \in 1..n : w.cells[k] = f[k]
    <2>1. i - 1 + 1 = i
      OBVIOUS
    <2>2. w.count = n /\ \A k \in 1..n : w.cells[k] = IF k = i THEN x ELSE v.cells[k]
      BY <1>1, <2>1 DEF ChangedAt
    <2>3. QED
      BY <1>2, <1>4, <2>2
  <1>6. Contents(w) = f
    BY <1>1, <1>4, <1>5, SameContents DEF Holds
  <1>7. QED
    BY <1>2, <1>3, <1>6

LEMMA FewerContents ==
    ASSUME NEW v, Sound(v), NEW w, Sound(w), w.count = IF v.count > 0 THEN v.count - 1 ELSE 0,
           w.cells = v.cells
    PROVE  Contents(w) = SubSeq(Contents(v), 1, Len(Contents(v)) - 1)
  <1>1. PICK n \in Nat : n = v.count
    BY SoundParts
  <1>2. PICK s \in Seq(Values) :
          /\ s = Contents(v) /\ Len(s) = n /\ \A k \in 1..n : s[k] = v.cells[k]
    BY <1>1, ContentsIs
  <1>3. CASE n = 0
    <2>1. SubSeq(s, 1, n - 1) = <<>>
      BY <1>3, SubSeqEmpty
    <2>2. Contents(w) \in Seq(Values) /\ Len(Contents(w)) = 0
      BY <1>1, <1>3, ContentsIs
    <2>3. Contents(w) = <<>>
      BY <2>2, EmptySeq
    <2>4. QED
      BY <1>2, <2>1, <2>3
  <1>4. CASE n > 0
    <2>1. PICK t \in Seq(Values) :
            /\ t = Contents(w) /\ Len(t) = n - 1
            /\ \A k \in 1..(n - 1) : t[k] = v.cells[k]
      BY <1>1, <1>4, ContentsIs
    <2>2. PICK a : a = SubSeq(s, 1, n - 1)
      OBVIOUS
    <2>3. /\ a \in Seq(Values) /\ Len(a) = n - 1
          /\ \A k \in 1..(n - 1) : a[k] = s[k]
      <3>1. /\ 1 \in 1..Len(s) + 1 /\ n - 1 \in 0..Len(s) /\ 1 <= n - 1 + 1
            /\ n - 1 - 1 + 1 = n - 1
            /\ \A k \in 1..(n - 1) : 1 + k - 1 = k
        BY <1>2, <1>4
      <3>2. QED
        BY <2>2, <3>1, PartIs
    <2>4. \A k \in 1..Len(t) : t[k] = a[k]
      BY <1>2, <2>1, <2>3
    <2>5. t = a
      BY <2>1, <2>3, <2>4, SeqEqual
    <2>6. QED
      BY <1>2, <2>1, <2>2, <2>5
  <1>5. QED
    BY <1>3, <1>4

\* The sequences of the objects whose vectors are f.
SeqOf(f) == [h \in Handles |-> Contents(f[h])]

\* The actions of the abstract specification, without its refinement mapping.
LEMMA SeenCalled ==
    \A op, args, denied : Seen!Called(op, args, denied) <=> Called(op, args, denied)
  BY Zenon DEF Seen!Called, Seen!CallAfter, Called, CallAfter

LEMMA SeenForms ==
    /\ \A h, op, args, s : Seen!Does(h, op, args, s) <=>
          /\ Called(op, args, {})
          /\ out' = out
          /\ SeqOf(vec') = [SeqOf(vec) EXCEPT ![h] = s]
    /\ \A h, op, args, s : Seen!Tries(h, op, args, s) <=>
          \/ Seen!Does(h, op, args, s)
          \/ /\ Called(op, args, {"room"})
             /\ out' = out
             /\ SeqOf(vec') = SeqOf(vec)
    /\ \A op, args, x : Seen!Answers(op, args, x) <=>
          /\ Called(op, args, {})
          /\ out' = x
          /\ SeqOf(vec') = SeqOf(vec)
  <1>1. \A h, op, args, s : Seen!Does(h, op, args, s) <=>
          /\ Called(op, args, {})
          /\ out' = out
          /\ SeqOf(vec') = [SeqOf(vec) EXCEPT ![h] = s]
    BY SeenCalled, Zenon DEF Seen!Does, Seen!Becomes, SeqOf
  <1>2. \A h, op, args, s : Seen!Tries(h, op, args, s) <=>
          \/ Seen!Does(h, op, args, s)
          \/ /\ Called(op, args, {"room"})
             /\ out' = out
             /\ SeqOf(vec') = SeqOf(vec)
    BY SeenCalled, Zenon DEF Seen!Tries, SeqOf
  <1>3. \A op, args, x : Seen!Answers(op, args, x) <=>
          /\ Called(op, args, {})
          /\ out' = x
          /\ SeqOf(vec') = SeqOf(vec)
    BY SeenCalled, Zenon DEF Seen!Answers, SeqOf
  <1>4. QED
    BY <1>1, <1>2, <1>3, Zenon

\* The methods that may need memory.
LEMMA SeenTries ==
    /\ \A h, n, x : Seen!Assign(h, n, x) <=>
          Seen!Tries(h, "Assign", <<h, n, x>>, [k \in 1..n |-> x])
    /\ \A h, n : Seen!Reserve(h, n) <=>
          Seen!Tries(h, "Reserve", <<h, n>>, SeqOf(vec)[h])
    /\ \A h : Seen!ShrinkToFit(h) <=>
          Seen!Tries(h, "ShrinkToFit", <<h>>, SeqOf(vec)[h])
    /\ \A h, i, x : Seen!Insert(h, i, x) <=>
          Seen!Tries(h, "Insert", <<h, i, x>>, Seen!Added(SeqOf(vec)[h], i, x))
    /\ \A h, x : Seen!PushBack(h, x) <=>
          Seen!Tries(h, "PushBack", <<h, x>>, Append(SeqOf(vec)[h], x))
    /\ \A h, n : Seen!Resize(h, n) <=>
          Seen!Tries(h, "Resize", <<h, n>>, Seen!Adjusted(SeqOf(vec)[h], n, 0))
    /\ \A h, n, x : Seen!ResizeFill(h, n, x) <=>
          Seen!Tries(h, "ResizeFill", <<h, n, x>>, Seen!Adjusted(SeqOf(vec)[h], n, x))
  BY Zenon DEF Seen!Assign, Seen!Reserve, Seen!ShrinkToFit, Seen!Insert, Seen!PushBack,
           Seen!Resize, Seen!ResizeFill, SeqOf

\* Those that do not.
LEMMA SeenDoes ==
    /\ \A h, i, x : Seen!Set(h, i, x) <=>
          Seen!Does(h, "Set", <<h, i, x>>,
                    IF i < Len(SeqOf(vec)[h])
                    THEN [SeqOf(vec)[h] EXCEPT ![i + 1] = x] ELSE SeqOf(vec)[h])
    /\ \A h : Seen!Clear(h) <=> Seen!Does(h, "Clear", <<h>>, <<>>)
    /\ \A h, i : Seen!Erase(h, i) <=>
          Seen!Does(h, "Erase", <<h, i>>,
                    IF i < Len(SeqOf(vec)[h])
                    THEN Seen!Without(SeqOf(vec)[h], i) ELSE SeqOf(vec)[h])
    /\ \A h : Seen!PopBack(h) <=>
          /\ Called("PopBack", <<h>>, {})
          /\ out' = Seen!ElementOrNone(SeqOf(vec)[h], Len(SeqOf(vec)[h]))
          /\ SeqOf(vec') = [SeqOf(vec) EXCEPT ![h] = SubSeq(@, 1, Len(@) - 1)]
    /\ \A h : Seen!Sort(h) <=>
          \E s \in Seen!Reorderings(SeqOf(vec)[h]) :
             Seen!Sorted(s) /\ Seen!Does(h, "Sort", <<h>>, s)
    /\ \A h : Seen!Destroy(h) <=> Seen!Does(h, "Destroy", <<h>>, <<>>)
    /\ \A g, h : Seen!Swap(g, h) <=>
          /\ Called("Swap", <<g, h>>, {})
          /\ out' = out
          /\ SeqOf(vec') = [SeqOf(vec) EXCEPT ![g] = SeqOf(vec)[h],
                                              ![h] = SeqOf(vec)[g]]
  <1>1. /\ \A h, i, x : Seen!Set(h, i, x) <=>
              Seen!Does(h, "Set", <<h, i, x>>,
                        IF i < Len(SeqOf(vec)[h])
                        THEN [SeqOf(vec)[h] EXCEPT ![i + 1] = x] ELSE SeqOf(vec)[h])
        /\ \A h : Seen!Clear(h) <=> Seen!Does(h, "Clear", <<h>>, <<>>)
        /\ \A h, i : Seen!Erase(h, i) <=>
              Seen!Does(h, "Erase", <<h, i>>,
                        IF i < Len(SeqOf(vec)[h])
                        THEN Seen!Without(SeqOf(vec)[h], i) ELSE SeqOf(vec)[h])
        /\ \A h : Seen!Destroy(h) <=> Seen!Does(h, "Destroy", <<h>>, <<>>)
    BY Zenon DEF Seen!Set, Seen!Clear, Seen!Erase, Seen!Destroy, SeqOf
  <1>2. \A h : Seen!PopBack(h) <=>
          /\ Called("PopBack", <<h>>, {})
          /\ out' = Seen!ElementOrNone(SeqOf(vec)[h], Len(SeqOf(vec)[h]))
          /\ SeqOf(vec') = [SeqOf(vec) EXCEPT ![h] = SubSeq(@, 1, Len(@) - 1)]
    BY SeenCalled, Zenon DEF Seen!PopBack, SeqOf
  <1>3. \A h : Seen!Sort(h) <=>
          \E s \in Seen!Reorderings(SeqOf(vec)[h]) :
             Seen!Sorted(s) /\ Seen!Does(h, "Sort", <<h>>, s)
    BY SeenCalled, Zenon DEF Seen!Sort, Seen!Does, SeqOf
  <1>4. \A g, h : Seen!Swap(g, h) <=>
          /\ Called("Swap", <<g, h>>, {})
          /\ out' = out
          /\ SeqOf(vec') = [SeqOf(vec) EXCEPT ![g] = SeqOf(vec)[h],
                                              ![h] = SeqOf(vec)[g]]
    BY SeenCalled, Zenon DEF Seen!Swap, SeqOf
  <1>5. QED
    BY <1>1, <1>2, <1>3, <1>4, Zenon

\* Those that read.
LEMMA SeenReads ==
    /\ \A h, i : Seen!At(h, i) <=>
          Seen!Answers("At", <<h, i>>, Seen!ElementOrNone(SeqOf(vec)[h], i + 1))
    /\ \A h : Seen!Front(h) <=>
          Seen!Answers("Front", <<h>>, Seen!ElementOrNone(SeqOf(vec)[h], 1))
    /\ \A h : Seen!Back(h) <=>
          Seen!Answers("Back", <<h>>,
                       Seen!ElementOrNone(SeqOf(vec)[h], Len(SeqOf(vec)[h])))
    /\ \A h : Seen!Size(h) <=> Seen!Answers("Size", <<h>>, Len(SeqOf(vec)[h]))
    /\ \A h, x : Seen!LinearSearch(h, x) <=>
          \/ \E i \in Seen!Places(SeqOf(vec)[h], x) :
                /\ \A j \in Seen!Places(SeqOf(vec)[h], x) : i <= j
                /\ Seen!Answers("LinearSearch", <<h, x>>, i - 1)
          \/ /\ Seen!Places(SeqOf(vec)[h], x) = {}
             /\ Seen!Answers("LinearSearch", <<h, x>>, -1)
    /\ \A h, x : Seen!BinarySearch(h, x) <=>
          \/ \E i \in Seen!Places(SeqOf(vec)[h], x) :
                Seen!Answers("BinarySearch", <<h, x>>, i - 1)
          \/ /\ Seen!Sorted(SeqOf(vec)[h]) => Seen!Places(SeqOf(vec)[h], x) = {}
             /\ Seen!Answers("BinarySearch", <<h, x>>, -1)
  <1>1. /\ \A h, i : Seen!At(h, i) <=>
              Seen!Answers("At", <<h, i>>, Seen!ElementOrNone(SeqOf(vec)[h], i + 1))
        /\ \A h : Seen!Front(h) <=>
              Seen!Answers("Front", <<h>>, Seen!ElementOrNone(SeqOf(vec)[h], 1))
        /\ \A h : Seen!Back(h) <=>
              Seen!Answers("Back", <<h>>,
                           Seen!ElementOrNone(SeqOf(vec)[h], Len(SeqOf(vec)[h])))
        /\ \A h : Seen!Size(h) <=> Seen!Answers("Size", <<h>>, Len(SeqOf(vec)[h]))
    BY Zenon DEF Seen!At, Seen!Front, Seen!Back, Seen!Size, SeqOf
  <1>2. \A h, x : Seen!LinearSearch(h, x) <=>
          \/ \E i \in Seen!Places(SeqOf(vec)[h], x) :
                /\ \A j \in Seen!Places(SeqOf(vec)[h], x) : i <= j
                /\ Seen!Answers("LinearSearch", <<h, x>>, i - 1)
          \/ /\ Seen!Places(SeqOf(vec)[h], x) = {}
             /\ Seen!Answers("LinearSearch", <<h, x>>, -1)
    BY Zenon DEF Seen!LinearSearch, SeqOf
  <1>3. \A h, x : Seen!BinarySearch(h, x) <=>
          \/ \E i \in Seen!Places(SeqOf(vec)[h], x) :
                Seen!Answers("BinarySearch", <<h, x>>, i - 1)
          \/ /\ Seen!Sorted(SeqOf(vec)[h]) => Seen!Places(SeqOf(vec)[h], x) = {}
             /\ Seen!Answers("BinarySearch", <<h, x>>, -1)
    BY Zenon DEF Seen!BinarySearch, SeqOf
  <1>4. QED
    BY <1>1, <1>2, <1>3, Zenon

\* The sequence of one object.
LEMMA SeqAt ==
    ASSUME NEW h \in Handles
    PROVE  SeqOf(vec)[h] = Contents(vec[h]) /\ SeqOf(vec')[h] = Contents(vec'[h])
  BY DEF SeqOf

\* The indexes a program may ask for are the same.
LEMMA SameIndexes ==
    ASSUME VectorsSound, NEW h \in Handles
    PROVE  Indexes(h) = 0..Len(SeqOf(vec)[h]) + 1
  <1>1. Len(Contents(vec[h])) = vec[h].count
    BY ContentsIs DEF VectorsSound
  <1>2. QED
    BY <1>1, SeqAt DEF Indexes

\* One vector gets other elements.
LEMMA OneSeen ==
    ASSUME VectorsSound, NEW h \in Handles, NEW w, vec' = [vec EXCEPT ![h] = w]
    PROVE  /\ SeqOf(vec') = [SeqOf(vec) EXCEPT ![h] = Contents(w)]
           /\ SeqOf(vec')[h] = Contents(w)
  <1>1. /\ vec' \in [Handles -> {vec[g] : g \in Handles} \union {w}]
        /\ \A g \in Handles : vec'[g] = IF g = h THEN w ELSE vec[g]
    BY DEF VectorsSound
  <1>2. \A g \in Handles : SeqOf(vec')[g] = IF g = h THEN Contents(w) ELSE SeqOf(vec)[g]
    BY <1>1 DEF SeqOf
  <1>3. QED
    BY <1>2 DEF SeqOf

\* A call that needs no memory.
LEMMA DoesStep ==
    ASSUME VectorsSound, NEW h \in Handles, NEW op, NEW args, NEW w, NEW s,
           Does(h, op, args, w), Contents(w) = s
    PROVE  Seen!Does(h, op, args, s)
  <1>1. Called(op, args, {}) /\ vec' = [vec EXCEPT ![h] = w] /\ out' = out
    BY DEF Does, Becomes
  <1>2. SeqOf(vec') = [SeqOf(vec) EXCEPT ![h] = s]
    BY <1>1, OneSeen
  <1>3. QED
    BY <1>1, <1>2, SeenForms, Zenon

\* A call that may: its elements become s or, denied memory, stay.
LEMMA TriesStep ==
    ASSUME VectorsSound, NEW h \in Handles, NEW op, NEW args, NEW outcomes, NEW s,
           Tries(h, op, args, outcomes),
           \A r \in outcomes : /\ r.rc = 0 => Contents(r.vec) = s
                               /\ r.rc # 0 => Contents(r.vec) = Contents(vec[h])
    PROVE  Seen!Tries(h, op, args, s)
  <1>1. PICK r \in outcomes : /\ Called(op, args, IF r.rc = 0 THEN {} ELSE {"room"})
                              /\ vec' = [vec EXCEPT ![h] = r.vec] /\ out' = out
    BY DEF Tries, Becomes
  <1>2. SeqOf(vec') = [SeqOf(vec) EXCEPT ![h] = Contents(r.vec)]
    BY <1>1, OneSeen
  <1>3. CASE r.rc = 0
    <2>1. Called(op, args, {})
      BY <1>1, <1>3, Zenon
    <2>2. SeqOf(vec') = [SeqOf(vec) EXCEPT ![h] = s]
      BY <1>2, <1>3
    <2>3. QED
      BY <1>1, <2>1, <2>2, SeenForms, Zenon
  <1>4. CASE r.rc # 0
    <2>1. Called(op, args, {"room"})
      BY <1>1, <1>4, Zenon
    <2>2. Contents(r.vec) = SeqOf(vec)[h]
      BY <1>4, SeqAt
    <2>3. SeqOf(vec') = SeqOf(vec)
      BY <1>2, <2>2 DEF SeqOf
    <2>4. QED
      BY <1>1, <2>1, <2>3, SeenForms, Zenon
  <1>5. QED
    BY <1>3, <1>4

\* An element is put behind the others.
LEMMA AppendedContents ==
    ASSUME NEW v, Sound(v), NEW w, Sound(w), NEW x \in Values,
           Inserted(w, v, v.count, x)
    PROVE  Contents(w) = Append(Contents(v), x)
  <1>1. PICK n \in Nat : n = v.count
    BY SoundParts
  <1>2. PICK s \in Seq(Values) :
          /\ s = Contents(v) /\ Len(s) = n /\ \A k \in 1..n : s[k] = v.cells[k]
    BY <1>1, ContentsIs
  <1>3. w.count = n + 1
    BY <1>1 DEF Inserted
  <1>4. PICK t \in Seq(Values) :
          /\ t = Contents(w) /\ Len(t) = n + 1 /\ \A k \in 1..(n + 1) : t[k] = w.cells[k]
    BY <1>3, ContentsIs
  <1>5. PICK a : a = Append(s, x)
    OBVIOUS
  <1>6. /\ a \in Seq(Values) /\ Len(a) = n + 1
        /\ \A k \in 1..n : a[k] = s[k]
        /\ a[n + 1] = x
    BY <1>2, <1>5, AppendProperties
  <1>7. ASSUME NEW k \in 1..(n + 1) PROVE t[k] = a[k]
    <2>1. w.cells[k] = IF k <= n THEN v.cells[k]
                       ELSE IF k = n + 1 THEN x ELSE v.cells[k - 1]
      BY <1>1, <1>3 DEF Inserted
    <2>2. (k <= n => k \in 1..n) /\ (~(k <= n) => k = n + 1)
      OBVIOUS
    <2>3. QED
      BY <1>2, <1>4, <1>6, <2>1, <2>2
  <1>8. t = a
    BY <1>4, <1>6, <1>7, SeqEqual
  <1>9. QED
    BY <1>2, <1>4, <1>5, <1>8

LEMMA AssignStep ==
    ASSUME VectorsSound, NEW h \in Handles, NEW n \in Counts, NEW x \in Values,
           Assign(h, n, x)
    PROVE  Seen!Assign(h, n, x)
  <1>1. n \in Nat /\ Sound(vec[h])
    BY BoundAssumption DEF Counts, VectorsSound
  <1>2. ASSUME NEW r \in AssignOn(vec[h], n, x)
        PROVE  /\ r.rc = 0 => Contents(r.vec) = [k \in 1..n |-> x]
               /\ r.rc # 0 => Contents(r.vec) = Contents(vec[h])
    <2>1. PICK v, w : v = vec[h] /\ w = r.vec
      OBVIOUS
    <2>2. /\ Sound(v) /\ Sound(w)
          /\ r.rc = 0 => w.count = n /\ \A k \in 1..n : w.cells[k] = x
          /\ r.rc # 0 => Keeps(w, v)
      BY <1>1, <2>1, AssignSound
    <2>3. r.rc = 0 => Contents(w) = [k \in 1..n |-> x]
      <3>1. CASE r.rc = 0
        BY <1>1, <2>2, <3>1, FilledContents
      <3>2. QED
        BY <3>1
    <2>4. r.rc # 0 => Contents(w) = Contents(v)
      BY <2>2, KeepsContents
    <2>5. QED
      BY <2>1, <2>3, <2>4, Zenon
  <1>3. Seen!Tries(h, "Assign", <<h, n, x>>, [k \in 1..n |-> x])
    BY <1>2, TriesStep DEF Assign
  <1>4. QED
    BY <1>3, SeenTries, Zenon

LEMMA ReserveStep ==
    ASSUME VectorsSound, NEW h \in Handles, NEW n \in Counts, ReserveCells(h, n)
    PROVE  Seen!Reserve(h, n)
  <1>1. n \in Nat /\ Sound(vec[h])
    BY BoundAssumption DEF Counts, VectorsSound
  <1>2. ASSUME NEW r \in Reserve(vec[h], n)
        PROVE  Contents(r.vec) = Contents(vec[h])
    BY <1>1, ReserveSound, KeepsContents
  <1>3. PICK s : s = SeqOf(vec)[h] /\ s = Contents(vec[h])
    BY SeqAt
  <1>4. Seen!Tries(h, "Reserve", <<h, n>>, s)
    BY <1>2, <1>3, TriesStep DEF ReserveCells
  <1>5. QED
    BY <1>3, <1>4, SeenTries, Zenon

LEMMA ShrinkToFitStep ==
    ASSUME VectorsSound, NEW h \in Handles, ShrinkToFit(h)
    PROVE  Seen!ShrinkToFit(h)
  <1>1. Sound(vec[h])
    BY DEF VectorsSound
  <1>2. ASSUME NEW r \in ShrinkToFitOn(vec[h])
        PROVE  Contents(r.vec) = Contents(vec[h])
    BY <1>1, ShrinkToFitSound, KeepsContents
  <1>3. PICK s : s = SeqOf(vec)[h] /\ s = Contents(vec[h])
    BY SeqAt
  <1>4. Seen!Tries(h, "ShrinkToFit", <<h>>, s)
    BY <1>2, <1>3, TriesStep DEF ShrinkToFit
  <1>5. QED
    BY <1>3, <1>4, SeenTries, Zenon

LEMMA InsertStep ==
    ASSUME VectorsSound, NEW h \in Handles, NEW index \in Indexes(h), NEW x \in Values,
           Insert(h, index, x)
    PROVE  Seen!Insert(h, index, x)
  <1>1. Sound(vec[h]) /\ vec[h].count \in Nat
    BY SoundParts DEF VectorsSound
  <1>2. index \in Nat
    BY <1>1 DEF Indexes
  <1>3. PICK s : s = SeqOf(vec)[h] /\ s = Contents(vec[h]) /\ Len(s) = vec[h].count
    BY <1>1, SeqAt, ContentsIs
  <1>4. ASSUME NEW r \in InsertOn(vec[h], index, x)
        PROVE  /\ r.rc = 0 => Contents(r.vec) = Seen!Added(s, index, x)
               /\ r.rc # 0 => Contents(r.vec) = s
    <2>1. PICK v, w : v = vec[h] /\ w = r.vec
      OBVIOUS
    <2>2. PICK i \in 0..v.count : i = Smaller(index, v.count)
      BY <1>1, <1>2, <2>1 DEF Smaller
    <2>3. /\ Sound(v) /\ Sound(w)
          /\ r.rc = 0 => Inserted(w, v, i, x)
          /\ r.rc # 0 => Keeps(w, v)
      BY <1>1, <1>2, <2>1, <2>2, InsertSound
    <2>4. i = IF index < Len(s) THEN index ELSE Len(s)
      BY <1>3, <2>1, <2>2 DEF Smaller
    <2>5. Seen!Added(s, index, x) = SubSeq(s, 1, i) \o <<x>> \o SubSeq(s, i + 1, Len(s))
      BY <2>4, Zenon DEF Seen!Added
    <2>6. CASE r.rc = 0
      <3>1. Contents(w) = SubSeq(Contents(v), 1, i) \o <<x>>
                          \o SubSeq(Contents(v), i + 1, Len(Contents(v)))
        BY <2>3, <2>6, InsertedContents, ZenonT(60)
      <3>2. QED
        BY <1>3, <2>1, <2>5, <2>6, <3>1, Zenon
    <2>7. CASE r.rc # 0
      BY <1>3, <2>1, <2>3, <2>7, KeepsContents
    <2>8. QED
      BY <2>6, <2>7
  <1>5. Seen!Tries(h, "Insert", <<h, index, x>>, Seen!Added(s, index, x))
    <2>1. PICK t : t = Seen!Added(s, index, x)
      OBVIOUS
    <2>2. Tries(h, "Insert", <<h, index, x>>, InsertOn(vec[h], index, x))
      BY DEF Insert
    <2>3. Seen!Tries(h, "Insert", <<h, index, x>>, t)
      BY <1>3, <1>4, <2>1, <2>2, TriesStep
    <2>4. QED
      BY <2>1, <2>3, Zenon
  <1>6. QED
    BY <1>3, <1>5, SeenTries, Zenon

LEMMA PushBackStep ==
    ASSUME VectorsSound, NEW h \in Handles, NEW x \in Values, PushBack(h, x)
    PROVE  Seen!PushBack(h, x)
  <1>1. Sound(vec[h])
    BY DEF VectorsSound
  <1>2. PICK s : s = SeqOf(vec)[h] /\ s = Contents(vec[h])
    BY SeqAt
  <1>3. ASSUME NEW r \in PushBackOn(vec[h], x)
        PROVE  /\ r.rc = 0 => Contents(r.vec) = Append(s, x)
               /\ r.rc # 0 => Contents(r.vec) = Contents(vec[h])
    <2>1. PICK v, w : v = vec[h] /\ w = r.vec
      OBVIOUS
    <2>2. /\ Sound(v) /\ Sound(w)
          /\ r.rc = 0 => Inserted(w, v, v.count, x)
          /\ r.rc # 0 => Keeps(w, v)
      BY <1>1, <2>1, PushBackSound
    <2>3. QED
      BY <1>2, <2>1, <2>2, AppendedContents, KeepsContents
  <1>4. Seen!Tries(h, "PushBack", <<h, x>>, Append(s, x))
    BY <1>3, TriesStep DEF PushBack
  <1>5. QED
    BY <1>2, <1>4, SeenTries, Zenon

LEMMA AdjustedStep ==
    ASSUME VectorsSound, NEW h \in Handles, NEW n \in Counts, NEW x \in Values,
           NEW op, NEW args, Tries(h, op, args, ResizeOn(vec[h], n, x))
    PROVE  Seen!Tries(h, op, args, Seen!Adjusted(SeqOf(vec)[h], n, x))
  <1>1. n \in Nat /\ Sound(vec[h])
    BY BoundAssumption DEF Counts, VectorsSound
  <1>2. PICK s : s = SeqOf(vec)[h] /\ s = Contents(vec[h])
    BY SeqAt
  <1>3. PICK t : /\ t = [k \in 1..n |-> IF k <= Len(s) THEN s[k] ELSE x]
                 /\ t = Seen!Adjusted(s, n, x)
    BY Zenon DEF Seen!Adjusted
  <1>4. ASSUME NEW r \in ResizeOn(vec[h], n, x)
        PROVE  /\ r.rc = 0 => Contents(r.vec) = t
               /\ r.rc # 0 => Contents(r.vec) = Contents(vec[h])
    <2>1. PICK v, w : v = vec[h] /\ w = r.vec
      OBVIOUS
    <2>2. /\ Sound(v) /\ Sound(w)
          /\ r.rc = 0 => Adjusted(w, v, n, x)
          /\ r.rc # 0 => Keeps(w, v)
      BY <1>1, <2>1, ResizeSound
    <2>3. r.rc = 0 => Contents(w) =
              [k \in 1..n |-> IF k <= Len(Contents(v)) THEN Contents(v)[k] ELSE x]
      BY <1>1, <2>2, AdjustedContents
    <2>4. s = Contents(v)
      BY <1>2, <2>1
    <2>5. QED
      BY <1>3, <2>1, <2>2, <2>3, <2>4, KeepsContents
  <1>5. Seen!Tries(h, op, args, t)
    BY <1>4, TriesStep
  <1>6. QED
    BY <1>2, <1>3, <1>5, Zenon

LEMMA SetStep ==
    ASSUME VectorsSound, NEW h \in Handles, NEW i \in Indexes(h), NEW x \in Values,
           Set(h, i, x)
    PROVE  Seen!Set(h, i, x)
  <1>1. Sound(vec[h]) /\ vec[h].count \in Nat
    BY SoundParts DEF VectorsSound
  <1>2. PICK v, w : v = vec[h] /\ w = SetOn(v, i, x)
    OBVIOUS
  <1>3. Sound(v) /\ v.count \in Nat /\ i \in Nat
    BY <1>1, <1>2 DEF Indexes
  <1>4. Sound(w) /\ ChangedAt(w, v, i, x)
    BY <1>2, <1>3, SetSound
  <1>5. PICK s : s = SeqOf(vec)[h] /\ s = Contents(v) /\ Len(s) = v.count
    BY <1>2, <1>3, SeqAt, ContentsIs
  <1>6. PICK t : t = IF i < Len(s) THEN [s EXCEPT ![i + 1] = x] ELSE s
    OBVIOUS
  <1>7. Contents(w) = t
    <2>1. CASE i < v.count
      <3>1. PICK j \in 1..v.count : j = i + 1
        BY <1>3, <2>1
      <3>2. ChangedAt(w, v, j - 1, x)
        <4>1. j - 1 = i
          BY <1>3, <3>1
        <4>2. QED
          BY <1>4, <4>1
      <3>3. Contents(w) = [Contents(v) EXCEPT ![j] = x]
        BY <1>3, <1>4, <3>2, ChangedContents
      <3>4. QED
        BY <1>5, <1>6, <2>1, <3>1, <3>3
    <2>2. CASE ~(i < v.count)
      <3>1. \A k \in 1..v.count : k # i + 1
        BY <1>3, <2>2
      <3>2. Keeps(w, v)
        BY <1>4, <3>1 DEF Keeps, ChangedAt
      <3>3. QED
        BY <1>3, <1>4, <1>5, <1>6, <2>2, <3>2, KeepsContents
    <2>3. QED
      BY <2>1, <2>2
  <1>8. Seen!Does(h, "Set", <<h, i, x>>, t)
    BY <1>2, <1>7, DoesStep DEF Set
  <1>9. QED
    BY <1>5, <1>6, <1>8, SeenDoes, Zenon

LEMMA EraseStep ==
    ASSUME VectorsSound, NEW h \in Handles, NEW i \in Indexes(h), Erase(h, i)
    PROVE  Seen!Erase(h, i)
  <1>1. Sound(vec[h]) /\ vec[h].count \in Nat
    BY SoundParts DEF VectorsSound
  <1>2. PICK v, w : v = vec[h] /\ w = EraseOn(v, i)
    OBVIOUS
  <1>3. Sound(v) /\ v.count \in Nat /\ i \in Nat
    BY <1>1, <1>2 DEF Indexes
  <1>4. /\ Sound(w)
        /\ i < v.count => Erased(w, v, i)
        /\ ~(i < v.count) => w = v
    BY <1>2, <1>3, EraseSound
  <1>5. PICK s : s = SeqOf(vec)[h] /\ s = Contents(v) /\ Len(s) = v.count
    BY <1>2, <1>3, SeqAt, ContentsIs
  <1>6. PICK t : t = IF i < Len(s) THEN Seen!Without(s, i) ELSE s
    OBVIOUS
  <1>7. Contents(w) = t
    <2>1. CASE i < v.count
      <3>1. PICK j \in 1..v.count : j = i + 1
        BY <1>3, <2>1
      <3>2. j - 1 = i /\ j + 1 = i + 2
        BY <1>3, <3>1
      <3>3. Erased(w, v, j - 1)
        BY <1>4, <2>1, <3>2
      <3>4. Contents(w) = SubSeq(Contents(v), 1, j - 1)
                          \o SubSeq(Contents(v), j + 1, Len(Contents(v)))
        BY <1>3, <1>4, <3>3, ErasedContents
      <3>5. Contents(w) = SubSeq(s, 1, i) \o SubSeq(s, i + 2, Len(s))
        BY <1>5, <3>2, <3>4, Zenon
      <3>6. t = Seen!Without(s, i)
        BY <1>5, <1>6, <2>1
      <3>7. QED
        BY <3>5, <3>6, Zenon DEF Seen!Without
    <2>2. CASE ~(i < v.count)
      BY <1>4, <1>5, <1>6, <2>2
    <2>3. QED
      BY <2>1, <2>2
  <1>8. Seen!Does(h, "Erase", <<h, i>>, t)
    BY <1>2, <1>7, DoesStep DEF Erase
  <1>9. QED
    BY <1>5, <1>6, <1>8, SeenDoes, Zenon

LEMMA EmptiedContents ==
    ASSUME NEW w, Sound(w), w.count = 0
    PROVE  Contents(w) = <<>>
  <1>1. Contents(w) \in Seq(Values) /\ Len(Contents(w)) = 0
    BY ContentsIs
  <1>2. QED
    BY <1>1, EmptySeq

LEMMA ClearStep ==
    ASSUME VectorsSound, NEW h \in Handles, Clear(h)
    PROVE  Seen!Clear(h)
  <1>1. Sound(vec[h]) /\ vec[h].count \in Nat
    BY SoundParts DEF VectorsSound
  <1>2. PICK w : w = [vec[h] EXCEPT !.count = 0]
    OBVIOUS
  <1>3. Sound(w) /\ w.count = 0
    <2>1. 0 \in 0..vec[h].count
      BY <1>1
    <2>2. QED
      BY <1>1, <1>2, <2>1, FewerSound
  <1>4. Seen!Does(h, "Clear", <<h>>, <<>>)
    BY <1>2, <1>3, EmptiedContents, DoesStep DEF Clear
  <1>5. QED
    BY <1>4, SeenDoes, Zenon

LEMMA DestroyStep ==
    ASSUME VectorsSound, NEW h \in Handles, Destroy(h)
    PROVE  Seen!Destroy(h)
  <1>1. /\ Called("Destroy", <<h>>, {})
        /\ vec' = [vec EXCEPT ![h] = NewVector]
        /\ out' = out
    BY DEF Destroy
  <1>2. SeqOf(vec') = [SeqOf(vec) EXCEPT ![h] = <<>>]
    BY <1>1, NewSound, EmptiedContents, OneSeen
  <1>3. Seen!Does(h, "Destroy", <<h>>, <<>>)
    BY <1>1, <1>2, SeenForms, Zenon
  <1>4. QED
    BY <1>3, SeenDoes, Zenon

LEMMA SortStep ==
    ASSUME VectorsSound, NEW h \in Handles, Sort(h)
    PROVE  Seen!Sort(h)
  <1>1. PICK w \in SortOn(vec[h]) : Does(h, "Sort", <<h>>, w)
    BY DEF Sort
  <1>2. Sound(vec[h])
    BY DEF VectorsSound
  <1>3. PICK n \in Nat : n = vec[h].count
    BY <1>2, SoundParts
  <1>4. PICK s : s = SeqOf(vec)[h] /\ s = Contents(vec[h]) /\ s \in [1..n -> Values]
    BY <1>2, <1>3, SeqAt, ContentsIs
  <1>5. PICK t \in InOrder(s) : /\ t \in [1..n -> Values]
                                /\ \A k \in 1..n : w.cells[k] = t[k]
    BY <1>2, <1>3, <1>4, SortSound
  <1>6. Sound(w) /\ w.count = n
    BY <1>2, <1>3, SortSound
  <1>7. Holds(w, t, n)
    BY <1>5, <1>6 DEF Holds
  <1>8. Contents(w) = t
    BY <1>6, <1>7, SameContents
  <1>9. Seen!Does(h, "Sort", <<h>>, t)
    BY <1>1, <1>8, DoesStep
  <1>10. \A u, x : HowMany(u, x) = Seen!Cardinality(Seen!Places(u, x))
    <2>1. \A A : Seen!Cardinality(A) = Cardinality(A)
      BY Zenon DEF Seen!Cardinality, Cardinality
    <2>2. QED
      BY <2>1, Zenon DEF HowMany, Seen!Places
  <1>11. t \in Seen!Reorderings(s) /\ Seen!Sorted(t)
    <2>1. /\ DOMAIN s = 1..n /\ DOMAIN t = 1..n
          /\ \A i, j \in 1..n : i < j => t[i] <= t[j]
          /\ \A x \in Values : HowMany(t, x) = HowMany(s, x)
      BY <1>4, <1>5 DEF InOrder
    <2>2. QED
      BY <1>5, <1>10, <2>1 DEF Seen!Reorderings, Seen!Sorted
  <1>12. QED
    BY <1>4, <1>9, <1>11, SeenDoes, Zenon

\* What a read of one element returns.
LEMMA ElementsSeen ==
    ASSUME NEW v, Sound(v)
    PROVE  /\ \A i \in Nat : ElementAt(v, i) = Seen!ElementOrNone(Contents(v), i + 1)
           /\ LastElement(v) = Seen!ElementOrNone(Contents(v), Len(Contents(v)))
  <1>1. PICK n \in Nat : n = v.count
    BY SoundParts
  <1>2. PICK s : /\ s = Contents(v) /\ Len(s) = n /\ DOMAIN s = 1..n
                 /\ \A k \in 1..n : s[k] = v.cells[k]
    BY <1>1, ContentsIs
  <1>3. ASSUME NEW i \in Nat PROVE ElementAt(v, i) = Seen!ElementOrNone(s, i + 1)
    <2>1. i < n <=> i + 1 \in 1..n
      OBVIOUS
    <2>2. QED
      BY <1>1, <1>2, <2>1 DEF ElementAt, Seen!ElementOrNone
  <1>4. LastElement(v) = Seen!ElementOrNone(s, Len(s))
    <2>1. n > 0 <=> n \in 1..n
      OBVIOUS
    <2>2. QED
      BY <1>1, <1>2, <2>1 DEF LastElement, Seen!ElementOrNone
  <1>5. QED
    BY <1>2, <1>3, <1>4, Zenon

LEMMA PopStep ==
    ASSUME VectorsSound, NEW h \in Handles, PopBack(h)
    PROVE  Seen!PopBack(h)
  <1>1. Sound(vec[h])
    BY DEF VectorsSound
  <1>2. PICK v, w : v = vec[h] /\ w = PopBackOn(v)
    OBVIOUS
  <1>3. /\ Called("PopBack", <<h>>, {})
        /\ vec' = [vec EXCEPT ![h] = w] /\ out' = LastElement(v)
    BY <1>2 DEF PopBack, Becomes
  <1>4. /\ Sound(v) /\ Sound(w)
        /\ w.count = (IF v.count > 0 THEN v.count - 1 ELSE 0) /\ w.cells = v.cells
    BY <1>1, <1>2, PopBackSound
  <1>5. PICK s : s = SeqOf(vec)[h] /\ s = Contents(v)
    BY <1>2, SeqAt
  <1>6. Contents(w) = SubSeq(s, 1, Len(s) - 1)
    <2>1. Contents(w) = SubSeq(Contents(v), 1, Len(Contents(v)) - 1)
      BY <1>4, FewerContents
    <2>2. QED
      BY <1>5, <2>1, Zenon
  <1>7. SeqOf(vec') = [SeqOf(vec) EXCEPT ![h] = SubSeq(@, 1, Len(@) - 1)]
    <2>1. SeqOf(vec') = [SeqOf(vec) EXCEPT ![h] = Contents(w)]
      BY <1>3, OneSeen
    <2>2. Contents(w) = SubSeq(SeqOf(vec)[h], 1, Len(SeqOf(vec)[h]) - 1)
      BY <1>5, <1>6, Zenon
    <2>3. QED
      BY <2>1, <2>2, Zenon
  <1>8. out' = Seen!ElementOrNone(SeqOf(vec)[h], Len(SeqOf(vec)[h]))
    <2>1. LastElement(v) = Seen!ElementOrNone(Contents(v), Len(Contents(v)))
      BY <1>4, ElementsSeen
    <2>2. QED
      BY <1>3, <1>5, <2>1, Zenon
  <1>9. QED
    BY <1>3, <1>7, <1>8, SeenDoes, Zenon

LEMMA SwapStep ==
    ASSUME VectorsSound, NEW h \in Handles, NEW other \in Handles, Swap(h, other)
    PROVE  Seen!Swap(h, other)
  <1>1. /\ Called("Swap", <<h, other>>, {})
        /\ vec' = [vec EXCEPT ![h] = vec[other], ![other] = vec[h]] /\ out' = out
    BY DEF Swap
  <1>2. \A g \in Handles : vec'[g] = IF g = other THEN vec[h]
                                     ELSE IF g = h THEN vec[other] ELSE vec[g]
    BY <1>1 DEF VectorsSound
  <1>3. PICK s, t : /\ s = SeqOf(vec) /\ t = SeqOf(vec')
                    /\ t = [s EXCEPT ![h] = s[other], ![other] = s[h]]
    <2>1. PICK s, t : s = SeqOf(vec) /\ t = SeqOf(vec')
      OBVIOUS
    <2>2. /\ DOMAIN s = Handles /\ DOMAIN t = Handles
          /\ s = [g \in Handles |-> s[g]] /\ t = [g \in Handles |-> t[g]]
      BY <2>1 DEF SeqOf
    <2>3. \A g \in Handles : t[g] = IF g = other THEN s[h]
                                    ELSE IF g = h THEN s[other] ELSE s[g]
      BY <1>2, <2>1 DEF SeqOf
    <2>4. t = [s EXCEPT ![h] = s[other], ![other] = s[h]]
      BY <2>2, <2>3
    <2>5. QED
      BY <2>1, <2>4
  <1>4. QED
    BY <1>1, <1>3, SeenDoes, Zenon

\* A call that only reads.
LEMMA AnswersStep ==
    ASSUME NEW op, NEW args, NEW x, Answers(op, args, x)
    PROVE  Seen!Answers(op, args, x)
  <1>1. Called(op, args, {}) /\ out' = x /\ vec' = vec
    BY DEF Answers
  <1>2. SeqOf(vec') = SeqOf(vec)
    BY <1>1
  <1>3. QED
    BY <1>1, <1>2, SeenForms, Zenon

LEMMA ElementStep ==
    ASSUME VectorsSound, NEW h \in Handles
    PROVE  /\ \A i \in Indexes(h) : At(h, i) => Seen!At(h, i)
           /\ Front(h) => Seen!Front(h)
           /\ Back(h) => Seen!Back(h)
           /\ Size(h) => Seen!Size(h)
  <1>1. PICK v : v = vec[h] /\ Sound(v)
    BY DEF VectorsSound
  <1>2. PICK n \in Nat : n = v.count
    BY <1>1, SoundParts
  <1>3. PICK s : s = SeqOf(vec)[h] /\ s = Contents(v) /\ Len(s) = n
    BY <1>1, <1>2, SeqAt, ContentsIs
  <1>4. /\ \A i \in Nat : ElementAt(v, i) = Seen!ElementOrNone(s, i + 1)
        /\ LastElement(v) = Seen!ElementOrNone(s, Len(s))
    BY <1>1, <1>3, ElementsSeen
  <1>5. ASSUME NEW i \in Indexes(h), At(h, i) PROVE Seen!At(h, i)
    <2>1. i \in Nat
      BY <1>1, <1>2 DEF Indexes
    <2>2. PICK x : x = ElementAt(v, i) /\ x = Seen!ElementOrNone(s, i + 1)
      BY <1>4, <2>1
    <2>3. Answers("At", <<h, i>>, x)
      BY <1>1, <1>5, <2>2 DEF At
    <2>4. Seen!Answers("At", <<h, i>>, x)
      BY <2>3, AnswersStep
    <2>5. QED
      BY <1>3, <2>2, <2>4, SeenReads, Zenon
  <1>6. ASSUME Front(h) PROVE Seen!Front(h)
    <2>1. PICK x : x = ElementAt(v, 0) /\ x = Seen!ElementOrNone(s, 1)
      <3>1. 0 \in Nat /\ 0 + 1 = 1
        OBVIOUS
      <3>2. ElementAt(v, 0) = Seen!ElementOrNone(s, 1)
        BY <1>4, <3>1
      <3>3. QED
        BY <3>2
    <2>2. Answers("Front", <<h>>, x)
      BY <1>1, <1>6, <2>1 DEF Front
    <2>3. Seen!Answers("Front", <<h>>, x)
      BY <2>2, AnswersStep
    <2>4. QED
      BY <1>3, <2>1, <2>3, SeenReads, Zenon
  <1>7. ASSUME Back(h) PROVE Seen!Back(h)
    <2>1. PICK x : x = LastElement(v) /\ x = Seen!ElementOrNone(s, Len(s))
      BY <1>4
    <2>2. Answers("Back", <<h>>, x)
      BY <1>1, <1>7, <2>1 DEF Back
    <2>3. Seen!Answers("Back", <<h>>, x)
      BY <2>2, AnswersStep
    <2>4. QED
      BY <1>3, <2>1, <2>3, SeenReads, Zenon
  <1>8. ASSUME Size(h) PROVE Seen!Size(h)
    <2>1. Answers("Size", <<h>>, n)
      BY <1>1, <1>2, <1>8 DEF Size
    <2>2. Seen!Answers("Size", <<h>>, n)
      BY <2>1, AnswersStep
    <2>3. QED
      BY <1>3, <2>2, SeenReads, Zenon
  <1>9. QED
    BY <1>5, <1>6, <1>7, <1>8, Zenon

\* The places of x in the sequence of a vector.
LEMMA PlacesSeen ==
    ASSUME NEW v, Sound(v), NEW x, NEW k
    PROVE  k \in Seen!Places(Contents(v), x) <=> k \in 1..v.count /\ v.cells[k] = x
  <1>1. PICK s : /\ s = Contents(v) /\ DOMAIN s = 1..v.count
                 /\ \A j \in 1..v.count : s[j] = v.cells[j]
    BY ContentsIs
  <1>2. k \in Seen!Places(s, x) <=> k \in 1..v.count /\ v.cells[k] = x
    BY <1>1 DEF Seen!Places
  <1>3. QED
    BY <1>1, <1>2, Zenon

LEMMA LinearSearchStep ==
    ASSUME VectorsSound, NEW h \in Handles, NEW x \in Values, LinearSearch(h, x)
    PROVE  Seen!LinearSearch(h, x)
  <1>1. PICK v : v = vec[h] /\ Sound(v)
    BY DEF VectorsSound
  <1>2. PICK n \in Nat : n = v.count
    BY <1>1, SoundParts
  <1>3. PICK s : /\ s = SeqOf(vec)[h]
                 /\ \A k : k \in Seen!Places(s, x) <=> k \in 1..n /\ v.cells[k] = x
    BY <1>1, <1>2, SeqAt, PlacesSeen
  <1>4. PICK y : y = FindOn(v, x) /\ FirstFrom(v, x, 0, y)
    BY <1>1, FindIs
  <1>5. Seen!Answers("LinearSearch", <<h, x>>, y)
    <2>1. Answers("LinearSearch", <<h, x>>, y)
      BY <1>1, <1>4 DEF LinearSearch
    <2>2. QED
      BY <2>1, AnswersStep
  <1>6. CASE y = -1 /\ \A k \in 1..n : v.cells[k] # x
    <2>1. Seen!Places(s, x) = {}
      BY <1>3, <1>6
    <2>2. QED
      BY <1>3, <1>5, <1>6, <2>1, SeenReads, Zenon
  <1>7. CASE y \in 0..(n - 1) /\ v.cells[y + 1] = x /\ \A k \in 1..y : v.cells[k] # x
    <2>1. PICK i \in 1..n : i = y + 1 /\ i - 1 = y
      BY <1>7
    <2>2. i \in Seen!Places(s, x)
      BY <1>3, <1>7, <2>1
    <2>3. ASSUME NEW j \in Seen!Places(s, x) PROVE i <= j
      <3>1. j \in 1..n /\ v.cells[j] = x
        BY <1>3, <2>3
      <3>2. j \notin 1..y
        BY <1>7, <3>1
      <3>3. QED
        BY <1>7, <2>1, <3>1, <3>2
    <2>4. Seen!Answers("LinearSearch", <<h, x>>, i - 1)
      BY <1>5, <2>1, Zenon
    <2>5. QED
      BY <1>3, <2>2, <2>3, <2>4, SeenReads, Zenon
  <1>8. QED
    BY <1>2, <1>4, <1>6, <1>7 DEF FirstFrom

LEMMA BinarySearchStep ==
    ASSUME VectorsSound, NEW h \in Handles, NEW x \in Values, BinarySearch(h, x)
    PROVE  Seen!BinarySearch(h, x)
  <1>1. PICK v : v = vec[h] /\ Sound(v)
    BY DEF VectorsSound
  <1>2. PICK n \in Nat : n = v.count
    BY <1>1, SoundParts
  <1>3. PICK s : /\ s = SeqOf(vec)[h] /\ DOMAIN s = 1..n
                 /\ \A k \in 1..n : s[k] = v.cells[k]
                 /\ \A k : k \in Seen!Places(s, x) <=> k \in 1..n /\ v.cells[k] = x
    BY <1>1, <1>2, SeqAt, PlacesSeen, ContentsIs
  <1>4. PICK y : y = BinarySearchOn(v, x) /\ FoundIn(v, x, 0, v.count, y)
    BY <1>1, BinarySearchIs
  <1>5. Seen!Answers("BinarySearch", <<h, x>>, y)
    <2>1. Answers("BinarySearch", <<h, x>>, y)
      BY <1>1, <1>4 DEF BinarySearch
    <2>2. QED
      BY <2>1, AnswersStep
  <1>6. CASE y \in 0..(n - 1) /\ v.cells[y + 1] = x
    <2>1. PICK i \in 1..n : i = y + 1 /\ i - 1 = y
      BY <1>6
    <2>2. i \in Seen!Places(s, x)
      BY <1>3, <1>6, <2>1
    <2>3. Seen!Answers("BinarySearch", <<h, x>>, i - 1)
      BY <1>5, <2>1, Zenon
    <2>4. QED
      BY <1>3, <2>2, <2>3, SeenReads, Zenon
  <1>7. CASE /\ y = -1
             /\ (\A i, j \in 1..n : i < j => v.cells[i] <= v.cells[j])
                   => \A k \in 1..n : v.cells[k] # x
    <2>1. Seen!Sorted(s) => \A i, j \in 1..n : i < j => v.cells[i] <= v.cells[j]
      BY <1>3 DEF Seen!Sorted
    <2>2. Seen!Sorted(s) => Seen!Places(s, x) = {}
      BY <1>3, <1>7, <2>1
    <2>3. QED
      BY <1>3, <1>5, <1>7, <2>2, SeenReads, Zenon
  <1>8. QED
    BY <1>2, <1>4, <1>6, <1>7 DEF FoundIn

\* A call of one object is the call of the same name and arguments there.
LEMMA ImplementsStep ==
    ASSUME VectorsSound, [Next]_vars
    PROVE  [Seen!Next]_(Seen!vars)
  <1>1. CASE UNCHANGED vars
    <2>1. vec' = vec /\ out' = out /\ call' = call
      BY <1>1 DEF vars
    <2>2. QED
      BY <2>1, Zenon DEF Seen!vars
  <1>2. CASE Next
    <2>1. PICK h \in Handles :
              \/ \E n \in Counts, x \in Values : Assign(h, n, x)
              \/ \E i \in Indexes(h), x \in Values : Set(h, i, x)
              \/ \E n \in Counts : ReserveCells(h, n)
              \/ ShrinkToFit(h)
              \/ Clear(h)
              \/ \E i \in Indexes(h), x \in Values : Insert(h, i, x)
              \/ \E i \in Indexes(h) : Erase(h, i)
              \/ \E x \in Values : PushBack(h, x)
              \/ PopBack(h)
              \/ \E n \in Counts : Resize(h, n)
              \/ \E n \in Counts, x \in Values : ResizeFill(h, n, x)
              \/ Sort(h)
              \/ Destroy(h)
              \/ \E i \in Indexes(h) : At(h, i)
              \/ Front(h) \/ Back(h) \/ Size(h)
              \/ \E x \in Values : LinearSearch(h, x)
              \/ \E x \in Values : BinarySearch(h, x)
              \/ \E other \in Handles : Swap(h, other)
      BY <1>2, CallsOf, Zenon
    <2>2. /\ \A n \in Counts, x \in Values : Assign(h, n, x) => Seen!Assign(h, n, x)
          /\ \A i \in Indexes(h), x \in Values : Set(h, i, x) => Seen!Set(h, i, x)
          /\ \A n \in Counts : ReserveCells(h, n) => Seen!Reserve(h, n)
          /\ \A i \in Indexes(h), x \in Values : Insert(h, i, x) => Seen!Insert(h, i, x)
          /\ \A i \in Indexes(h) : Erase(h, i) => Seen!Erase(h, i)
          /\ \A x \in Values : PushBack(h, x) => Seen!PushBack(h, x)
      BY AssignStep, SetStep, ReserveStep, InsertStep, EraseStep, PushBackStep, Zenon
    <2>3. /\ \A n \in Counts : Resize(h, n) => Seen!Resize(h, n)
          /\ \A n \in Counts, x \in Values : ResizeFill(h, n, x) => Seen!ResizeFill(h, n, x)
      <3>1. ASSUME NEW n \in Counts, Resize(h, n) PROVE Seen!Resize(h, n)
        BY <3>1, AdjustedStep, SeenTries, Zenon DEF Resize
      <3>2. ASSUME NEW n \in Counts, NEW x \in Values, ResizeFill(h, n, x)
            PROVE  Seen!ResizeFill(h, n, x)
        BY <3>2, AdjustedStep, SeenTries, Zenon DEF ResizeFill
      <3>3. QED
        BY <3>1, <3>2
    <2>4. /\ ShrinkToFit(h) => Seen!ShrinkToFit(h)
          /\ Clear(h) => Seen!Clear(h)
          /\ PopBack(h) => Seen!PopBack(h)
          /\ Sort(h) => Seen!Sort(h)
          /\ Destroy(h) => Seen!Destroy(h)
          /\ \A other \in Handles : Swap(h, other) => Seen!Swap(h, other)
      BY ShrinkToFitStep, ClearStep, PopStep, SortStep, DestroyStep, SwapStep, Zenon
    <2>5. /\ \A i \in Indexes(h) : At(h, i) => Seen!At(h, i)
          /\ Front(h) => Seen!Front(h)
          /\ Back(h) => Seen!Back(h)
          /\ Size(h) => Seen!Size(h)
          /\ \A x \in Values : LinearSearch(h, x) => Seen!LinearSearch(h, x)
          /\ \A x \in Values : BinarySearch(h, x) => Seen!BinarySearch(h, x)
      BY ElementStep, LinearSearchStep, BinarySearchStep, Zenon
    <2>6. \/ \E n \in Counts, x \in Values : Seen!Assign(h, n, x) \/ Seen!ResizeFill(h, n, x)
          \/ \E n \in Counts : Seen!Reserve(h, n) \/ Seen!Resize(h, n)
          \/ \E i \in Indexes(h), x \in Values : Seen!Set(h, i, x) \/ Seen!Insert(h, i, x)
          \/ \E i \in Indexes(h) : Seen!Erase(h, i) \/ Seen!At(h, i)
          \/ \E x \in Values : \/ Seen!PushBack(h, x) \/ Seen!LinearSearch(h, x)
                               \/ Seen!BinarySearch(h, x)
          \/ \E other \in Handles : Seen!Swap(h, other)
          \/ Seen!ShrinkToFit(h) \/ Seen!Clear(h) \/ Seen!PopBack(h) \/ Seen!Sort(h)
          \/ Seen!Destroy(h) \/ Seen!Front(h) \/ Seen!Back(h) \/ Seen!Size(h)
      BY <2>1, <2>2, <2>3, <2>4, <2>5, Zenon
    <2>7. Indexes(h) = 0..Len(SeqOf(vec)[h]) + 1
      BY SameIndexes
    <2>8. Seen!Next
      BY <2>6, <2>7, Zenon DEF Seen!Next, SeqOf
    <2>9. QED
      BY <2>8
  <1>3. QED
    BY <1>1, <1>2

\* Vector, List and Dlist implement sequences: every call is that of the same
\* name and arguments of AbstractSequence.  It changes the elements as the name
\* says and answers what they have, the first place of a linear search and any
\* place of a binary one; it does nothing only when realloc refused it room,
\* and no call on one object changes another (runtime.c, AnyVector).
THEOREM VectorsImplementSequences == Spec => ImplementsSequence
  <1>1. Init => Seen!Init
    <2>1. Contents(NewVector) = <<>>
      BY NewSound, EmptiedContents
    <2>2. Init => SeqOf(vec) = [h \in Handles |-> <<>>]
      BY <2>1 DEF Init, SeqOf
    <2>3. QED
      BY <2>2, Zenon DEF Init, Seen!Init, SeqOf, NoCall, Seen!NoCall
  <1>2. Init => VectorsSound
    BY NewSound DEF Init, VectorsSound, Sound
  <1>3. VectorsSound /\ [Next]_vars => VectorsSound'
    BY VectorStep
  <1>4. VectorsSound /\ [Next]_vars => [Seen!Next]_(Seen!vars)
    BY ImplementsStep
  <1>5. QED
    BY <1>1, <1>2, <1>3, <1>4, PTL DEF Spec, ImplementsSequence, Seen!Spec

-----------------------------------------------------------------------------
(* The three side by side.                                                 *)
P == INSTANCE MapProofs WITH
        Values <- Values \intersect {0, 1}, FirstCap <- 1,
        made <- mapMade, out <- mapOut, call <- mapCall

\* AnyMap as MCContainers has it, and as MapProofs has it.
LEMMA SameSteps == M!Next => P!Next
  <1> USE DEF M!Null, P!Null, M!InUse, P!InUse, M!Allocated, P!Allocated,
              M!Running, P!Running, M!Undefined, P!Undefined, M!Answers,
              P!Answers, M!Called, P!Called, M!CallAfter, P!CallAfter,
              M!Nothing, P!Nothing, M!Becomes, P!Becomes, M!MayFree, P!MayFree,
              M!Freed, P!Freed, M!BlocksOf, P!BlocksOf, M!HasKey, P!HasKey,
              M!Matches, P!Matches, M!First, P!First, M!Compared, P!Compared,
              M!Readable, P!Readable, M!Searches, P!Searches
  <1>1. \A h, n : M!Reserve(h, n) => P!Reserve(h, n)
    BY DEF M!Reserve, P!Reserve
  <1>2. \A h, m, k, x : M!Store(h, m, k, x) => P!Store(h, m, k, x)
    BY ZenonT(60) DEF M!Store, P!Store, M!Malloc, P!Malloc, M!Filled, P!Filled, M!Denied, P!Denied
  <1>3. \A h, k, x : M!Put(h, k, x) => P!Put(h, k, x)
    <2>1. \A h, k, x : M!Add(h, k, x) => P!Add(h, k, x)
      BY <1>2, SMTT(30) DEF M!Add, P!Add
    <2>2. \A h, k, x : M!Overwrite(h, k, x) => P!Overwrite(h, k, x)
      BY ZenonT(60) DEF M!Overwrite, P!Overwrite, M!Filled, P!Filled
    <2>3. /\ M!Undefined => P!Undefined
          /\ \A h : M!Running(h) => P!Running(h)
      OBVIOUS
    <2>4. \A m, k : /\ M!Searches(m, k) <=> P!Searches(m, k)
                    /\ M!Matches(m, k) = P!Matches(m, k)
      OBVIOUS
    <2> HIDE DEF M!Undefined, P!Undefined, M!Searches, P!Searches, M!Matches,
                 P!Matches, M!Running, P!Running
    <2>5. QED
      BY <2>1, <2>2, <2>3, <2>4, Zenon DEF M!Put, P!Put
  <1>4. \A h, k : M!Erase(h, k) => P!Erase(h, k)
    <2>1. \A h, k : M!EraseFirst(h, k) => P!EraseFirst(h, k)
      <3>1. \A op, args, denied :
               M!Called(op, args, denied) => P!Called(op, args, denied)
        OBVIOUS
      <3>2. M!Undefined => P!Undefined
        OBVIOUS
      <3>3. \A h, m : M!Becomes(h, m) => P!Becomes(h, m)
        OBVIOUS
      <3>4. \A m, w : /\ M!MayFree(m, w) <=> P!MayFree(m, w)
                      /\ M!BlocksOf(m, w) = P!BlocksOf(m, w)
        OBVIOUS
      <3>5. \A hp, w : M!Freed(hp, w) = P!Freed(hp, w)
        OBVIOUS
      <3>6. \A m, k : M!First(M!Matches(m, k)) = P!First(P!Matches(m, k))
        OBVIOUS
      <3> HIDE DEF M!Called, P!Called, M!Undefined, P!Undefined, M!Becomes, P!Becomes,
                   M!MayFree, P!MayFree, M!BlocksOf, P!BlocksOf, M!Freed, P!Freed,
                   M!First, P!First, M!Matches, P!Matches
      <3>7. QED
        BY <3>1, <3>2, <3>3, <3>4, <3>5, <3>6, Zenon DEF M!EraseFirst, P!EraseFirst
    <2>2. /\ M!Undefined => P!Undefined
          /\ \A h : M!Running(h) => P!Running(h)
          /\ \A op, args, denied :
                M!Nothing(op, args, denied) => P!Nothing(op, args, denied)
      OBVIOUS
    <2>3. \A m, k : /\ M!Searches(m, k) <=> P!Searches(m, k)
                    /\ M!Matches(m, k) = P!Matches(m, k)
      OBVIOUS
    <2> HIDE DEF M!Undefined, P!Undefined, M!Searches, P!Searches, M!Matches,
                 P!Matches, M!Running, P!Running, M!Nothing, P!Nothing
    <2>4. QED
      BY <2>1, <2>2, <2>3, Zenon DEF M!Erase, P!Erase
  <1>5. \A h : M!Clear(h) => P!Clear(h)
    BY DEF M!Clear, P!Clear, M!FreeAll, P!FreeAll
  <1>6. \A h : M!Destroy(h) => P!Destroy(h)
    BY DEF M!Destroy, P!Destroy, M!FreeAll, P!FreeAll, M!NewMap, P!NewMap
  <1>7. \A h, k, x : M!Get(h, k, x) => P!Get(h, k, x)
    BY ZenonT(60) DEF M!Get, P!Get, M!ValueOf, P!ValueOf
  <1>8. \A h, k : M!Contains(h, k) => P!Contains(h, k)
    BY DEF M!Contains, P!Contains
  <1>9. \A h, k : M!Count(h, k) => P!Count(h, k)
    BY DEF M!Count, P!Count, M!Cardinality, P!Cardinality
  <1>10. \A h : M!Size(h) => P!Size(h)
    BY DEF M!Size, P!Size
  <1>11. \A h, other : M!Swap(h, other) => P!Swap(h, other)
    BY DEF M!Swap, P!Swap
  <1>12. M!Counts = P!Counts
    BY DEF M!Counts, P!Counts
  <1>13. QED
    BY <1>1, <1>3, <1>4, <1>5, <1>6, <1>7, <1>8, <1>9, <1>10, <1>11, <1>12, Zenon
       DEF M!Next, P!Next

\* The steps of the other containers leave the maps alone.
LEMMA MapsBehave == MCSpec => P!Spec
  <1>1. MCInit => P!Init
    BY DEF MCInit, M!Init, P!Init, M!NewMap, P!NewMap, M!NoCall, P!NoCall
  <1>2. [MCNext]_<<which, vars, treeVars, mapVars>> => [P!Next]_(P!vars)
    <2>1. MCNext => P!Next \/ UNCHANGED mapVars
      BY SameSteps DEF MCNext
    <2>2. UNCHANGED mapVars => UNCHANGED (P!vars)
      BY DEF mapVars, P!vars
    <2>3. QED
      BY <2>1, <2>2
  <1>3. QED
    BY <1>1, <1>2, PTL DEF MCSpec, P!Spec

LEMMA SameAssumption == P!MapAssumption
  BY MapConstants DEF M!MapAssumption, P!MapAssumption, M!Null, P!Null

-----------------------------------------------------------------------------
(* In a program with vectors and a tree besides, each block in use of the  *)
(* maps' heap has one owner.                                               *)
THEOREM OneOwnerInAll == MCSpec => []OneOwner
  <1>1. P!OneOwner => OneOwner
    BY DEF OneOwner, M!OneOwner, P!OneOwner, M!Owned, P!Owned,
           M!BlocksOf, P!BlocksOf, M!MayFree, P!MayFree, M!Allocated, P!Allocated,
           M!InUse, P!InUse, M!Null, P!Null
  <1>2. QED
    BY <1>1, SameAssumption, MapsBehave, P!OneOwnerAlways, PTL

(* There too, a map's method reads or frees no NULL or free block before a *)
(* put was refused the memory for the copy of a key.                       *)
THEOREM UndefinedOnlyForALostKeyInAll == MCSpec => []UndefinedOnlyForALostKey
  <1>1. P!UndefinedOnlyForALostKey => UndefinedOnlyForALostKey
    BY DEF UndefinedOnlyForALostKey, M!UndefinedOnlyForALostKey,
           P!UndefinedOnlyForALostKey
  <1>2. QED
    BY <1>1, SameAssumption, MapsBehave, P!UndefinedOnlyForALostKeyAlways, PTL

(* There too, a block is lost only by a put that found memory for the key  *)
(* and none for the value.                                                 *)
THEOREM LeaksOnlyForALostValueInAll == MCSpec => []LeaksOnlyForALostValue
  <1>1. P!LeaksOnlyForALostValue => LeaksOnlyForALostValue
    BY DEF LeaksOnlyForALostValue, M!LeaksOnlyForALostValue, P!LeaksOnlyForALostValue,
           M!Owned, P!Owned, M!BlocksOf, P!BlocksOf, M!Allocated, P!Allocated,
           M!InUse, P!InUse, M!Null, P!Null
  <1>2. QED
    BY <1>1, SameAssumption, MapsBehave, P!LeaksOnlyForALostValueAlways, PTL
-----------------------------------------------------------------------------
(* The tree.                                                               *)

\* The values of a vector; in order, some of them several times; each once.
Elements(v) == {v.cells[i] : i \in 1..v.count}

Ordered(v) == \A i, j \in 1..v.count : i < j => v.cells[i] <= v.cells[j]

Increasing(v) == \A i, j \in 1..v.count : i < j => v.cells[i] < v.cells[j]

\* The functions of the vector as the tree has them, and as AnyVector does.
LEMMA SameFunctions ==
    /\ \A v, x : T!PushBackOn(v, x) = PushBackOn(v, x)
    /\ \A v : T!SortOn(v) = SortOn(v)
    /\ \A v, i : T!EraseOn(v, i) = EraseOn(v, i)
    /\ \A v, x : T!BinarySearchOn(v, x) = BinarySearchOn(v, x)
    /\ \A v, i : T!ElementAt(v, i) = ElementAt(v, i)
    /\ \A v : T!LastElement(v) = LastElement(v)
    /\ T!NewVector = NewVector /\ T!Vectors = Vectors
    /\ \A v : T!Cap(v) = Cap(v)
  <1>1. \A v, x : T!PushBackOn(v, x) = PushBackOn(v, x)
    BY Zenon DEF T!PushBackOn, PushBackOn, T!MakeRoom, MakeRoom, T!Reserve, Reserve,
       T!Realloc, Realloc, T!Store, Store, T!Ok, Ok, T!Failed, Failed, T!Cap, Cap
  <1>2. \A v : T!SortOn(v) = SortOn(v)
    <2>1. \A S : T!Cardinality(S) = Cardinality(S)
      BY Zenon DEF T!Cardinality, Cardinality
    <2>2. \A s, x : T!HowMany(s, x) = HowMany(s, x)
      BY <2>1, Zenon DEF T!HowMany, HowMany
    <2>3. \A s : T!InOrder(s) = InOrder(s)
      BY <2>2 DEF T!InOrder, InOrder
    <2>4. QED
      BY <2>3, Zenon DEF T!SortOn, SortOn, T!Contents, Contents
  <1>3. \A v, i : T!EraseOn(v, i) = EraseOn(v, i)
    BY Zenon DEF T!EraseOn, EraseOn, T!Move, Move, T!Cap, Cap
  <1>4. \A v, x : T!BinarySearchOn(v, x) = BinarySearchOn(v, x)
    BY Zenon DEF T!BinarySearchOn, BinarySearchOn
  <1>5. /\ \A v, i : T!ElementAt(v, i) = ElementAt(v, i)
        /\ \A v : T!LastElement(v) = LastElement(v)
        /\ T!NewVector = NewVector /\ T!Vectors = Vectors
        /\ \A v : T!Cap(v) = Cap(v)
    BY Zenon DEF T!ElementAt, ElementAt, T!LastElement, LastElement, T!NewVector,
       NewVector, T!Vectors, Vectors, T!Cap, Cap
  <1>6. QED
    BY <1>1, <1>2, <1>3, <1>4, <1>5

\* The state k of unique after cell i was read.
KeepNext(k, i) ==
    IF k.w = 0 \/ k.cells[i] # k.cells[k.w]
    THEN [cells |-> [k.cells EXCEPT ![k.w + 1] = k.cells[i]], w |-> k.w + 1]
    ELSE k

\* f[i] is the state after i cells, up to n of them.
KeptBy(f, v, n) ==
    \A i \in 0..n :
        f[i] = IF i = 0 THEN [cells |-> v.cells, w |-> 0] ELSE KeepNext(f[i - 1], i)

\* unique is the function its equation describes.
LEMMA UniqueUnfolds ==
    ASSUME NEW v, v.count \in Nat
    PROVE  \E f : /\ KeptBy(f, v, v.count)
                  /\ T!Unique(v) = Rebuilt(v, f[v.count].cells, f[v.count].w)
  <1>1. PICK n \in Nat : n = v.count
    OBVIOUS
  <1> DEFINE Good == {d \in Nat : \E f : KeptBy(f, v, d)}
  <1>2. 0 \in Good
    <2> DEFINE f == [i \in 0..0 |-> [cells |-> v.cells, w |-> 0]]
    <2>1. KeptBy(f, v, 0)
      BY DEF KeptBy
    <2>2. QED
      BY <2>1
  <1>3. ASSUME NEW d \in Nat, d \in Good PROVE d + 1 \in Good
    <2>1. PICK f : KeptBy(f, v, d)
      BY <1>3
    <2>2. PICK g : g = [i \in 0..(d + 1) |-> IF i = d + 1 THEN KeepNext(f[d], d + 1) ELSE f[i]]
      OBVIOUS
    <2>3. g[d + 1] = KeepNext(f[d], d + 1) /\ \A i \in 0..d : g[i] = f[i]
      BY <2>2
    <2>4. ASSUME NEW i \in 0..(d + 1)
          PROVE  g[i] = IF i = 0 THEN [cells |-> v.cells, w |-> 0] ELSE KeepNext(g[i - 1], i)
      <3>1. CASE i = d + 1
        <4>1. i # 0 /\ i - 1 = d /\ d \in 0..d
          BY <3>1
        <4>2. QED
          BY <2>3, <3>1, <4>1
      <3>2. CASE i # d + 1
        <4>1. i \in 0..d /\ (i # 0 => i - 1 \in 0..d)
          BY <3>2
        <4>2. g[i] = f[i] /\ (i # 0 => g[i - 1] = f[i - 1])
          BY <2>3, <4>1
        <4>3. f[i] = IF i = 0 THEN [cells |-> v.cells, w |-> 0] ELSE KeepNext(f[i - 1], i)
          BY <2>1, <4>1 DEF KeptBy
        <4>4. QED
          BY <4>2, <4>3
      <3>3. QED
        BY <3>1, <3>2
    <2>5. KeptBy(g, v, d + 1)
      BY <2>4 DEF KeptBy
    <2>6. QED
      BY <2>5
  <1>4. n \in Good
    <2> HIDE DEF Good
    <2>1. QED
      BY <1>2, <1>3, Inductive
  <1>5. PICK f : KeptBy(f, v, n)
    BY <1>4
  <1>6. PICK g : g = [i \in 0..n |-> f[i]]
    OBVIOUS
  <1>7. g = [i \in 0..n |-> IF i = 0 THEN [cells |-> v.cells, w |-> 0]
                            ELSE KeepNext(g[i - 1], i)]
    <2>1. ASSUME NEW i \in 0..n
          PROVE  g[i] = IF i = 0 THEN [cells |-> v.cells, w |-> 0] ELSE KeepNext(g[i - 1], i)
      <3>1. i # 0 => i - 1 \in 0..n
        OBVIOUS
      <3>2. g[i] = f[i] /\ (i # 0 => g[i - 1] = f[i - 1])
        BY <1>6, <3>1
      <3>3. QED
        BY <1>5, <3>2 DEF KeptBy
    <2>2. QED
      BY <1>6, <2>1
  <1> DEFINE Kept == CHOOSE h : h = [i \in 0..v.count |->
                                       IF i = 0 THEN [cells |-> v.cells, w |-> 0]
                                       ELSE KeepNext(h[i - 1], i)]
  <1>8. Kept = [i \in 0..v.count |-> IF i = 0 THEN [cells |-> v.cells, w |-> 0]
                                     ELSE KeepNext(Kept[i - 1], i)]
    BY <1>1, <1>7, Zenon
  <1>9. T!Unique(v) = Rebuilt(v, Kept[v.count].cells, Kept[v.count].w)
    BY Zenon DEF T!Unique, KeepNext, Rebuilt
  <1> HIDE DEF Kept
  <1>10. KeptBy(Kept, v, v.count)
    BY <1>8 DEF KeptBy
  <1>11. QED
    BY <1>9, <1>10

\* The first w of the cells c are kept after i cells of v were read: they
\* increase, are what was read, and end in what was read last; the cells to
\* come are as in v.
KeptIn(v, i, c, w) ==
    /\ c \in [1..Cap(v) -> Cells]
    /\ w \in 0..i
    /\ i > 0 => w > 0 /\ c[w] = v.cells[i]
    /\ \A j \in (i + 1)..Cap(v) : c[j] = v.cells[j]
    /\ \A j \in 1..w : c[j] \in Values
    /\ \A j, l \in 1..w : j < l => c[j] < c[l]
    /\ {c[j] : j \in 1..w} = {v.cells[j] : j \in 1..i}

KeptSoFar(v, i, k) == KeptIn(v, i, k.cells, k.w)

\* One more cell is read.
LEMMA KeepsOn ==
    ASSUME NEW v, Sound(v), Ordered(v), NEW i \in Nat, i < v.count,
           NEW k, KeptSoFar(v, i, k)
    PROVE  KeptSoFar(v, i + 1, KeepNext(k, i + 1))
  <1>1. /\ v.count \in Nat /\ Cap(v) \in Nat /\ v.count <= Cap(v)
        /\ \A j \in 1..v.count : v.cells[j] \in Values
    BY SoundParts
  <1>2. /\ i + 1 \in 1..v.count /\ i + 1 \in 1..Cap(v) /\ i + 1 \in (i + 1)..Cap(v)
        /\ i > 0 => i \in 1..v.count
    BY <1>1
  <1>3. PICK x \in Values : x = v.cells[i + 1]
    BY <1>1, <1>2
  <1>4. k.cells[i + 1] = x
    BY <1>2, <1>3 DEF KeptSoFar, KeptIn
  <1>5. k.w \in Nat /\ k.w <= i /\ k.w + 1 \in 1..Cap(v) /\ k.w + 1 <= i + 1
    BY <1>1 DEF KeptSoFar, KeptIn
  <1>6. \A j \in 1..k.w : k.cells[j] \in Int /\ k.cells[j] <= x
    <2>1. CASE i = 0
      BY <1>5, <2>1
    <2>2. CASE i > 0
      <3>1. k.cells[k.w] <= x /\ k.w \in 1..k.w /\ k.cells[k.w] = v.cells[i]
        <4>1. k.w > 0 /\ k.cells[k.w] = v.cells[i]
          BY <2>2 DEF KeptSoFar, KeptIn
        <4>2. k.w \in 1..k.w
          BY <1>5, <4>1
        <4>3. v.cells[i] <= v.cells[i + 1]
          BY <1>2, <2>2 DEF Ordered
        <4>4. QED
          BY <1>3, <4>1, <4>2, <4>3
      <3>2. \A j \in 1..k.w : k.cells[j] \in Int /\ (j < k.w => k.cells[j] < k.cells[k.w])
        BY <3>1 DEF KeptSoFar, KeptIn
      <3>3. QED
        BY <3>1, <3>2
    <2>3. QED
      BY <2>1, <2>2
  <1>7. {v.cells[j] : j \in 1..(i + 1)} = {v.cells[j] : j \in 1..i} \union {x}
    <2>1. 1..(i + 1) = 1..i \union {i + 1}
      OBVIOUS
    <2>2. QED
      BY <1>3, <2>1
  <1>8. CASE k.w = 0 \/ k.cells[i + 1] # k.cells[k.w]
    <2>1. PICK n \in Nat : n = k.w + 1
      BY <1>5
    <2>2. PICK c : c = [k.cells EXCEPT ![n] = x]
      OBVIOUS
    <2>3. PICK m : m = KeepNext(k, i + 1) /\ m.cells = c /\ m.w = n
      <3>1. KeepNext(k, i + 1) = [cells |-> [k.cells EXCEPT ![k.w + 1] = k.cells[i + 1]],
                                  w |-> k.w + 1]
        BY <1>8, Zenon DEF KeepNext
      <3>2. [k.cells EXCEPT ![k.w + 1] = k.cells[i + 1]] = c
        BY <1>4, <2>1, <2>2, Zenon
      <3>3. KeepNext(k, i + 1) = [cells |-> c, w |-> n]
        BY <2>1, <3>1, <3>2, Zenon
      <3>4. QED
        BY <3>3
    <2>4. /\ c \in [1..Cap(v) -> Cells] /\ c[n] = x
          /\ \A j \in 1..Cap(v) : j # n => c[j] = k.cells[j]
      BY <1>3, <1>5, <2>1, <2>2 DEF KeptSoFar, KeptIn, Cells
    <2>5. \A j \in (i + 2)..Cap(v) : c[j] = v.cells[j]
      <3>1. \A j \in (i + 2)..Cap(v) : j \in 1..Cap(v) /\ j # n /\ j \in (i + 1)..Cap(v)
        BY <1>5, <2>1
      <3>2. QED
        BY <2>4, <3>1 DEF KeptSoFar, KeptIn
    <2>6. \A j \in 1..(n - 1) : j \in 1..Cap(v) /\ j # n /\ c[j] = k.cells[j] /\ j \in 1..k.w
      BY <1>1, <1>5, <2>1, <2>4, SMTT(30)
    <2>7. \A j \in 1..n : c[j] \in Values
      BY <1>3, <2>4, <2>6 DEF KeptSoFar, KeptIn
    <2>8. \A j \in 1..(n - 1) : c[j] < x
      <3>1. CASE k.w = 0
        BY <2>1, <3>1
      <3>2. CASE k.w # 0 /\ k.cells[k.w] # x
        <4>1. k.w \in 1..k.w /\ k.cells[k.w] < x /\ x \in Int
          <5>1. PICK a : a = k.w
            OBVIOUS
          <5>2. PICK y : y = k.cells[a]
            OBVIOUS
          <5>3. a \in Nat /\ a # 0 /\ y # x
            BY <1>5, <3>2, <5>1, <5>2
          <5>4. a \in 1..a
            BY <5>3
          <5>5. y \in Int /\ y <= x
            BY <1>6, <5>1, <5>2, <5>4
          <5>6. x \in Int
            OBVIOUS
          <5>7. y < x
            BY <5>3, <5>5, <5>6
          <5>8. QED
            BY <5>1, <5>2, <5>4, <5>6, <5>7
        <4>2. \A j \in 1..k.w : k.cells[j] \in Int /\ (j < k.w => k.cells[j] < k.cells[k.w])
          BY <1>6, <4>1 DEF KeptSoFar, KeptIn
        <4>3. QED
          BY <2>6, <4>1, <4>2
      <3>3. QED
        BY <1>4, <1>8, <3>1, <3>2
    <2>9. \A j, l \in 1..n : j < l => c[j] < c[l]
      <3>1. ASSUME NEW j \in 1..n, NEW l \in 1..n, j < l PROVE c[j] < c[l]
        <4>1. j \in 1..(n - 1)
          BY <3>1
        <4>2. CASE l = n
          BY <2>4, <2>8, <4>1, <4>2
        <4>3. CASE l # n
          <5>1. l \in 1..(n - 1)
            BY <4>3
          <5>2. QED
            BY <2>6, <3>1, <4>1, <5>1 DEF KeptSoFar, KeptIn
        <4>4. QED
          BY <4>2, <4>3
      <3>2. QED
        BY <3>1
    <2>10. {c[j] : j \in 1..n} = {v.cells[j] : j \in 1..(i + 1)}
      <3>1. 1..n = 1..(n - 1) \union {n} /\ n - 1 = k.w
        BY <1>5, <2>1
      <3>2. {c[j] : j \in 1..n} = {c[j] : j \in 1..(n - 1)} \union {x}
        BY <2>4, <3>1
      <3>3. {c[j] : j \in 1..(n - 1)} = {k.cells[j] : j \in 1..k.w}
        BY <2>6, <3>1
      <3>4. QED
        BY <1>7, <3>2, <3>3 DEF KeptSoFar, KeptIn
    <2>11. n \in 0..(i + 1) /\ n > 0
      BY <1>5, <2>1
    <2>12. KeptSoFar(v, i + 1, m)
      <3>1. \A j \in (i + 1 + 1)..Cap(v) : c[j] = v.cells[j]
        BY <2>5
      <3>2. c[n] = v.cells[i + 1]
        BY <1>3, <2>4
      <3>3. m.cells = c /\ m.w = n
        BY <2>3
      <3>4. QED
        <4>1. KeptIn(v, i + 1, c, n)
          BY <2>4, <2>7, <2>9, <2>10, <2>11, <3>1, <3>2 DEF KeptIn
        <4>2. QED
          BY <3>3, <4>1, Zenon DEF KeptSoFar
    <2>13. QED
      BY <2>3, <2>12
  <1>9. CASE k.w # 0 /\ k.cells[i + 1] = k.cells[k.w]
    <2>1. KeepNext(k, i + 1) = k
      BY <1>9 DEF KeepNext
    <2>2. x \in {k.cells[j] : j \in 1..k.w}
      BY <1>4, <1>5, <1>9
    <2>3. {k.cells[j] : j \in 1..k.w} = {v.cells[j] : j \in 1..(i + 1)}
      BY <1>7, <2>2 DEF KeptSoFar, KeptIn
    <2>4. \A j \in (i + 2)..Cap(v) : k.cells[j] = v.cells[j]
      BY DEF KeptSoFar, KeptIn
    <2>5. k.w \in 0..(i + 1) /\ k.w > 0 /\ k.cells[k.w] = v.cells[i + 1]
      BY <1>3, <1>4, <1>5, <1>9
    <2>6. KeptSoFar(v, i + 1, k)
      <3>1. \A j \in (i + 1 + 1)..Cap(v) : k.cells[j] = v.cells[j]
        BY <2>4
      <3>2. QED
        BY <2>3, <2>5, <3>1 DEF KeptSoFar, KeptIn
    <2>7. QED
      BY <2>1, <2>6
  <1>10. QED
    BY <1>8, <1>9

\* unique makes of elements in order the same ones, each once.
LEMMA UniqueIs ==
    ASSUME NEW v, Sound(v), Ordered(v)
    PROVE  /\ Sound(T!Unique(v)) /\ Increasing(T!Unique(v))
           /\ Elements(T!Unique(v)) = Elements(v)
  <1>1. PICK n \in Nat : n = v.count /\ n <= Cap(v) /\ Cap(v) \in Nat
    BY SoundParts
  <1>2. PICK f : KeptBy(f, v, n) /\ T!Unique(v) = Rebuilt(v, f[n].cells, f[n].w)
    BY <1>1, UniqueUnfolds
  <1> DEFINE Good == {i \in Nat : i <= n => KeptSoFar(v, i, f[i])}
  <1>3. 0 \in Good
    <2>1. PICK k : k = f[0] /\ k.cells = v.cells /\ k.w = 0
      BY <1>2 DEF KeptBy
    <2>2. KeptSoFar(v, 0, k)
      <3>1. v.cells \in [1..Cap(v) -> Cells]
        BY SoundParts
      <3>2. PICK g, a : g = k.cells /\ a = k.w /\ g = v.cells /\ a = 0
        BY <2>1
      <3>3. /\ a \in 0..0
            /\ {g[j] : j \in 1..a} = {v.cells[j] : j \in 1..0}
            /\ ~(0 > 0)
            /\ \A j \in 1..a : FALSE
        BY <3>2
      <3>4. QED
        BY <3>1, <3>2, <3>3 DEF KeptSoFar, KeptIn
    <2>3. QED
      BY <2>1, <2>2
  <1>4. ASSUME NEW i \in Nat, i \in Good PROVE i + 1 \in Good
    <2>1. CASE i + 1 <= n
      <3>1. KeptSoFar(v, i, f[i])
        BY <1>4, <2>1
      <3>2. f[i + 1] = KeepNext(f[i], i + 1)
        <4>1. i + 1 \in 0..n /\ i + 1 # 0 /\ i + 1 - 1 = i
          BY <2>1
        <4>2. QED
          BY <1>2, <4>1 DEF KeptBy
      <3>3. KeptSoFar(v, i + 1, KeepNext(f[i], i + 1))
        BY <1>1, <2>1, <3>1, KeepsOn
      <3>4. QED
        BY <3>2, <3>3
    <2>2. QED
      BY <2>1
  <1>5. n \in Good
    <2> HIDE DEF Good
    <2>1. QED
      BY <1>3, <1>4, Inductive
  <1>6. PICK k : k = f[n] /\ KeptSoFar(v, n, k)
    BY <1>5
  <1>7. PICK c, w, u : c = k.cells /\ w = k.w /\ u = Rebuilt(v, c, w) /\ u = T!Unique(v)
    BY <1>2, <1>6
  <1>8. w \in Nat /\ w <= Cap(v) /\ c \in [1..Cap(v) -> Cells] /\ \A j \in 1..w : c[j] \in Values
    BY <1>1, <1>6, <1>7 DEF KeptSoFar, KeptIn
  <1>9. Sound(u) /\ u.count = w /\ u.cells = c
    <2>1. Fits(v, c, w)
      BY <1>8 DEF Fits
    <2>2. u = Rebuilt(v, c, w)
      BY <1>7
    <2>3. QED
      BY <2>1, <2>2, OverwrittenSound
  <1>10. Increasing(u) /\ Elements(u) = Elements(v)
    <2>1. /\ \A j, l \in 1..w : j < l => c[j] < c[l]
          /\ {c[j] : j \in 1..w} = {v.cells[j] : j \in 1..n}
      BY <1>6, <1>7 DEF KeptSoFar, KeptIn
    <2>2. QED
      BY <1>1, <1>9, <2>1 DEF Increasing, Elements
  <1>11. QED
    BY <1>7, <1>9, <1>10

\* A sorted vector has the same elements, in order.
LEMMA SortIs ==
    ASSUME NEW v, Sound(v), NEW s \in SortOn(v)
    PROVE  Sound(s) /\ Ordered(s) /\ Elements(s) = Elements(v)
  <1>1. PICK n \in Nat : n = v.count
    BY SoundParts
  <1>2. PICK e : /\ e = Contents(v) /\ e \in [1..n -> Values]
                 /\ \A k \in 1..n : e[k] = v.cells[k]
    BY <1>1, ContentsIs
  <1>3. PICK t \in InOrder(e) : \A k \in 1..n : s.cells[k] = t[k]
    BY <1>1, <1>2, SortSound
  <1>4. Sound(s) /\ s.count = n
    BY <1>1, SortSound
  <1>5. /\ \A i, j \in 1..n : i < j => t[i] <= t[j]
        /\ {t[k] : k \in 1..n} = {e[k] : k \in 1..n}
    BY <1>2, InOrderIs
  <1>6. Elements(s) = {t[k] : k \in 1..n} /\ Elements(v) = {e[k] : k \in 1..n}
    BY <1>1, <1>2, <1>3, <1>4 DEF Elements
  <1>7. QED
    BY <1>3, <1>4, <1>5, <1>6 DEF Ordered

\* insert: x is among the elements afterwards, unless there was no memory.
LEMMA InsertIs ==
    ASSUME NEW v, Sound(v), NEW x \in Values, NEW r \in PushBackOn(v, x),
           NEW u \in T!SortUnique(r.vec)
    PROVE  /\ Sound(u) /\ Increasing(u)
           /\ r.rc = 0 => Elements(u) = Elements(v) \union {x}
           /\ r.rc # 0 => Elements(u) = Elements(v)
  <1>1. PICK p : p = r.vec
    OBVIOUS
  <1>2. /\ Sound(p)
        /\ r.rc = 0 => Inserted(p, v, v.count, x)
        /\ r.rc # 0 => Keeps(p, v)
    BY <1>1, PushBackSound
  <1>3. PICK s \in SortOn(p) : u = T!Unique(s)
    BY <1>1, SameFunctions DEF T!SortUnique
  <1>4. Sound(s) /\ Ordered(s) /\ Elements(s) = Elements(p)
    BY <1>2, SortIs
  <1>5. Sound(u) /\ Increasing(u) /\ Elements(u) = Elements(p)
    BY <1>3, <1>4, UniqueIs
  <1>6. v.count \in Nat
    BY SoundParts
  <1>7. Inserted(p, v, v.count, x) => Elements(p) = Elements(v) \union {x}
    <2> SUFFICES ASSUME Inserted(p, v, v.count, x) PROVE Elements(p) = Elements(v) \union {x}
      OBVIOUS
    <2>1. PICK n \in Nat : n = v.count
      BY <1>6
    <2>2. /\ p.count = n + 1 /\ p.cells[n + 1] = x
          /\ \A k \in 1..n : p.cells[k] = v.cells[k]
      BY <2>1 DEF Inserted
    <2>3. 1..(n + 1) = 1..n \union {n + 1}
      OBVIOUS
    <2>4. QED
      BY <2>1, <2>2, <2>3 DEF Elements
  <1>8. Keeps(p, v) => Elements(p) = Elements(v)
    BY DEF Keeps, Elements
  <1>9. QED
    BY <1>2, <1>5, <1>7, <1>8

\* What a search for x answers.
LEMMA SearchIs ==
    ASSUME NEW v, Sound(v), Increasing(v), NEW x \in Values
    PROVE  \/ /\ BinarySearchOn(v, x) \in 0..(v.count - 1)
              /\ v.cells[BinarySearchOn(v, x) + 1] = x
           \/ BinarySearchOn(v, x) = -1 /\ x \notin Elements(v)
  <1>1. PICK n \in Nat : n = v.count /\ \A k \in 1..n : v.cells[k] \in Int
    BY SoundParts
  <1>2. \A i, j \in 1..v.count : i < j => v.cells[i] <= v.cells[j]
    BY <1>1 DEF Increasing
  <1>3. FoundIn(v, x, 0, v.count, BinarySearchOn(v, x))
    BY BinarySearchIs
  <1>4. QED
    BY <1>1, <1>2, <1>3 DEF FoundIn, Elements

\* erase: x is not among the elements afterwards.
LEMMA EraseIs ==
    ASSUME NEW v, Sound(v), Increasing(v), NEW x \in Values,
           NEW i, i = BinarySearchOn(v, x),
           NEW u, u = IF i < 0 THEN v ELSE EraseOn(v, i)
    PROVE  Sound(u) /\ Increasing(u) /\ Elements(u) = Elements(v) \ {x}
  <1>1. PICK n \in Nat : n = v.count /\ \A k \in 1..n : v.cells[k] \in Int
    BY SoundParts
  <1>2. CASE i = -1 /\ x \notin Elements(v)
    <2>1. u = v
      BY <1>2
    <2>2. QED
      BY <1>2, <2>1
  <1>3. CASE i \in 0..(n - 1) /\ v.cells[i + 1] = x
    <2>1. i \in Nat /\ i < v.count /\ u = EraseOn(v, i)
      BY <1>1, <1>3
    <2>2. Sound(u) /\ Erased(u, v, i)
      BY <2>1, EraseSound
    <2>3. /\ u.count = n - 1
          /\ \A k \in 1..(n - 1) : u.cells[k] = v.cells[IF k <= i THEN k ELSE k + 1]
      BY <1>1, <2>2 DEF Erased
    <2>4. \A k \in 1..(n - 1) : (IF k <= i THEN k ELSE k + 1) \in 1..n
      OBVIOUS
    <2>5. Increasing(u)
      <3>1. ASSUME NEW j \in 1..(n - 1), NEW k \in 1..(n - 1), j < k
            PROVE  u.cells[j] < u.cells[k]
        <4>1. PICK a, b \in 1..n : /\ a = (IF j <= i THEN j ELSE j + 1)
                                   /\ b = (IF k <= i THEN k ELSE k + 1)
          BY <2>4
        <4>2. a < b
          BY <1>3, <3>1, <4>1
        <4>3. QED
          BY <1>1, <2>3, <4>1, <4>2 DEF Increasing
      <3>2. QED
        BY <2>3, <3>1 DEF Increasing
    <2>6. ASSUME NEW y \in Elements(u) PROVE y \in Elements(v) /\ y # x
      <3>1. PICK k \in 1..(n - 1) : y = u.cells[k]
        BY <2>3 DEF Elements
      <3>2. PICK a \in 1..n : a = (IF k <= i THEN k ELSE k + 1)
        BY <2>4
      <3>3. y = v.cells[a] /\ a # i + 1 /\ i + 1 \in 1..n
        BY <1>3, <2>3, <3>1, <3>2
      <3>4. v.cells[a] < v.cells[i + 1] \/ v.cells[i + 1] < v.cells[a]
        BY <1>1, <3>3 DEF Increasing
      <3>5. v.cells[a] \in Int /\ v.cells[i + 1] \in Int
        BY <1>1, <3>3
      <3>6. QED
        BY <1>1, <1>3, <3>3, <3>4, <3>5 DEF Elements
    <2>7. ASSUME NEW y \in Elements(v), y # x PROVE y \in Elements(u)
      <3>1. PICK a \in 1..n : y = v.cells[a]
        BY <1>1 DEF Elements
      <3>2. a # i + 1
        BY <1>3, <2>7, <3>1
      <3>3. PICK k \in 1..(n - 1) : a = (IF k <= i THEN k ELSE k + 1)
        <4>1. CASE a <= i
          BY <1>3, <4>1
        <4>2. CASE a > i + 1
          <5>1. a - 1 \in 1..(n - 1) /\ ~(a - 1 <= i) /\ a = a - 1 + 1
            BY <1>3, <4>2
          <5>2. QED
            BY <5>1
        <4>3. QED
          BY <1>3, <3>2, <4>1, <4>2
      <3>4. QED
        BY <2>3, <3>1, <3>3 DEF Elements
    <2>8. QED
      BY <2>2, <2>5, <2>6, <2>7
  <1>4. QED
    BY <1>1, <1>2, <1>3, SearchIs


-----------------------------------------------------------------------------
(* The states of the tree.                                                 *)

TreeSound == Sound(tree) /\ Increasing(tree)

\* No element is counted twice.
LEMMA ElementsCounted ==
    ASSUME NEW v, Sound(v), Increasing(v)
    PROVE  Cardinality(Elements(v)) = v.count
  <1>1. PICK n \in Nat : n = v.count /\ \A k \in 1..n : v.cells[k] \in Int
    <2>1. v.count \in Nat /\ \A k \in 1..v.count : v.cells[k] \in Int
      BY SoundParts
    <2>2. QED
      BY <2>1
  <1>2. PICK f : f = [k \in 1..n |-> v.cells[k]]
    OBVIOUS
  <1>3. \A i, j \in 1..n : f[i] = f[j] => i = j
    <2>1. ASSUME NEW i \in 1..n, NEW j \in 1..n, i < j PROVE f[i] < f[j]
      BY <1>1, <1>2, <2>1 DEF Increasing
    <2>2. \A i \in 1..n : f[i] \in Int
      BY <1>1, <1>2
    <2>3. ASSUME NEW i \in 1..n, NEW j \in 1..n, f[i] = f[j] PROVE i = j
      <3>1. ~(i < j) /\ ~(j < i)
        BY <2>1, <2>2, <2>3
      <3>2. QED
        BY <3>1
    <2>4. QED
      BY <2>3
  <1>4. f \in Bijection(1..n, Elements(v))
    <2>1. f \in [1..n -> Elements(v)]
      BY <1>1, <1>2 DEF Elements
    <2>2. \A y \in Elements(v) : \E k \in 1..n : f[k] = y
      BY <1>1, <1>2 DEF Elements
    <2>3. f \in Injection(1..n, Elements(v))
      BY <1>3, <2>1 DEF Injection, IsInjective
    <2>4. f \in Surjection(1..n, Elements(v))
      BY <2>1, <2>2 DEF Surjection
    <2>5. QED
      BY <2>3, <2>4 DEF Bijection
  <1>5. IsFiniteSet(1..n) /\ Cardinality(1..n) = n
    BY FS_Interval
  <1>6. Cardinality(Elements(v)) = Cardinality(1..n)
    BY <1>4, <1>5, FS_Bijection DEF ExistsBijection
  <1>7. QED
    BY <1>1, <1>5, <1>6

\* The empty tree.
LEMMA EmptyTree ==
    ASSUME NEW v, v.count = 0
    PROVE  Increasing(v) /\ Elements(v) = {}
  <1>1. 1..0 = {}
    OBVIOUS
  <1>2. QED
    BY <1>1 DEF Increasing, Elements

\* The set of the elements, without its refinement mapping.
LEMMA TreeSeenForms ==
    /\ \A op, args, denied :
          T!Seen!Called(op, args, denied) <=> T!Called(op, args, denied)
    /\ \A op, args, s : T!Seen!Does(op, args, s) <=>
          /\ T!Called(op, args, {})
          /\ Elements(tree') = s
          /\ treeOut' = treeOut
    /\ \A op, args, x : T!Seen!Answers(op, args, x) <=>
          /\ T!Called(op, args, {})
          /\ treeOut' = x
          /\ Elements(tree') = Elements(tree)
  <1>1. \A op, args, denied :
           T!Seen!Called(op, args, denied) <=> T!Called(op, args, denied)
    BY Zenon DEF T!Seen!Called, T!Seen!CallAfter, T!Called, T!CallAfter
  <1>2. \A op, args, s : T!Seen!Does(op, args, s) <=>
          /\ T!Called(op, args, {})
          /\ Elements(tree') = s
          /\ treeOut' = treeOut
    BY <1>1, Zenon DEF T!Seen!Does, Elements
  <1>3. \A op, args, x : T!Seen!Answers(op, args, x) <=>
          /\ T!Called(op, args, {})
          /\ treeOut' = x
          /\ Elements(tree') = Elements(tree)
    BY <1>1, Zenon DEF T!Seen!Answers, Elements
  <1>4. QED
    BY <1>1, <1>2, <1>3, Zenon

LEMMA TreeSeenCalls ==
    /\ \A x : T!Seen!Insert(x) <=>
          \/ /\ T!Called("Insert", <<x>>, {})
             /\ Elements(tree') = Elements(tree) \union {x}
             /\ treeOut' = treeOut
          \/ /\ T!Called("Insert", <<x>>, {"room"})
             /\ Elements(tree') = Elements(tree)
             /\ treeOut' = treeOut
    /\ \A x : T!Seen!Erase(x) <=>
          /\ T!Called("Erase", <<x>>, {})
          /\ Elements(tree') = Elements(tree) \ {x}
          /\ treeOut' = treeOut
    /\ T!Seen!Clear <=> T!Seen!Does("Clear", <<>>, {})
    /\ T!Seen!Destroy <=> T!Seen!Does("Destroy", <<>>, {})
    /\ \A x : T!Seen!Contains(x) <=>
          T!Seen!Answers("Contains", <<x>>, IF x \in Elements(tree) THEN 1 ELSE 0)
    /\ T!Seen!Min <=>
          \/ \E x \in Elements(tree) : /\ \A y \in Elements(tree) : x <= y
                                       /\ T!Seen!Answers("Min", <<>>, x)
          \/ Elements(tree) = {} /\ T!Seen!Answers("Min", <<>>, 0)
    /\ T!Seen!Max <=>
          \/ \E x \in Elements(tree) : /\ \A y \in Elements(tree) : x >= y
                                       /\ T!Seen!Answers("Max", <<>>, x)
          \/ Elements(tree) = {} /\ T!Seen!Answers("Max", <<>>, 0)
  <1>1. \A x : T!Seen!Insert(x) <=>
          \/ /\ T!Called("Insert", <<x>>, {})
             /\ Elements(tree') = Elements(tree) \union {x}
             /\ treeOut' = treeOut
          \/ /\ T!Called("Insert", <<x>>, {"room"})
             /\ Elements(tree') = Elements(tree)
             /\ treeOut' = treeOut
    BY TreeSeenForms, Zenon DEF T!Seen!Insert, T!Seen!Does, Elements
  <1>2. \A x : T!Seen!Erase(x) <=>
          /\ T!Called("Erase", <<x>>, {})
          /\ Elements(tree') = Elements(tree) \ {x}
          /\ treeOut' = treeOut
    BY TreeSeenForms, Zenon DEF T!Seen!Erase, T!Seen!Does, Elements
  <1>3. /\ T!Seen!Clear <=> T!Seen!Does("Clear", <<>>, {})
        /\ T!Seen!Destroy <=> T!Seen!Does("Destroy", <<>>, {})
        /\ \A x : T!Seen!Contains(x) <=>
              T!Seen!Answers("Contains", <<x>>, IF x \in Elements(tree) THEN 1 ELSE 0)
    BY Zenon DEF T!Seen!Clear, T!Seen!Destroy, T!Seen!Contains, Elements
  <1>4. T!Seen!Min <=>
          \/ \E x \in Elements(tree) : /\ \A y \in Elements(tree) : x <= y
                                       /\ T!Seen!Answers("Min", <<>>, x)
          \/ Elements(tree) = {} /\ T!Seen!Answers("Min", <<>>, 0)
    BY Zenon DEF T!Seen!Min, Elements
  <1>5. T!Seen!Max <=>
          \/ \E x \in Elements(tree) : /\ \A y \in Elements(tree) : x >= y
                                       /\ T!Seen!Answers("Max", <<>>, x)
          \/ Elements(tree) = {} /\ T!Seen!Answers("Max", <<>>, 0)
    BY Zenon DEF T!Seen!Max, Elements
  <1>6. QED
    BY <1>1, <1>2, <1>3, <1>4, <1>5, Zenon

\* An insertion puts its element in or, denied room, changes nothing.
LEMMA TreeInsert ==
    ASSUME TreeSound, NEW x \in Values, T!Insert(x)
    PROVE  TreeSound' /\ treeOut' = treeOut /\ T!Seen!Insert(x)
  <1>1. PICK r \in PushBackOn(tree, x) : \E u \in T!SortUnique(r.vec) :
           T!Called("Insert", <<x>>, T!Denied(r)) /\ tree' = u /\ treeOut' = treeOut
    BY SameFunctions DEF T!Insert, T!Becomes
  <1>2. PICK u \in T!SortUnique(r.vec) :
           T!Called("Insert", <<x>>, T!Denied(r)) /\ tree' = u /\ treeOut' = treeOut
    BY <1>1
  <1>3. /\ Sound(u) /\ Increasing(u)
        /\ r.rc = 0 => Elements(u) = Elements(tree) \union {x}
        /\ r.rc # 0 => Elements(u) = Elements(tree)
    BY InsertIs DEF TreeSound
  <1>4. TreeSound'
    BY <1>2, <1>3 DEF TreeSound
  <1>5. CASE r.rc = 0
    <2>1. T!Called("Insert", <<x>>, {})
      BY <1>2, <1>5, Zenon DEF T!Denied
    <2>2. treeOut' = treeOut /\ Elements(tree') = Elements(tree) \union {x}
      BY <1>2, <1>3, <1>5
    <2>3. T!Seen!Insert(x)
      BY <2>1, <2>2, TreeSeenCalls, Zenon
    <2>4. QED
      BY <1>2, <1>4, <2>3
  <1>6. CASE r.rc # 0
    <2>1. T!Called("Insert", <<x>>, {"room"})
      BY <1>2, <1>6, Zenon DEF T!Denied
    <2>2. Elements(tree') = Elements(tree)
      BY <1>2, <1>3, <1>6
    <2>3. T!Seen!Insert(x)
      BY <1>2, <2>1, <2>2, TreeSeenCalls, Zenon
    <2>4. QED
      BY <1>2, <1>4, <2>3
  <1>7. QED
    BY <1>5, <1>6

\* An erasure takes out its element and no other.
LEMMA TreeErase ==
    ASSUME TreeSound, NEW x \in Values, T!Erase(x)
    PROVE  TreeSound' /\ treeOut' = treeOut /\ T!Seen!Erase(x)
  <1>1. PICK i, u : /\ i = BinarySearchOn(tree, x)
                    /\ u = (IF i < 0 THEN tree ELSE EraseOn(tree, i))
    OBVIOUS
  <1>2. T!Called("Erase", <<x>>, {}) /\ tree' = u /\ treeOut' = treeOut
    BY <1>1, SameFunctions DEF T!Erase, T!Does, T!Becomes
  <1>3. Sound(u) /\ Increasing(u) /\ Elements(u) = Elements(tree) \ {x}
    BY <1>1, EraseIs DEF TreeSound
  <1>4. TreeSound'
    BY <1>2, <1>3 DEF TreeSound
  <1>5. Elements(tree') = Elements(tree) \ {x}
    BY <1>2, <1>3
  <1>6. T!Seen!Erase(x)
    BY <1>2, <1>5, TreeSeenCalls, Zenon
  <1>7. QED
    BY <1>2, <1>4, <1>6

LEMMA TreeClear ==
    ASSUME TreeSound, T!Clear
    PROVE  TreeSound' /\ treeOut' = treeOut /\ T!Seen!Clear
  <1>1. PICK u : u = [tree EXCEPT !.count = 0]
    OBVIOUS
  <1>2. T!Called("Clear", <<>>, {}) /\ tree' = u /\ treeOut' = treeOut
    BY <1>1 DEF T!Clear, T!Does, T!Becomes
  <1>3. Sound(u) /\ u.count = 0
    <2>1. 0 \in 0..tree.count
      <3>1. tree.count \in Nat
        BY SoundParts DEF TreeSound
      <3>2. QED
        BY <3>1
    <2>2. Sound([tree EXCEPT !.count = 0]) /\ [tree EXCEPT !.count = 0].count = 0
      BY <2>1, FewerSound DEF TreeSound
    <2>3. QED
      BY <1>1, <2>2, Zenon
  <1>4. TreeSound' /\ Elements(tree') = {}
    BY <1>2, <1>3, EmptyTree DEF TreeSound
  <1>5. QED
    BY <1>2, <1>4, TreeSeenForms, TreeSeenCalls, Zenon

LEMMA TreeDestroy ==
    ASSUME TreeSound, T!Destroy
    PROVE  TreeSound' /\ treeOut' = treeOut /\ T!Seen!Destroy
  <1>1. T!Called("Destroy", <<>>, {}) /\ tree' = NewVector /\ treeOut' = treeOut
    BY SameFunctions DEF T!Destroy
  <1>2. TreeSound' /\ Elements(tree') = {}
    BY <1>1, NewSound, EmptyTree DEF TreeSound
  <1>3. QED
    BY <1>1, <1>2, TreeSeenForms, TreeSeenCalls, Zenon

\* A call that only reads.
LEMMA TreeAnswers ==
    ASSUME TreeSound, NEW op, NEW args, NEW x, T!Answers(op, args, x)
    PROVE  TreeSound' /\ treeOut' = x /\ T!Seen!Answers(op, args, x)
  <1>1. T!Called(op, args, {}) /\ treeOut' = x /\ tree' = tree
    BY DEF T!Answers
  <1>2. TreeSound' /\ Elements(tree') = Elements(tree)
    BY <1>1 DEF TreeSound
  <1>3. QED
    BY <1>1, <1>2, TreeSeenForms, Zenon

LEMMA TreeContains ==
    ASSUME TreeSound, NEW x \in Values, T!Contains(x)
    PROVE  TreeSound' /\ treeOut' \in {0, 1} /\ T!Seen!Contains(x)
  <1>1. PICK i : i = BinarySearchOn(tree, x)
    OBVIOUS
  <1>2. PICK n \in Nat : n = tree.count
    BY SoundParts DEF TreeSound
  <1>3. \/ i \in 0..(n - 1) /\ tree.cells[i + 1] = x
        \/ i = -1 /\ x \notin Elements(tree)
    BY <1>1, <1>2, SearchIs DEF TreeSound
  <1>4. i >= 0 <=> x \in Elements(tree)
    <2>1. CASE i \in 0..(n - 1) /\ tree.cells[i + 1] = x
      <3>1. i + 1 \in 1..n
        BY <2>1
      <3>2. QED
        BY <1>2, <2>1, <3>1 DEF Elements
    <2>2. CASE i = -1 /\ x \notin Elements(tree)
      BY <2>2
    <2>3. QED
      BY <1>3, <2>1, <2>2
  <1>5. PICK y : /\ y = (IF i >= 0 THEN 1 ELSE 0)
                 /\ y = (IF x \in Elements(tree) THEN 1 ELSE 0)
    BY <1>4
  <1>6. T!Answers("Contains", <<x>>, y)
    BY <1>1, <1>5, SameFunctions DEF T!Contains
  <1>7. TreeSound' /\ treeOut' = y /\ T!Seen!Answers("Contains", <<x>>, y)
    BY <1>6, TreeAnswers
  <1>8. T!Seen!Contains(x)
    BY <1>5, <1>7, TreeSeenCalls, Zenon
  <1>9. QED
    BY <1>5, <1>7, <1>8

LEMMA TreeCounted ==
    ASSUME TreeSound
    PROVE  T!Seen!Cardinality(Elements(tree)) = tree.count
  <1>1. T!Seen!Cardinality(Elements(tree)) = Cardinality(Elements(tree))
    BY Zenon DEF T!Seen!Cardinality, Cardinality
  <1>2. QED
    BY <1>1, ElementsCounted DEF TreeSound

LEMMA TreeSize ==
    ASSUME TreeSound, T!Size
    PROVE  TreeSound' /\ treeOut' \in Nat /\ T!Seen!Size
  <1>1. PICK n \in Nat : n = tree.count
    BY SoundParts DEF TreeSound
  <1>2. TreeSound' /\ treeOut' = n /\ T!Seen!Answers("Size", <<>>, n)
    BY <1>1, TreeAnswers DEF T!Size
  <1>3. T!Seen!Size
    BY <1>1, <1>2, TreeCounted, Zenon DEF T!Seen!Size, Elements
  <1>4. QED
    BY <1>2, <1>3

LEMMA TreeHeight ==
    ASSUME TreeSound, T!Height
    PROVE  TreeSound' /\ treeOut' \in Nat /\ T!Seen!Height
  <1>1. PICK n \in Nat : n = tree.count
    BY SoundParts DEF TreeSound
  <1>2. PICK hgt \in 0..n : /\ 2 ^ hgt >= n + 1
                            /\ \A lower \in 0..(hgt - 1) : 2 ^ lower < n + 1
                            /\ T!Answers("Height", <<>>, hgt)
    BY <1>1 DEF T!Height
  <1>3. hgt > 0 => 2 ^ (hgt - 1) < n + 1
    BY <1>2
  <1>4. TreeSound' /\ treeOut' = hgt /\ T!Seen!Answers("Height", <<>>, hgt)
    BY <1>2, TreeAnswers
  <1>5. PICK s : s = Elements(tree) /\ T!Seen!Cardinality(s) = n
    BY <1>1, TreeCounted
  <1>6. \E m \in 0..T!Seen!Cardinality(s) :
          /\ 2 ^ m >= T!Seen!Cardinality(s) + 1
          /\ m > 0 => 2 ^ (m - 1) < T!Seen!Cardinality(s) + 1
          /\ T!Seen!Answers("Height", <<>>, m)
    BY <1>2, <1>3, <1>4, <1>5
  <1>7. T!Seen!Height
    BY <1>5, <1>6, Zenon DEF T!Seen!Height, Elements
  <1>8. QED
    BY <1>4, <1>7

\* The ends of the tree are the least and the greatest.
LEMMA TreeEnds ==
    ASSUME TreeSound
    PROVE  /\ T!Min => TreeSound' /\ treeOut' \in Values /\ T!Seen!Min
           /\ T!Max => TreeSound' /\ treeOut' \in Values /\ T!Seen!Max
  <1>1. PICK n \in Nat : /\ n = tree.count
                         /\ \A k \in 1..n : tree.cells[k] \in Values /\ tree.cells[k] \in Int
    <2>1. /\ tree.count \in Nat
          /\ \A k \in 1..tree.count : tree.cells[k] \in Values /\ tree.cells[k] \in Int
      BY SoundParts DEF TreeSound
    <2>2. QED
      BY <2>1
  <1>2. \A i, j \in 1..n : i <= j => tree.cells[i] <= tree.cells[j]
    <2>1. \A i, j \in 1..n : i < j => tree.cells[i] < tree.cells[j]
      BY <1>1 DEF TreeSound, Increasing
    <2>2. QED
      BY <1>1, <2>1
  <1>3. ASSUME T!Min PROVE TreeSound' /\ treeOut' \in Values /\ T!Seen!Min
    <2>1. PICK x : x = ElementAt(tree, 0)
      OBVIOUS
    <2>2. TreeSound' /\ treeOut' = x /\ T!Seen!Answers("Min", <<>>, x)
      BY <1>3, <2>1, SameFunctions, TreeAnswers DEF T!Min
    <2>3. CASE n = 0
      <3>1. x = 0 /\ Elements(tree) = {}
        BY <1>1, <2>1, <2>3 DEF ElementAt, Elements
      <3>2. T!Seen!Min
        BY <2>2, <3>1, TreeSeenCalls, Zenon
      <3>3. QED
        BY <2>2, <3>1, <3>2
    <2>4. CASE n > 0
      <3>1. x = tree.cells[1] /\ x \in Values
        BY <1>1, <2>1, <2>4 DEF ElementAt
      <3>2. x \in Elements(tree) /\ \A y \in Elements(tree) : x <= y
        BY <1>1, <1>2, <2>4, <3>1 DEF Elements
      <3>3. T!Seen!Min
        BY <2>2, <3>2, TreeSeenCalls, Zenon
      <3>4. QED
        BY <2>2, <3>1, <3>3
    <2>5. QED
      BY <2>3, <2>4
  <1>4. ASSUME T!Max PROVE TreeSound' /\ treeOut' \in Values /\ T!Seen!Max
    <2>1. PICK x : x = LastElement(tree)
      OBVIOUS
    <2>2. TreeSound' /\ treeOut' = x /\ T!Seen!Answers("Max", <<>>, x)
      BY <1>4, <2>1, SameFunctions, TreeAnswers DEF T!Max
    <2>3. CASE n = 0
      <3>1. x = 0 /\ Elements(tree) = {}
        BY <1>1, <2>1, <2>3 DEF LastElement, Elements
      <3>2. T!Seen!Max
        BY <2>2, <3>1, TreeSeenCalls, Zenon
      <3>3. QED
        BY <2>2, <3>1, <3>2
    <2>4. CASE n > 0
      <3>1. x = tree.cells[n] /\ x \in Values
        BY <1>1, <2>1, <2>4 DEF LastElement
      <3>2. x \in Elements(tree) /\ \A y \in Elements(tree) : x >= y
        BY <1>1, <1>2, <2>4, <3>1 DEF Elements
      <3>3. T!Seen!Max
        BY <2>2, <3>2, TreeSeenCalls, Zenon
      <3>4. QED
        BY <2>2, <3>1, <3>3
    <2>5. QED
      BY <2>3, <2>4
  <1>5. QED
    BY <1>3, <1>4

\* A call of the tree is that of the same name and argument of the set.
LEMMA TreeSetStep ==
    ASSUME TreeSound, T!Next
    PROVE  /\ TreeSound'
           /\ treeOut' = treeOut \/ treeOut' \in Values \union Nat
           /\ T!Seen!Next
  <1>1. \A x \in Values :
          /\ T!Insert(x) => TreeSound' /\ treeOut' = treeOut /\ T!Seen!Insert(x)
          /\ T!Erase(x) => TreeSound' /\ treeOut' = treeOut /\ T!Seen!Erase(x)
          /\ T!Contains(x) => TreeSound' /\ treeOut' \in Nat /\ T!Seen!Contains(x)
    BY TreeInsert, TreeErase, TreeContains
  <1>2. /\ T!Clear => TreeSound' /\ treeOut' = treeOut /\ T!Seen!Clear
        /\ T!Destroy => TreeSound' /\ treeOut' = treeOut /\ T!Seen!Destroy
        /\ T!Size => TreeSound' /\ treeOut' \in Nat /\ T!Seen!Size
        /\ T!Height => TreeSound' /\ treeOut' \in Nat /\ T!Seen!Height
        /\ T!Min => TreeSound' /\ treeOut' \in Values /\ T!Seen!Min
        /\ T!Max => TreeSound' /\ treeOut' \in Values /\ T!Seen!Max
    BY TreeClear, TreeDestroy, TreeSize, TreeHeight, TreeEnds
  <1>3. \/ \E x \in Values : T!Insert(x) \/ T!Erase(x) \/ T!Contains(x)
        \/ T!Clear \/ T!Destroy \/ T!Size \/ T!Height \/ T!Min \/ T!Max
    BY Zenon DEF T!Next
  <1>4. \/ \E x \in Values : T!Seen!Insert(x) \/ T!Seen!Erase(x) \/ T!Seen!Contains(x)
        \/ T!Seen!Clear \/ T!Seen!Destroy \/ T!Seen!Size \/ T!Seen!Height
        \/ T!Seen!Min \/ T!Seen!Max
    BY <1>1, <1>2, <1>3, Zenon
  <1>5. T!Seen!Next
    BY <1>4, Zenon DEF T!Seen!Next
  <1>6. TreeSound'
    BY <1>1, <1>2, <1>3, Zenon
  <1>7. treeOut' = treeOut \/ treeOut' \in Nat \/ treeOut' \in Values
    BY <1>1, <1>2, <1>3, Zenon
  <1>8. QED
    BY <1>5, <1>6, <1>7


\* What is true of the tree in every state.
TreeInv ==
    /\ TreeSound
    /\ treeMade \in BOOLEAN
    /\ treeOut \in Values \union Nat

LEMMA TreeInvStep ==
    ASSUME TreeInv, [MCNext]_<<which, vars, treeVars, mapVars>>
    PROVE  TreeInv'
  <1>1. MCNext => T!Next \/ UNCHANGED treeVars
    BY DEF MCNext
  <1>2. CASE UNCHANGED treeVars
    BY <1>2 DEF treeVars, TreeInv, TreeSound
  <1>3. CASE T!Next
    <2>1. TreeSound' /\ (treeOut' = treeOut \/ treeOut' \in Values \union Nat)
      BY <1>3, TreeSetStep DEF TreeInv
    <2>2. treeMade' \in BOOLEAN
      BY <1>3 DEF TreeInv, T!Next, T!Insert, T!Erase, T!Contains, T!Clear, T!Destroy,
         T!Size, T!Height, T!Min, T!Max, T!Becomes, T!Does, T!Answers
    <2>3. QED
      BY <2>1, <2>2 DEF TreeInv
  <1>4. QED
    BY <1>1, <1>2, <1>3

LEMMA TreeInvAlways == MCSpec => []TreeInv
  <1>1. MCInit => TreeInv
    <2>1. MCInit => /\ tree = NewVector
                    /\ treeMade \in BOOLEAN
                    /\ treeOut = 0
      BY SameFunctions DEF MCInit, T!Init
    <2>2. QED
      BY <2>1, NewSound, EmptyTree DEF TreeInv, TreeSound
  <1>2. TreeInv /\ [MCNext]_<<which, vars, treeVars, mapVars>> => TreeInv'
    BY TreeInvStep
  <1>3. QED
    BY <1>1, <1>2, PTL DEF MCSpec

(* In a program with vectors and maps besides, the tree is in order and    *)
(* holds nothing twice, whatever is inserted and erased and whichever      *)
(* pushes find no memory (runtime.c, AnyTree over AnyVector).              *)
THEOREM StrictlySortedAlways == MCSpec => []StrictlySorted
  <1>1. TreeInv => StrictlySorted
    BY DEF TreeInv, TreeSound, Increasing, StrictlySorted, T!StrictlySorted
  <1>2. QED
    BY <1>1, TreeInvAlways, PTL

(* The tree is the set of what went in and did not come out, call by call: *)
(* an insertion puts its element in, and only one that was denied memory   *)
(* changes nothing; an erasure takes out its element and no other; each    *)
(* element and no other is found; the size, the height, the least and the  *)
(* greatest are those of the set (CMotive_AnyTree of runtime.c).           *)
THEOREM TreesAreSetsAlways == MCSpec => TreesAreSets
  <1>1. MCInit => T!Seen!Init
    <2>1. MCInit => tree.count = 0 /\ treeOut = 0 /\ treeCall = T!Seen!NoCall
      BY SameFunctions, NewSound DEF MCInit, T!Init, T!NoCall, T!Seen!NoCall
    <2>2. QED
      BY <2>1, EmptyTree DEF Elements, T!Seen!Init
  <1>2. TreeInv /\ [MCNext]_<<which, vars, treeVars, mapVars>>
        => [which = "tree" => [T!Seen!Next]_(T!Seen!vars)]_treeVars
    <2>1. SUFFICES ASSUME TreeInv, [MCNext]_<<which, vars, treeVars, mapVars>>
                   PROVE  [which = "tree" => [T!Seen!Next]_(T!Seen!vars)]_treeVars
      OBVIOUS
    <2>2. T!Next \/ UNCHANGED treeVars
      BY <2>1 DEF MCNext
    <2>3. T!Next => T!Seen!Next
      BY <2>1, TreeSetStep DEF TreeInv
    <2>4. QED
      BY <2>2, <2>3
  <1>3. QED
    BY <1>1, <1>2, TreeInvAlways, PTL DEF MCSpec, TreesAreSets

-----------------------------------------------------------------------------
(* The vectors, and the types of all three.                                *)

LEMMA VectorsBehave == MCSpec => Spec
  <1>1. MCInit => Init
    BY DEF MCInit
  <1>2. [MCNext]_<<which, vars, treeVars, mapVars>> => [Next]_vars
    BY DEF MCNext
  <1>3. QED
    BY <1>1, <1>2, PTL DEF MCSpec, Spec

(* In a program with all three, a vector's elements lie in its block and   *)
(* were stored by somebody, the tree's too, and a map's entries in use lie *)
(* in its block; what a read returns is an element, a count or a place.    *)
THEOREM TypesAlwaysOK == MCSpec => []TypesOK
  <1>1. TreeInv => T!TypeOK
    <2>1. T!Vectors = Vectors /\ T!Cap(tree) = Cap(tree)
      BY SameFunctions
    <2>2. TreeInv => tree \in Vectors /\ tree.count <= Cap(tree)
      BY DEF TreeInv, TreeSound, Sound
    <2>3. QED
      BY <2>1, <2>2 DEF TreeInv, T!TypeOK
  <1>2. P!TypeOK => M!TypeOK
    BY DEF P!TypeOK, M!TypeOK, P!Pointers, M!Pointers, P!Null, M!Null
  <1>3. MCSpec => []P!TypeOK
    BY SameAssumption, MapsBehave, P!TypeCorrect, PTL
  <1>4. QED
    BY <1>1, <1>2, <1>3, TreeInvAlways, VectorsBehave, VectorsTyped, PTL DEF TypesOK

(* A vector is the sequence its calls describe - each method does with its *)
(* arguments what AbstractSequence's of that name does, and nothing only   *)
(* where memory was denied - and no call on one changes another, in a      *)
(* program that also keeps a tree and maps (Vector, List and Dlist over    *)
(* CMotive_AnyVector of runtime.c).                                        *)
THEOREM VectorsAreSequencesAlways == MCSpec => VectorsAreSequences
  <1>1. [Seen!Next]_(Seen!vars) => [which = "vectors" => [Seen!Next]_(Seen!vars)]_vars
    OBVIOUS
  <1>2. MCSpec => ImplementsSequence
    BY VectorsBehave, VectorsImplementSequences
  <1>3. QED
    BY <1>1, <1>2, PTL DEF ImplementsSequence, Seen!Spec, VectorsAreSequences

-----------------------------------------------------------------------------
(* The maps as dictionaries.                                               *)

\* AbstractDictionary as MCContainers sees it, and as MapProofs does.
LEMMA SameDictionaries ==
    /\ P!Seen!Init => M!Seen!Init
    /\ [P!Seen!Next]_(P!Seen!vars) => [M!Seen!Next]_(M!Seen!vars)
  <1> USE DEF M!Null, P!Null, M!InUse, P!InUse, M!HasKey, P!HasKey, M!Column, P!Column,
              M!Cardinality, P!Cardinality
  <1>1. P!Seen!Init => M!Seen!Init
    BY Zenon DEF M!Seen!Init, P!Seen!Init, M!Seen!Empty, P!Seen!Empty,
                 M!Seen!NoCall, P!Seen!NoCall
  <1>2. \A op, args, denied :
           P!Seen!Called(op, args, denied) => M!Seen!Called(op, args, denied)
    BY Zenon DEF M!Seen!Called, P!Seen!Called, M!Seen!CallAfter, P!Seen!CallAfter
  <1>3. \A op, args, denied :
           P!Seen!Nothing(op, args, denied) => M!Seen!Nothing(op, args, denied)
    BY <1>2, Zenon DEF M!Seen!Nothing, P!Seen!Nothing
  <1>4. \A op, args, x : P!Seen!Answers(op, args, x) => M!Seen!Answers(op, args, x)
    BY <1>2, Zenon DEF M!Seen!Answers, P!Seen!Answers
  <1>5. \A h, k, s : P!Seen!Becomes(h, k, s) => M!Seen!Becomes(h, k, s)
    BY Zenon DEF M!Seen!Becomes, P!Seen!Becomes
  <1>6. \A h, n : P!Seen!Reserve(h, n) => M!Seen!Reserve(h, n)
    BY <1>3, Zenon DEF M!Seen!Reserve, P!Seen!Reserve
  <1>7. \A h, k, x : P!Seen!Put(h, k, x) => M!Seen!Put(h, k, x)
    BY Zenon DEF M!Seen!Put, P!Seen!Put, M!Seen!Called, P!Seen!Called,
                 M!Seen!CallAfter, P!Seen!CallAfter, M!Seen!Becomes, P!Seen!Becomes
  <1>8. \A h, k : P!Seen!Stores(h, k) => M!Seen!Stores(h, k)
    BY Zenon DEF M!Seen!Stores, P!Seen!Stores
  <1>9. \A h, k, x : P!Seen!PutNothing(h, k, x) => M!Seen!PutNothing(h, k, x)
    BY <1>3, <1>8, Zenon DEF M!Seen!PutNothing, P!Seen!PutNothing
  <1>10. \A h, k, x : P!Seen!PutLosingKey(h, k, x) => M!Seen!PutLosingKey(h, k, x)
    BY <1>2, <1>8, Zenon DEF M!Seen!PutLosingKey, P!Seen!PutLosingKey
  <1>11. \A h, k : P!Seen!Erase(h, k) => M!Seen!Erase(h, k)
    BY Zenon DEF M!Seen!Erase, P!Seen!Erase, M!Seen!Called, P!Seen!Called,
                 M!Seen!CallAfter, P!Seen!CallAfter, M!Seen!Becomes, P!Seen!Becomes
  <1>12. \A h : P!Seen!Emptied(h) => M!Seen!Emptied(h)
    BY Zenon DEF M!Seen!Emptied, P!Seen!Emptied, M!Seen!Empty, P!Seen!Empty
  <1>13. \A h : /\ P!Seen!Clear(h) => M!Seen!Clear(h)
                /\ P!Seen!Destroy(h) => M!Seen!Destroy(h)
    BY <1>2, <1>12, Zenon DEF M!Seen!Clear, P!Seen!Clear, M!Seen!Destroy, P!Seen!Destroy
  <1>14. \A h, k, x : P!Seen!Get(h, k, x) => M!Seen!Get(h, k, x)
    BY <1>4, Zenon DEF M!Seen!Get, P!Seen!Get
  <1>15. \A h, k : P!Seen!Contains(h, k) => M!Seen!Contains(h, k)
    BY <1>4, Zenon DEF M!Seen!Contains, P!Seen!Contains
  <1>16. \A h, k : P!Seen!Count(h, k) => M!Seen!Count(h, k)
    BY <1>4, Zenon DEF M!Seen!Count, P!Seen!Count
  <1>17. \A h : P!Seen!Size(h) => M!Seen!Size(h)
    BY Zenon DEF M!Seen!Size, P!Seen!Size, M!Seen!Answers, P!Seen!Answers,
                 M!Seen!Called, P!Seen!Called, M!Seen!CallAfter, P!Seen!CallAfter,
                 M!Seen!Pairs, P!Seen!Pairs, M!Seen!Cardinality, P!Seen!Cardinality
  <1>18. \A g, h : P!Seen!Swap(g, h) => M!Seen!Swap(g, h)
    BY <1>2, Zenon DEF M!Seen!Swap, P!Seen!Swap
  <1>19. M!Counts = P!Counts
    BY DEF M!Counts, P!Counts
  <1>20. P!Seen!Next => M!Seen!Next
    BY <1>6, <1>7, <1>9, <1>10, <1>11, <1>13, <1>14, <1>15, <1>16, <1>17, <1>18, <1>19,
       Zenon DEF M!Seen!Next, P!Seen!Next
  <1>21. UNCHANGED (P!Seen!vars) => UNCHANGED (M!Seen!vars)
    BY Zenon DEF M!Seen!vars, P!Seen!vars
  <1>22. QED
    BY <1>1, <1>20, <1>21

(* A map is the dictionary its calls describe, as long as it is defined:   *)
(* each method does with its arguments what AbstractDictionary's of that   *)
(* name does, a put does nothing or loses its key only where memory was    *)
(* denied, and no call on one map changes another, in a program that also  *)
(* keeps vectors and a tree (Map, Dict, HashDict, MultiDict and            *)
(* MultiHashDict over CMotive_AnyMap of runtime.c).                        *)
THEOREM MapsAreDictionariesAlways == MCSpec => MapsAreDictionaries
  <1>1. [P!Seen!Next]_(P!Seen!vars) =>
            [which = "maps" => [M!Seen!Next]_(M!Seen!vars)]_mapVars
    BY SameDictionaries
  <1>2. MCSpec => P!ImplementsDictionary
    BY SameAssumption, MapsBehave, P!MapsImplementDictionaries
  <1>3. P!Seen!Init => M!Seen!Init
    BY SameDictionaries
  <1>4. QED
    BY <1>1, <1>2, <1>3, PTL DEF P!ImplementsDictionary, P!Seen!Spec, MapsAreDictionaries
=============================================================================
