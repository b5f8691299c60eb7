------------------------------ MODULE MapProofs ------------------------------
(***************************************************************************)
(* Proofs about AnyMap, for any objects, keys, values, heaps and           *)
(* capacities, and whichever allocations fail: who owns the blocks of the  *)
(* heap, and that the map is AbstractDictionary's.                         *)
(***************************************************************************)
EXTENDS AnyMap, SequenceTheorems, FiniteSetTheorems, WellFoundedInduction, TLAPS

Entries == [key : Pointers, value : Blocks]

-----------------------------------------------------------------------------
(* The inductive invariant. *)

Typed ==
    /\ multi \in BOOLEAN
    /\ made \subseteq Handles
    /\ map \in [Handles -> [entries : Seq(Entries), cap : 0..MaxEntries]]
    /\ \A h \in Handles : Len(map[h].entries) <= map[h].cap
    /\ heap \in [Blocks -> Keys \union Values \union {Free}]
    /\ refused \subseteq {"key", "value"}
    /\ status \in {"running", "undefined"}

\* The entries of all maps: a map and a position in it.
Cells == {p \in Handles \X (Nat \ {0}) : p[2] \in InUse(map[p[1]])}
Entry(p) == map[p[1]].entries[p[2]]

\* A key block, where there is one, holds a key; a value block a value.
Holds ==
    \A p \in Cells :
        /\ Entry(p).key # Null => heap[Entry(p).key] \in Keys
        /\ heap[Entry(p).value] \in Values

\* No two pointers of the entries of all maps are the same, NULL apart.
Apart ==
    \A p, q \in Cells :
        /\ Entry(p).value = Entry(q).value => p = q
        /\ Entry(p).key = Entry(q).key => Entry(p).key = Null \/ p = q
        /\ Entry(p).key # Entry(q).value

\* What malloc was refused: the copy of a key that is NULL, or the value of a
\* pair whose key block belongs to nobody.
Remembered ==
    /\ \A p \in Cells : Entry(p).key = Null => "key" \in refused
    /\ \A b \in Blocks : heap[b] # Free =>
          \/ "value" \in refused
          \/ \E p \in Cells : b = Entry(p).key \/ b = Entry(p).value

IInv ==
    /\ Typed /\ Holds /\ Apart /\ Remembered
    /\ status = "undefined" => "key" \in refused

-----------------------------------------------------------------------------
(* Facts about the data. *)

LEMMA NotFree == MapAssumption => Free \notin Keys /\ Free \notin Values /\ Null \notin Blocks
  BY DEF MapAssumption, Null

LEMMA EntryParts ==
    ASSUME Typed, NEW h \in Handles
    PROVE  /\ map[h].entries \in Seq(Entries) /\ map[h].cap \in 0..MaxEntries
           /\ Len(map[h].entries) \in Nat
           /\ InUse(map[h]) = 1..Len(map[h].entries)
           /\ \A i \in InUse(map[h]) :
                 /\ map[h].entries[i] \in Entries
                 /\ map[h].entries[i].key \in Blocks \union {Null}
                 /\ map[h].entries[i].value \in Blocks
  <1>1. map[h].entries \in Seq(Entries) /\ map[h].cap \in 0..MaxEntries
    BY DEF Typed
  <1>2. Len(map[h].entries) \in Nat /\ InUse(map[h]) = 1..Len(map[h].entries)
    BY <1>1, LenProperties DEF InUse
  <1>3. \A i \in InUse(map[h]) : map[h].entries[i] \in Entries
    BY <1>1, <1>2, ElementOfSeq
  <1>4. \A e \in Entries : e.key \in Blocks \union {Null} /\ e.value \in Blocks
    BY DEF Entries, Pointers
  <1>5. QED
    BY <1>1, <1>2, <1>3, <1>4

LEMMA CellParts ==
    ASSUME Typed, NEW p \in Cells
    PROVE  /\ p[1] \in Handles /\ p[2] \in Nat \ {0} /\ p = <<p[1], p[2]>>
           /\ p[2] \in InUse(map[p[1]])
           /\ Entry(p) \in Entries
           /\ Entry(p).key \in Blocks \union {Null} /\ Entry(p).value \in Blocks
  BY EntryParts DEF Cells, Entry

LEMMA CellAt ==
    ASSUME Typed, NEW h \in Handles, NEW i \in InUse(map[h])
    PROVE  /\ <<h, i>> \in Cells /\ <<h, i>>[1] = h /\ <<h, i>>[2] = i
           /\ Entry(<<h, i>>) = map[h].entries[i]
  <1>1. i \in Nat \ {0}
    BY EntryParts
  <1>2. QED
    BY <1>1 DEF Cells, Entry

\* The blocks of entries are allocated, and can be freed together.
LEMMA Freeable ==
    ASSUME MapAssumption, IInv, NEW h \in Handles, NEW which \in SUBSET InUse(map[h])
    PROVE  /\ MayFree(map[h], which)
           /\ \A i \in which :
                 /\ map[h].entries[i].value \in Allocated(heap)
                 /\ map[h].entries[i].key \in Allocated(heap) \union {Null}
  <1>0. \A i \in which : <<h, i>> \in Cells /\ Entry(<<h, i>>) = map[h].entries[i]
    BY CellAt DEF IInv
  <1>1. \A i \in which :
          /\ map[h].entries[i].value \in Allocated(heap)
          /\ map[h].entries[i].key \in Allocated(heap) \union {Null}
    BY <1>0, EntryParts, NotFree, ZenonT(60) DEF IInv, Holds, Allocated
  <1>2. ASSUME NEW i \in which, NEW j \in which, i # j
        PROVE  {map[h].entries[i].key, map[h].entries[i].value} \intersect
              {map[h].entries[j].key, map[h].entries[j].value} \subseteq {Null}
    <2>1. <<h, i>> # <<h, j>>
      BY <1>2
    <2>2. QED
      BY <1>0, <2>1 DEF IInv, Apart
  <1>3. QED
    BY <1>1, <1>2 DEF MayFree

\* A search reads NULL only if a key was lost.
LEMMA SearchesReadable ==
    ASSUME MapAssumption, IInv, NEW h \in Handles, NEW which \in SUBSET InUse(map[h]),
           ~Readable(map[h], which)
    PROVE  "key" \in refused
  <1>1. PICK i \in which : map[h].entries[i].key \notin Allocated(heap)
    BY DEF Readable
  <1>2. map[h].entries[i].key = Null
    BY <1>1, Freeable
  <1>3. <<h, i>> \in Cells /\ Entry(<<h, i>>).key = Null
    BY <1>2, CellAt DEF IInv
  <1>4. QED
    BY <1>3 DEF IInv, Remembered

\* The oldest of some entries.
LEMMA FirstOf ==
    ASSUME NEW n \in Nat, NEW which \in SUBSET (1..n), which # {}
    PROVE  First(which) \in which /\ \A j \in which : First(which) <= j
  <1> DEFINE less == {ss \in Nat \X Nat : ss[1] < ss[2]}
  <1>1. IsWellFoundedOn(less, Nat)
    BY NatLessThanWellFounded DEF OpToRel
  <1>2. which \subseteq Nat
    OBVIOUS
  <1>3. PICK x \in which : \A y \in which : <<y, x>> \notin less
    <2> HIDE DEF less
    <2>1. QED
      BY <1>1, <1>2, WFMin
  <1>4. \A y \in which : x <= y
    <2> SUFFICES ASSUME NEW y \in which PROVE x <= y
      OBVIOUS
    <2>1. x \in Nat /\ y \in Nat /\ <<y, x>> \in Nat \X Nat
      BY <1>2
    <2>2. ~(<<y, x>>[1] < <<y, x>>[2])
      BY <1>3, <2>1
    <2>3. QED
      BY <2>1, <2>2
  <1>5. QED
    BY <1>4 DEF First

LEMMA InitInv == MapAssumption /\ Init => IInv
  <1> SUFFICES ASSUME MapAssumption, Init PROVE IInv
    OBVIOUS
  <1>1. /\ map \in [Handles -> [entries : Seq(Entries), cap : 0..MaxEntries]]
        /\ \A h \in Handles : map[h].entries = <<>> /\ map[h].cap = 0
    <2>1. NewMap \in [entries : Seq(Entries), cap : 0..MaxEntries]
      BY EmptySeq DEF NewMap, MapAssumption
    <2>2. QED
      BY <2>1 DEF Init, NewMap
  <1>2. Typed
    BY <1>1 DEF Typed, Init
  <1>3. Cells = {}
    BY <1>1 DEF Cells, InUse
  <1>4. QED
    BY <1>2, <1>3 DEF IInv, Holds, Apart, Remembered, Init

\* Every step that stores nothing: each entry there is after it was there
\* before, and the blocks of those that are not are freed.
LEMMA Kept ==
    ASSUME MapAssumption, IInv, Typed',
           NEW from \in [Cells' -> Cells], NEW B,
           \A p \in Cells' : Entry(p)' = Entry(from[p]),
           \A p, q \in Cells' : from[p] = from[q] => p = q,
           heap' = Freed(heap, B),
           \A p \in Cells' :
              Entry(from[p]).key \notin B /\ Entry(from[p]).value \notin B,
           \A q \in Cells :
              \/ \E p \in Cells' : from[p] = q
              \/ Entry(q).key \in B \union {Null} /\ Entry(q).value \in B,
           UNCHANGED <<refused, status>>
    PROVE  IInv'
  <1>1. \A p \in Cells' :
          /\ from[p] \in Cells
          /\ Entry(from[p]).key \in Blocks \union {Null}
          /\ Entry(from[p]).value \in Blocks
    BY CellParts DEF IInv
  <1>2. Holds'
    BY <1>1 DEF IInv, Holds, Freed
  <1>3. Apart'
    BY <1>1 DEF IInv, Apart
  <1>4. Remembered'
    <2>1. \A p \in Cells' : Entry(p)'.key = Null => "key" \in refused'
      BY <1>1 DEF IInv, Remembered
    <2>2. ASSUME NEW b \in Blocks, heap'[b] # Free, "value" \notin refused'
          PROVE  \E p \in Cells' : b = Entry(p)'.key \/ b = Entry(p)'.value
      <3>1. b \notin B /\ heap[b] # Free
        BY <2>2 DEF Freed
      <3>2. PICK q \in Cells : b = Entry(q).key \/ b = Entry(q).value
        BY <2>2, <3>1 DEF IInv, Remembered
      <3>3. b # Null
        BY NotFree
      <3>4. PICK p \in Cells' : from[p] = q
        BY <3>1, <3>2, <3>3
      <3>5. QED
        BY <3>2, <3>4
    <2>3. QED
      BY <2>1, <2>2 DEF Remembered
  <1>5. QED
    BY <1>2, <1>3, <1>4 DEF IInv

LEMMA InBlocksOf ==
    ASSUME NEW m, NEW which, NEW b
    PROVE  b \in BlocksOf(m, which) <=>
              /\ b # Null
              /\ \E i \in which : b = m.entries[i].key \/ b = m.entries[i].value
  <1> DEFINE of(i) == {m.entries[i].key, m.entries[i].value}
  <1>1. b \in UNION {of(i) : i \in which} <=> \E i \in which : b \in of(i)
    <2> HIDE DEF of
    <2>1. QED
      OBVIOUS
  <1>2. BlocksOf(m, which) = (UNION {of(i) : i \in which}) \ {Null}
    BY DEF BlocksOf
  <1>3. \A i \in which : b \in of(i) <=> b = m.entries[i].key \/ b = m.entries[i].value
    OBVIOUS
  <1> HIDE DEF of
  <1>4. QED
    BY <1>1, <1>2, <1>3

\* The blocks of entries of one map, and those of the others.
LEMMA BlocksApart ==
    ASSUME MapAssumption, IInv, NEW h \in Handles, NEW which \in SUBSET InUse(map[h]),
           NEW q \in Cells
    PROVE  /\ q[1] = h /\ q[2] \in which =>
                /\ Entry(q).key \in BlocksOf(map[h], which) \union {Null}
                /\ Entry(q).value \in BlocksOf(map[h], which)
           /\ ~(q[1] = h /\ q[2] \in which) =>
                /\ Entry(q).key \notin BlocksOf(map[h], which)
                /\ Entry(q).value \notin BlocksOf(map[h], which)
  <1>1. /\ Entry(q) = map[q[1]].entries[q[2]]
        /\ Entry(q).value # Null
    BY CellParts, NotFree DEF IInv, Entry
  <1>2. ASSUME q[1] = h, q[2] \in which
        PROVE  /\ Entry(q).key \in BlocksOf(map[h], which) \union {Null}
               /\ Entry(q).value \in BlocksOf(map[h], which)
    <2>2. Entry(q) = map[h].entries[q[2]]
      BY <1>1, <1>2
    <2>3. QED
      BY <1>1, <1>2, <2>2, InBlocksOf
  <1>3. ASSUME ~(q[1] = h /\ q[2] \in which), NEW b \in BlocksOf(map[h], which)
        PROVE  Entry(q).key # b /\ Entry(q).value # b
    <2>1. /\ b # Null
          /\ \E i \in which : b = map[h].entries[i].key \/ b = map[h].entries[i].value
      BY <1>3, InBlocksOf
    <2>0. PICK i \in which : b = map[h].entries[i].key \/ b = map[h].entries[i].value
      BY <2>1
    <2>2. <<h, i>> \in Cells /\ Entry(<<h, i>>) = map[h].entries[i]
      <3>1. i \in InUse(map[h]) /\ Typed
        BY DEF IInv
      <3>2. QED
        BY <3>1, CellAt
    <2>3. <<h, i>> # q
      BY <1>3
    <2>4. QED
      BY <2>0, <2>1, <2>2, <2>3 DEF IInv, Apart
  <1>4. QED
    BY <1>2, <1>3

-----------------------------------------------------------------------------
(* The actions. *)

\* The array of the map of h has n cells, and had fewer.
Grown(h, n) ==
    /\ n > map[h].cap
    /\ map' = [map EXCEPT ![h] = [map[h] EXCEPT !.cap = n]]
    /\ UNCHANGED <<multi, made, heap, refused, status, out>>

LEMMA GrownInv ==
    ASSUME MapAssumption, IInv, NEW h \in Handles, NEW cap \in Counts,
           Grown(h, cap)
    PROVE  IInv'
  <1>1. map' = [map EXCEPT ![h] = [map[h] EXCEPT !.cap = cap]]
    BY DEF Grown
  <1>2. Typed'
    <2>1. map[h] \in [entries : Seq(Entries), cap : 0..MaxEntries]
      BY DEF IInv, Typed
    <2>2. cap \in 0..MaxEntries /\ cap > map[h].cap
      BY <2>1 DEF MapAssumption, Counts, Grown
    <2>3. [map[h] EXCEPT !.cap = cap] \in [entries : Seq(Entries), cap : 0..MaxEntries]
      BY <2>1, <2>2
    <2>4. Len(map[h].entries) \in Nat /\ Len(map[h].entries) <= map[h].cap
      BY EntryParts DEF IInv, Typed
    <2>5. map' \in [Handles -> [entries : Seq(Entries), cap : 0..MaxEntries]]
      BY <1>1, <2>3 DEF IInv, Typed
    <2>6. \A g \in Handles : Len(map'[g].entries) <= map'[g].cap
      <3>1. map[h].cap \in 0..MaxEntries /\ MaxEntries \in Nat
        BY <2>1 DEF MapAssumption
      <3>2. \A g \in Handles : map'[g] = IF g = h THEN [map[h] EXCEPT !.cap = cap] ELSE map[g]
        BY <1>1 DEF IInv, Typed
      <3>3. map'[h].entries = map[h].entries /\ map'[h].cap = cap
        BY <2>1, <3>2
      <3>4. Len(map'[h].entries) <= map'[h].cap
        <4>1. PICK n \in Nat, c \in Nat, d \in Nat :
                 n = Len(map[h].entries) /\ c = map[h].cap /\ d = cap
          BY <2>2, <2>4, <3>1
        <4>2. n <= d
          BY <2>2, <2>4, <4>1
        <4>3. QED
          BY <3>3, <4>1, <4>2, Zenon
      <3>5. ASSUME NEW g \in Handles, g # h PROVE Len(map'[g].entries) <= map'[g].cap
        <4>1. map'[g] = map[g]
          BY <3>2, <3>5
        <4>2. Len(map[g].entries) <= map[g].cap
          BY DEF IInv, Typed
        <4>3. QED
          BY <4>1, <4>2, Zenon
      <3>6. QED
        BY <3>4, <3>5, Zenon
    <2>7. QED
      BY <2>5, <2>6 DEF Grown, IInv, Typed
  <1>3. \A g \in Handles : map'[g].entries = map[g].entries
    BY <1>1 DEF IInv, Typed
  <1>4. Cells' = Cells /\ \A p \in Cells : Entry(p)' = Entry(p)
    BY <1>3 DEF Cells, Entry, InUse
  <1>5. heap' = Freed(heap, {})
    BY DEF Grown, Freed, IInv, Typed
  <1> DEFINE from == [p \in Cells' |-> p]
  <1>6. from \in [Cells' -> Cells] /\ \A p \in Cells' : from[p] = p
    BY <1>4
  <1>7. QED
    <2> HIDE DEF from
    <2>1. UNCHANGED <<refused, status>>
      BY DEF Grown
    <2>2. QED
      BY <1>2, <1>4, <1>5, <1>6, <2>1, Kept

LEMMA SwapInv ==
    ASSUME MapAssumption, IInv, NEW h \in Handles, NEW other \in Handles, Swap(h, other)
    PROVE  IInv'
  <1>1. map' = [map EXCEPT ![h] = map[other], ![other] = map[h]]
    BY DEF Swap
  <1>2. \A g \in Handles : map'[g] = map[IF g = other THEN h ELSE IF g = h THEN other ELSE g]
    BY <1>1 DEF IInv, Typed
  <1>3. Typed'
    <2>1. map' \in [Handles -> [entries : Seq(Entries), cap : 0..MaxEntries]]
      BY <1>1 DEF IInv, Typed
    <2>2. \A g \in Handles : Len(map'[g].entries) <= map'[g].cap
      BY <1>2 DEF IInv, Typed
    <2>3. QED
      BY <2>1, <2>2 DEF Swap, IInv, Typed
  <1> DEFINE at == [g \in Handles |-> IF g = other THEN h ELSE IF g = h THEN other ELSE g]
             from == [p \in Cells' |-> <<at[p[1]], p[2]>>]
  <1>4. \A g \in Handles : at[g] \in Handles /\ at[at[g]] = g
    OBVIOUS
  <1>5. \A g \in Handles : map'[g] = map[at[g]]
    BY <1>2
  <1> HIDE DEF at
  <1>6. \A p \in Cells' : /\ p[1] \in Handles /\ p[2] \in Nat \ {0} /\ p = <<p[1], p[2]>>
                          /\ <<at[p[1]], p[2]>> \in Cells
                          /\ Entry(p)' = Entry(<<at[p[1]], p[2]>>)
    BY <1>4, <1>5 DEF Cells, InUse, Entry
  <1>7. \A q \in Cells : /\ q[1] \in Handles /\ q = <<q[1], q[2]>>
                         /\ <<at[q[1]], q[2]>> \in Cells'
    BY <1>4, <1>5 DEF Cells, InUse
  <1>8. heap' = Freed(heap, {}) /\ UNCHANGED <<refused, status>>
    BY DEF Swap, Freed, IInv, Typed
  <1>9. \A p \in Cells' : from[p] = <<at[p[1]], p[2]>>
    OBVIOUS
  <1>10. from \in [Cells' -> Cells]
    BY <1>6
  <1> HIDE DEF from
  <1>11. \A p, q \in Cells' : from[p] = from[q] => p = q
    <2> SUFFICES ASSUME NEW p \in Cells', NEW q \in Cells', from[p] = from[q] PROVE p = q
      OBVIOUS
    <2>1. at[p[1]] = at[q[1]] /\ p[2] = q[2]
      BY <1>9
    <2>2. at[at[p[1]]] = p[1] /\ at[at[q[1]]] = q[1]
      BY <1>4, <1>6
    <2>3. QED
      BY <1>6, <2>1, <2>2
  <1>12. \A q \in Cells : \E p \in Cells' : from[p] = q
    <2> SUFFICES ASSUME NEW q \in Cells PROVE \E p \in Cells' : from[p] = q
      OBVIOUS
    <2>1. <<at[q[1]], q[2]>> \in Cells' /\ at[at[q[1]]] = q[1] /\ q = <<q[1], q[2]>>
      BY <1>4, <1>7
    <2>2. from[<<at[q[1]], q[2]>>] = q
      BY <1>9, <2>1
    <2>3. QED
      BY <2>1, <2>2
  <1>13. QED
    <2>1. \A p \in Cells' : Entry(p)' = Entry(from[p])
      BY <1>6, <1>9
    <2>2. QED
      BY <1>3, <1>8, <1>10, <1>11, <1>12, <2>1, Kept

\* One map is left with none of its entries.
LEMMA EmptiedInv ==
    ASSUME MapAssumption, IInv, Typed', NEW h \in Handles,
           map'[h].entries = <<>>,
           \A g \in Handles \ {h} : map'[g] = map[g],
           FreeAll(h)
    PROVE  IInv'
  <1> DEFINE B == BlocksOf(map[h], InUse(map[h]))
             from == [p \in Cells' |-> p]
  <1>1. \A p \in Cells' : p \in Cells /\ p[1] # h /\ Entry(p)' = Entry(p)
    BY DEF Cells, InUse, Entry
  <1>2. \A q \in Cells : q[1] = h => q[2] \in InUse(map[h])
    BY DEF Cells
  <1>3. \A q \in Cells : q[1] # h => q \in Cells'
    BY DEF Cells, InUse
  <1>4. heap' = Freed(heap, B) /\ UNCHANGED <<refused, status>>
    BY DEF FreeAll
  <1>5. \A q \in Cells :
           /\ q[1] = h => Entry(q).key \in B \union {Null} /\ Entry(q).value \in B
           /\ q[1] # h => Entry(q).key \notin B /\ Entry(q).value \notin B
    BY <1>2, BlocksApart
  <1>6. from \in [Cells' -> Cells] /\ \A p \in Cells' : from[p] = p
    BY <1>1
  <1>7. QED
    <2> HIDE DEF from, B
    <2>1. QED
      BY <1>1, <1>3, <1>4, <1>5, <1>6, Kept

LEMMA FreeTyped ==
    ASSUME IInv, NEW B
    PROVE  Freed(heap, B) \in [Blocks -> Keys \union Values \union {Free}]
  BY DEF IInv, Typed, Freed

LEMMA ClearInv ==
    ASSUME MapAssumption, IInv, NEW h \in Handles, Clear(h) PROVE IInv'
  <1>1. MayFree(map[h], InUse(map[h]))
    BY Freeable
  <1>2. FreeAll(h) /\ map' = [map EXCEPT ![h].entries = <<>>] /\ UNCHANGED made
    BY <1>1 DEF Clear
  <1>3. /\ map[h] \in [entries : Seq(Entries), cap : 0..MaxEntries]
        /\ map'[h].entries = <<>> /\ map'[h].cap = map[h].cap
        /\ \A g \in Handles \ {h} : map'[g] = map[g]
        /\ map' \in [Handles -> [entries : Seq(Entries), cap : 0..MaxEntries]]
    BY <1>2, EmptySeq DEF IInv, Typed
  <1>4. Typed'
    BY <1>2, <1>3, FreeTyped, EmptySeq DEF FreeAll, IInv, Typed, MapAssumption
  <1>5. QED
    BY <1>2, <1>3, <1>4, EmptiedInv

LEMMA DestroyInv ==
    ASSUME MapAssumption, IInv, NEW h \in Handles, Destroy(h) PROVE IInv'
  <1>1. MayFree(map[h], InUse(map[h]))
    BY Freeable
  <1>2. FreeAll(h) /\ map' = [map EXCEPT ![h] = NewMap] /\ made' = made \ {h}
    BY <1>1 DEF Destroy
  <1>3. /\ map'[h].entries = <<>> /\ map'[h].cap = 0
        /\ \A g \in Handles \ {h} : map'[g] = map[g]
        /\ map' \in [Handles -> [entries : Seq(Entries), cap : 0..MaxEntries]]
    <2>1. NewMap \in [entries : Seq(Entries), cap : 0..MaxEntries]
      BY EmptySeq DEF NewMap, MapAssumption
    <2>2. QED
      BY <1>2, <2>1 DEF IInv, Typed, NewMap
  <1>4. Typed'
    BY <1>2, <1>3, FreeTyped, EmptySeq DEF FreeAll, IInv, Typed, MapAssumption
  <1>5. QED
    BY <1>2, <1>3, <1>4, EmptiedInv

\* A sequence without its i-th element.
LEMMA Without ==
    ASSUME NEW S, NEW s \in Seq(S), NEW i \in 1..Len(s), NEW t,
           t = SubSeq(s, 1, i - 1) \o SubSeq(s, i + 1, Len(s))
    PROVE  /\ t \in Seq(S) /\ Len(t) = Len(s) - 1
           /\ \A j \in 1..Len(t) : t[j] = s[IF j < i THEN j ELSE j + 1]
  <1> DEFINE front == SubSeq(s, 1, i - 1)
             back == SubSeq(s, i + 1, Len(s))
  <1>1. Len(s) \in Nat /\ i \in Nat
    BY LenProperties
  <1>2. /\ front \in Seq(S) /\ Len(front) = i - 1
        /\ \A j \in 1..(i - 1) : front[j] = s[j]
    BY <1>1, SubSeqProperties
  <1>3. /\ back \in Seq(S) /\ Len(back) = Len(s) - i
        /\ \A j \in 1..(Len(s) - i) : back[j] = s[i + j]
    BY <1>1, SubSeqProperties
  <1>4. t = front \o back
    OBVIOUS
  <1> HIDE DEF front, back
  <1>5. /\ front \o back \in Seq(S) /\ Len(front \o back) = Len(front) + Len(back)
        /\ \A j \in 1..(Len(front) + Len(back)) :
              (front \o back)[j] = IF j <= Len(front) THEN front[j] ELSE back[j - Len(front)]
    BY <1>2, <1>3, ConcatProperties
  <1>6. t \in Seq(S) /\ Len(t) = Len(s) - 1
    <2>1. t \in Seq(S) /\ Len(t) = Len(front) + Len(back)
      BY <1>4, <1>5
    <2>2. Len(front) + Len(back) = Len(s) - 1
      BY <1>1, <1>2, <1>3
    <2>3. QED
      BY <2>1, <2>2
  <1>7. ASSUME NEW j \in 1..Len(t) PROVE t[j] = s[IF j < i THEN j ELSE j + 1]
    <2>0. /\ j \in Nat /\ j > 0 /\ j <= Len(s) - 1
          /\ j \in 1..(Len(front) + Len(back)) /\ Len(front) = i - 1
      <3>1. Len(front) + Len(back) = Len(s) - 1 /\ Len(front) = i - 1
        BY <1>1, <1>2, <1>3
      <3>2. j \in 1..(Len(s) - 1)
        BY <1>6
      <3>3. QED
        BY <1>1, <3>1, <3>2
    <2>1. CASE j < i
      <3>1. j <= Len(front) /\ j \in 1..(i - 1)
        BY <1>1, <2>0, <2>1
      <3>2. QED
        BY <1>2, <1>4, <1>5, <2>0, <2>1, <3>1
    <2>2. CASE ~(j < i)
      <3> DEFINE l == j - (i - 1)
      <3>1. l \in 1..(Len(s) - i) /\ i + l = j + 1 /\ ~(j <= Len(front)) /\ l = j - Len(front)
        BY <1>1, <2>0, <2>2
      <3>2. t[j] = back[j - Len(front)]
        BY <1>4, <1>5, <2>0, <3>1
      <3>3. back[l] = s[i + l]
        BY <1>3, <3>1
      <3> HIDE DEF l
      <3>4. QED
        BY <2>2, <3>1, <3>2, <3>3
    <2>3. QED
      BY <2>1, <2>2
  <1>8. QED
    BY <1>6, <1>7

\* The entry at i of the map of h is gone, which leaves the entries t.
Erased(h, k, i, t) ==
    /\ Called("Erase", <<h, k>>, {})
    /\ map' = [map EXCEPT ![h] = [map[h] EXCEPT !.entries = t]]
    /\ heap' = Freed(heap, BlocksOf(map[h], {i}))
    /\ UNCHANGED <<multi, made, refused, status, out>>
    /\ Len(t) = Len(map[h].entries) - 1
    /\ \A j \in 1..Len(t) : t[j] = map[h].entries[IF j < i THEN j ELSE j + 1]

LEMMA EraseFirstParts ==
    ASSUME MapAssumption, IInv, NEW h \in Handles, NEW k,
           Matches(map[h], k) # {}, EraseFirst(h, k)
    PROVE  \E i \in 1..Len(map[h].entries), t \in Seq(Entries) :
              i = First(Matches(map[h], k)) /\ Erased(h, k, i, t)
  <1> DEFINE n == Len(map[h].entries)
             first == First(Matches(map[h], k))
             without == SubSeq(map[h].entries, 1, first - 1)
                            \o SubSeq(map[h].entries, first + 1, Len(map[h].entries))
  <1>0. /\ map[h].entries \in Seq(Entries) /\ n \in Nat /\ InUse(map[h]) = 1..n
    BY EntryParts DEF IInv
  <1>1. first \in 1..n
    <2>1. Matches(map[h], k) \in SUBSET (1..n)
      BY <1>0 DEF Matches
    <2>2. QED
      BY <1>0, <2>1, FirstOf
  <1>2. MayFree(map[h], {first})
    BY <1>0, <1>1, Freeable
  <1>3. /\ Called("Erase", <<h, k>>, {})
        /\ map' = [map EXCEPT ![h] = [map[h] EXCEPT !.entries = without]]
        /\ heap' = Freed(heap, BlocksOf(map[h], {first}))
        /\ UNCHANGED <<multi, made, refused, status, out>>
    BY <1>2 DEF EraseFirst, Becomes
  <1>4. PICK i, t : i = first /\ t = without /\ i \in 1..n
    BY <1>1
  <1>5. /\ t \in Seq(Entries) /\ Len(t) = n - 1
        /\ \A j \in 1..Len(t) : t[j] = map[h].entries[IF j < i THEN j ELSE j + 1]
    <2>1. PICK s \in Seq(Entries) : s = map[h].entries
      BY <1>0
    <2>2. i \in 1..Len(s) /\ t = SubSeq(s, 1, i - 1) \o SubSeq(s, i + 1, Len(s))
      BY <1>4, <2>1
    <2>3. /\ t \in Seq(Entries) /\ Len(t) = Len(s) - 1
          /\ \A j \in 1..Len(t) : t[j] = s[IF j < i THEN j ELSE j + 1]
      BY <2>2, Without, ZenonT(60)
    <2>4. QED
      BY <2>1, <2>3
  <1> HIDE DEF without, first, n
  <1>6. QED
    BY <1>3, <1>4, <1>5 DEF first, n, Erased

LEMMA EraseFirstInv ==
    ASSUME MapAssumption, IInv, NEW h \in Handles, NEW k,
           Matches(map[h], k) # {}, EraseFirst(h, k)
    PROVE  IInv'
  <1> DEFINE n == Len(map[h].entries)
  <1>1. /\ map[h] \in [entries : Seq(Entries), cap : 0..MaxEntries]
        /\ map[h].entries \in Seq(Entries) /\ n \in Nat /\ InUse(map[h]) = 1..n
        /\ MaxEntries \in Nat /\ n <= map[h].cap
    BY EntryParts DEF IInv, Typed, MapAssumption
  <1>2. PICK i \in 1..n, t \in Seq(Entries) : Erased(h, k, i, t)
    BY EraseFirstParts
  <1> DEFINE B == BlocksOf(map[h], {i})
             from == [p \in Cells' |->
                         IF p[1] = h /\ ~(p[2] < i) THEN <<h, p[2] + 1>> ELSE p]
  <1>3. /\ map' = [map EXCEPT ![h] = [map[h] EXCEPT !.entries = t]]
        /\ heap' = Freed(heap, B)
        /\ UNCHANGED <<multi, made, refused, status>>
    BY <1>2 DEF Erased
  <1>4. /\ t \in Seq(Entries) /\ Len(t) = n - 1
        /\ \A j \in 1..Len(t) : t[j] = map[h].entries[IF j < i THEN j ELSE j + 1]
    BY <1>2 DEF Erased
  <1> HIDE DEF B
  <1>5. /\ map' \in [Handles -> [entries : Seq(Entries), cap : 0..MaxEntries]]
        /\ map'[h].entries = t /\ map'[h].cap = map[h].cap
        /\ \A g \in Handles \ {h} : map'[g] = map[g]
    BY <1>1, <1>3, <1>4 DEF IInv, Typed
  <1>6. Typed'
    <2>1. \A g \in Handles : Len(map'[g].entries) <= map'[g].cap
      <3>1. map[h].cap \in Int /\ Len(t) <= map[h].cap
        BY <1>1, <1>4
      <3>2. QED
        BY <1>5, <3>1 DEF IInv, Typed
    <2>2. heap' \in [Blocks -> Keys \union Values \union {Free}]
      BY <1>3, FreeTyped
    <2>3. QED
      BY <1>3, <1>5, <2>1, <2>2 DEF IInv, Typed
  <1>7. \A p \in Cells' :
           /\ p[1] \in Handles /\ p[2] \in Nat \ {0} /\ p = <<p[1], p[2]>>
           /\ p[1] = h => p[2] \in 1..(n - 1)
           /\ p[1] # h => p \in Cells /\ Entry(p)' = Entry(p)
    BY <1>1, <1>4, <1>5 DEF Cells, InUse, Entry
  <1>8. \A j \in 1..n : <<h, j>> \in Cells /\ Entry(<<h, j>>) = map[h].entries[j]
    BY <1>1, CellAt DEF IInv
  <1>9. \A j \in 1..(n - 1) : <<h, j>> \in Cells' /\ Entry(<<h, j>>)' = t[j]
    <2> SUFFICES ASSUME NEW j \in 1..(n - 1)
                 PROVE  <<h, j>> \in Cells' /\ Entry(<<h, j>>)' = t[j]
      OBVIOUS
    <2>1. j \in Nat \ {0} /\ j \in DOMAIN t
      BY <1>1, <1>4, LenProperties
    <2>2. QED
      BY <1>5, <2>1 DEF Cells, InUse, Entry
  <1>10. \A p \in Cells' : from[p] = IF p[1] = h /\ ~(p[2] < i) THEN <<h, p[2] + 1>> ELSE p
    OBVIOUS
  <1>11. ASSUME NEW p \in Cells'
         PROVE  /\ from[p] \in Cells /\ Entry(p)' = Entry(from[p])
                /\ ~(from[p][1] = h /\ from[p][2] \in {i})
    <2>1. CASE p[1] # h
      BY <1>7, <1>10, <2>1
    <2>2. CASE p[1] = h
      <3> DEFINE j == IF p[2] < i THEN p[2] ELSE p[2] + 1
      <3>1. j \in 1..n /\ j # i /\ p[2] \in 1..(n - 1) /\ from[p] = <<h, j>>
        BY <1>1, <1>2, <1>7, <1>10, <2>2
      <3>2. p = <<h, p[2]>> /\ Entry(p)' = t[p[2]]
        BY <1>7, <1>9, <2>2, <3>1
      <3>3. t[p[2]] = map[h].entries[j]
        BY <1>1, <1>4, <3>1
      <3>4. QED
        BY <1>8, <3>1, <3>2, <3>3
    <2>3. QED
      BY <2>1, <2>2
  <1>12. from \in [Cells' -> Cells]
    BY <1>11
  <1> HIDE DEF from
  <1>13. \A p, q \in Cells' : from[p] = from[q] => p = q
    <2> SUFFICES ASSUME NEW p \in Cells', NEW q \in Cells', from[p] = from[q] PROVE p = q
      OBVIOUS
    <2> DEFINE then(r) == IF r[1] = h /\ ~(r[2] < i) THEN r[2] + 1 ELSE r[2]
    <2>1. \A r \in Cells' : from[r] = <<r[1], then(r)>>
      BY <1>7, <1>10
    <2> HIDE DEF then
    <2>2. p[1] = q[1] /\ then(p) = then(q)
      BY <2>1
    <2>3. p[2] \in Nat /\ q[2] \in Nat
      BY <1>7
    <2>4. p[2] = q[2]
      BY <1>1, <1>2, <2>2, <2>3 DEF then
    <2>5. QED
      BY <1>7, <2>2, <2>4
  <1>14. \A p \in Cells' : Entry(from[p]).key \notin B /\ Entry(from[p]).value \notin B
    <2> SUFFICES ASSUME NEW p \in Cells'
                 PROVE  Entry(from[p]).key \notin B /\ Entry(from[p]).value \notin B
      OBVIOUS
    <2>1. {i} \in SUBSET InUse(map[h]) /\ from[p] \in Cells
      BY <1>1, <1>2, <1>11
    <2>2. ~(from[p][1] = h /\ from[p][2] \in {i})
      BY <1>11
    <2>3. QED
      BY <2>1, <2>2, BlocksApart DEF B
  <1>15. \A q \in Cells :
           \/ \E p \in Cells' : from[p] = q
           \/ Entry(q).key \in B \union {Null} /\ Entry(q).value \in B
    <2> SUFFICES ASSUME NEW q \in Cells
                 PROVE  \/ \E p \in Cells' : from[p] = q
                        \/ Entry(q).key \in B \union {Null} /\ Entry(q).value \in B
      OBVIOUS
    <2>0. q[1] \in Handles /\ q = <<q[1], q[2]>> /\ q[2] \in InUse(map[q[1]])
      BY CellParts DEF IInv
    <2>1. CASE q[1] # h
      <3>1. q \in Cells'
        BY <1>5, <2>1 DEF Cells, InUse
      <3>2. QED
        BY <1>10, <2>1, <3>1
    <2>2. CASE q[1] = h /\ q[2] = i
      <3>1. {i} \in SUBSET InUse(map[h]) /\ q[2] \in {i}
        BY <1>1, <1>2, <2>2
      <3>2. QED
        BY <2>2, <3>1, BlocksApart DEF B
    <2>3. CASE q[1] = h /\ q[2] # i
      <3> DEFINE j == IF q[2] < i THEN q[2] ELSE q[2] - 1
      <3>1. q[2] \in 1..n /\ j \in 1..(n - 1) /\ q = <<h, q[2]>>
        BY <1>1, <1>2, <2>0, <2>3
      <3>2. <<h, j>> \in Cells' /\ <<h, j>>[1] = h /\ <<h, j>>[2] = j
        BY <1>9, <3>1
      <3>3. q[2] = IF j < i THEN j ELSE j + 1
        BY <1>2, <1>1, <2>3, <3>1
      <3>4. from[<<h, j>>] = q
        <4> HIDE DEF j
        <4>1. QED
          BY <1>10, <3>1, <3>2, <3>3
      <3>5. QED
        BY <3>2, <3>4
    <2>4. QED
      BY <2>1, <2>2, <2>3
  <1>16. QED
    <2>1. \A p \in Cells' : Entry(p)' = Entry(from[p])
      BY <1>11
    <2>2. UNCHANGED <<refused, status>>
      BY <1>3
    <2>3. QED
      BY <1>3, <1>6, <1>12, <1>13, <1>14, <1>15, <2>1, <2>2, Kept

\* Nothing changes but the result, or the program is undefined from here on.
LEMMA ReturnsInv ==
    ASSUME IInv, UNCHANGED <<multi, made, map, heap, refused, status>> PROVE IInv'
  <1>1. Cells' = Cells /\ \A p \in Cells : Entry(p)' = Entry(p)
    BY DEF Cells, Entry, InUse
  <1>2. QED
    BY <1>1 DEF IInv, Typed, Holds, Apart, Remembered

LEMMA ReserveParts ==
    ASSUME IInv, NEW h \in Handles, NEW n \in Counts, Reserve(h, n)
    PROVE  \/ Called("Reserve", <<h, n>>, {}) /\ Grown(h, n)
           \/ \E denied \in {{}, {"room"}} : Nothing("Reserve", <<h, n>>, denied)
  <1>1. CASE n <= map[h].cap
    BY <1>1 DEF Reserve
  <1>2. CASE n > map[h].cap
    BY <1>2 DEF Reserve, Grown, Becomes
  <1>3. n \in Int /\ map[h].cap \in Int
    BY DEF IInv, Typed, Counts
  <1>4. QED
    BY <1>1, <1>2, <1>3

LEMMA NothingInv ==
    ASSUME IInv, NEW op, NEW args, NEW denied, Nothing(op, args, denied) PROVE IInv'
  BY ReturnsInv DEF Nothing

LEMMA ReserveInv ==
    ASSUME MapAssumption, IInv, NEW h \in Handles, NEW n \in Counts, Reserve(h, n)
    PROVE  IInv'
  BY ReserveParts, GrownInv, NothingInv

LEMMA UndefinedInv ==
    ASSUME IInv, Undefined, "key" \in refused PROVE IInv'
  <1>1. Cells' = Cells /\ \A p \in Cells : Entry(p)' = Entry(p)
    BY DEF Cells, Entry, InUse, Undefined
  <1>2. QED
    BY <1>1 DEF IInv, Typed, Holds, Apart, Remembered, Undefined

LEMMA OverwriteInv ==
    ASSUME MapAssumption, IInv, NEW h \in Handles, NEW k \in Keys, NEW x \in Values,
           Matches(map[h], k) # {}, Overwrite(h, k, x)
    PROVE  IInv'
  <1> DEFINE i == First(Matches(map[h], k))
             c == <<h, i>>
             block == map[h].entries[i].value
  <1>1. i \in InUse(map[h])
    <2>1. Matches(map[h], k) \in SUBSET (1..Len(map[h].entries))
      BY EntryParts DEF Matches, IInv
    <2>2. QED
      BY <2>1, EntryParts, FirstOf DEF IInv
  <1> HIDE DEF i
  <1>2. c \in Cells /\ Entry(c).value = block /\ block \in Blocks /\ block # Null
    BY <1>1, CellAt, EntryParts, NotFree DEF IInv
  <1>3. block \in Allocated(heap)
    BY <1>1, Freeable
  <1>4. heap' = [heap EXCEPT ![block] = x] /\ UNCHANGED <<multi, made, map, refused, status>>
    BY <1>2, <1>3 DEF Overwrite, Filled, i
  <1> HIDE DEF c, block
  <1>5. Cells' = Cells /\ \A p \in Cells : Entry(p)' = Entry(p)
    BY <1>4 DEF Cells, Entry, InUse
  <1>6. \A b \in Blocks : heap'[b] = IF b = block THEN x ELSE heap[b]
    BY <1>4 DEF IInv, Typed
  <1>7. Typed'
    BY <1>2, <1>4 DEF IInv, Typed
  <1>8. Holds'
    <2> SUFFICES ASSUME NEW p \in Cells
                 PROVE  /\ Entry(p).key # Null => heap'[Entry(p).key] \in Keys
                        /\ heap'[Entry(p).value] \in Values
      BY <1>5 DEF Holds
    <2>1. Entry(p).key \in Blocks \union {Null} /\ Entry(p).value \in Blocks
      BY CellParts DEF IInv
    <2>2. Entry(p).key # block
      BY <1>2 DEF IInv, Apart
    <2>3. QED
      BY <1>6, <2>1, <2>2 DEF IInv, Holds
  <1>9. Apart'
    BY <1>5 DEF IInv, Apart
  <1>10. Remembered'
    <2>1. \A b \in Blocks : heap'[b] # Free => heap[b] # Free
      BY <1>3, <1>6 DEF Allocated
    <2>2. QED
      BY <1>4, <1>5, <2>1 DEF IInv, Remembered
  <1>11. QED
    BY <1>4, <1>7, <1>8, <1>9, <1>10 DEF IInv

\* The block an entry points to is not free.
LEMMA PointersAllocated ==
    ASSUME MapAssumption, IInv, NEW p \in Cells, NEW b \in Blocks, heap[b] = Free
    PROVE  Entry(p).key # b /\ Entry(p).value # b
  <1>1. Entry(p).key # Null => heap[Entry(p).key] \in Keys
    BY DEF IInv, Holds
  <1>2. heap[Entry(p).value] \in Values
    BY DEF IInv, Holds
  <1>3. QED
    BY <1>1, <1>2, NotFree

LEMMA MallocFree ==
    ASSUME NEW hp, NEW b \in Malloc(hp)
    PROVE  b = Null \/ (b \in Blocks /\ hp[b] = Free)
  BY DEF Malloc, Allocated

\* A put was given the blocks key and value, either of them NULL if malloc
\* refused it: they were free, so that no entry changes.
Stored(h, m, k, x, key, value) ==
    /\ Called("Put", <<h, k, x>>, Denied(key, value))
    /\ refused' = refused \union Denied(key, value)
    /\ Becomes(h, IF value = Null THEN m ELSE
                  [m EXCEPT !.entries =
                      Append(m.entries, [key |-> key, value |-> value])])
    /\ key = Null \/ (key \in Blocks /\ heap[key] = Free)
    /\ value # Null => value \in Blocks /\ heap[value] = Free /\ value # key
    /\ heap' \in [Blocks -> Keys \union Values \union {Free}]
    /\ \A b \in Blocks : heap'[b] = IF b = value THEN x
                                    ELSE IF b = key THEN k ELSE heap[b]
    /\ \A p \in Cells :
           /\ heap'[Entry(p).value] = heap[Entry(p).value]
           /\ Entry(p).key # Null => heap'[Entry(p).key] = heap[Entry(p).key]
           /\ Entry(p).key \in Blocks \union {Null} /\ Entry(p).value \in Blocks
           /\ key # Null => Entry(p).key # key /\ Entry(p).value # key
           /\ value # Null => Entry(p).key # value /\ Entry(p).value # value

LEMMA StoreParts ==
    ASSUME MapAssumption, IInv, NEW h \in Handles, NEW k \in Keys, NEW x \in Values,
           NEW m, Store(h, m, k, x)
    PROVE  \E key, value : Stored(h, m, k, x, key, value)
  <1>0. PICK key \in Malloc(heap) :
          \E value \in Malloc(Filled(heap, key, k)) :
            /\ Called("Put", <<h, k, x>>, Denied(key, value))
            /\ heap' = Filled(Filled(heap, key, k), value, x)
            /\ refused' = refused \union Denied(key, value)
            /\ Becomes(h, IF value = Null THEN m ELSE
                  [m EXCEPT !.entries =
                      Append(m.entries, [key |-> key, value |-> value])])
    BY DEF Store
  <1>1. PICK value \in Malloc(Filled(heap, key, k)) :
            /\ Called("Put", <<h, k, x>>, Denied(key, value))
            /\ heap' = Filled(Filled(heap, key, k), value, x)
            /\ refused' = refused \union Denied(key, value)
            /\ Becomes(h, IF value = Null THEN m ELSE
                  [m EXCEPT !.entries =
                      Append(m.entries, [key |-> key, value |-> value])])
    BY <1>0
  <1>2. k # Free /\ x # Free /\ Null \notin Blocks
    BY NotFree
  <1>3. /\ key = Null \/ (key \in Blocks /\ heap[key] = Free)
        /\ value = Null \/ (value \in Blocks /\ Filled(heap, key, k)[value] = Free)
    BY MallocFree
  <1>4. value # Null => value \in Blocks /\ heap[value] = Free /\ value # key
    BY <1>2, <1>3 DEF Filled, IInv, Typed
  <1>5. heap \in [Blocks -> Keys \union Values \union {Free}]
    BY DEF IInv, Typed
  <1>6. /\ heap' \in [Blocks -> Keys \union Values \union {Free}]
        /\ \A b \in Blocks : heap'[b] = IF b = value THEN x
                                        ELSE IF b = key THEN k ELSE heap[b]
    BY <1>1, <1>2, <1>3, <1>4, <1>5 DEF Filled
  <1>7. \A p \in Cells :
           /\ heap'[Entry(p).value] = heap[Entry(p).value]
           /\ Entry(p).key # Null => heap'[Entry(p).key] = heap[Entry(p).key]
           /\ Entry(p).key \in Blocks \union {Null} /\ Entry(p).value \in Blocks
           /\ key # Null => Entry(p).key # key /\ Entry(p).value # key
           /\ value # Null => Entry(p).key # value /\ Entry(p).value # value
    <2> SUFFICES ASSUME NEW p \in Cells
                 PROVE  /\ heap'[Entry(p).value] = heap[Entry(p).value]
                        /\ Entry(p).key # Null => heap'[Entry(p).key] = heap[Entry(p).key]
                        /\ Entry(p).key \in Blocks \union {Null} /\ Entry(p).value \in Blocks
                        /\ key # Null => Entry(p).key # key /\ Entry(p).value # key
                        /\ value # Null => Entry(p).key # value /\ Entry(p).value # value
      OBVIOUS
    <2>1. Entry(p).key \in Blocks \union {Null} /\ Entry(p).value \in Blocks
      BY CellParts DEF IInv
    <2>2. key # Null => Entry(p).key # key /\ Entry(p).value # key
      BY <1>3, PointersAllocated
    <2>3. value # Null => Entry(p).key # value /\ Entry(p).value # value
      BY <1>4, PointersAllocated
    <2>4. QED
      BY <1>2, <1>3, <1>6, <2>1, <2>2, <2>3
  <1>8. Stored(h, m, k, x, key, value)
    BY <1>1, <1>3, <1>4, <1>6, <1>7, Zenon DEF Stored
  <1>9. QED
    BY <1>8

\* A put that had memory for the value appends an entry of blocks that were
\* free; one that had none leaves the entries, and the key's block, behind.
LEMMA StoreInv ==
    ASSUME MapAssumption, IInv, NEW h \in Handles, NEW k \in Keys, NEW x \in Values,
           NEW m \in [entries : Seq(Entries), cap : Nat],
           m.entries = map[h].entries, Len(m.entries) < m.cap, Store(h, m, k, x)
    PROVE  IInv'
  <1>1. PICK key, value : Stored(h, m, k, x, key, value)
    BY StoreParts
  <1>2. /\ refused' = refused \union (IF key = Null THEN {"key"} ELSE {})
                              \union (IF value = Null THEN {"value"} ELSE {})
        /\ Becomes(h, IF value = Null THEN m ELSE
                  [m EXCEPT !.entries =
                      Append(m.entries, [key |-> key, value |-> value])])
    BY <1>1 DEF Stored, Denied
  <1>3. PICK n \in Nat : n = Len(map[h].entries)
    BY EntryParts DEF IInv
  <1> DEFINE new == [key |-> key, value |-> value]
             c == <<h, n + 1>>
  <1>4. k # Free /\ x # Free /\ Null \notin Blocks
    BY NotFree
  <1>5. key = Null \/ (key \in Blocks /\ heap[key] = Free)
    BY <1>1 DEF Stored
  <1>6. value # Null => value \in Blocks /\ heap[value] = Free /\ value # key
    BY <1>1 DEF Stored
  <1>7. /\ heap' \in [Blocks -> Keys \union Values \union {Free}]
        /\ \A b \in Blocks : heap'[b] = IF b = value THEN x
                                        ELSE IF b = key THEN k ELSE heap[b]
    BY <1>1 DEF Stored
  <1>8. /\ map[h].entries \in Seq(Entries) /\ n \in Nat
        /\ InUse(map[h]) = 1..n /\ m.cap \in Nat /\ n < m.cap
    BY <1>3, EntryParts DEF IInv
  <1>9. UNCHANGED <<multi, made, status>>
    BY <1>2 DEF Becomes
  <1>10. \A p \in Cells :
           /\ heap'[Entry(p).value] = heap[Entry(p).value]
           /\ Entry(p).key # Null => heap'[Entry(p).key] = heap[Entry(p).key]
           /\ Entry(p).key \in Blocks \union {Null} /\ Entry(p).value \in Blocks
           /\ key # Null => Entry(p).key # key /\ Entry(p).value # key
           /\ value # Null => Entry(p).key # value /\ Entry(p).value # value
    BY <1>1 DEF Stored
  <1>11. CASE value = Null
    <2>1. /\ map' = [map EXCEPT ![h] = m] /\ m.cap <= MaxEntries
          /\ "value" \in refused'
      BY <1>2, <1>11 DEF Becomes
    <2>2. /\ map' \in [Handles -> [entries : Seq(Entries), cap : 0..MaxEntries]]
          /\ \A g \in Handles : map'[g].entries = map[g].entries
          /\ \A g \in Handles : map'[g].cap = IF g = h THEN m.cap ELSE map[g].cap
      <3>1. m \in [entries : Seq(Entries), cap : 0..MaxEntries]
        BY <1>8, <2>1 DEF MapAssumption
      <3>2. QED
        BY <2>1, <3>1 DEF IInv, Typed
    <2>3. Typed'
      <3>1. \A g \in Handles : Len(map'[g].entries) <= map'[g].cap
        <4>1. map'[h].entries = map[h].entries /\ map'[h].cap = m.cap
          BY <2>2
        <4>2. Len(map'[h].entries) <= map'[h].cap
          BY <1>3, <1>8, <4>1
        <4>3. ASSUME NEW g \in Handles \ {h} PROVE Len(map'[g].entries) <= map'[g].cap
          BY <2>2 DEF IInv, Typed
        <4>4. QED
          BY <4>2, <4>3
      <3>2. QED
        BY <1>2, <1>7, <1>9, <2>2, <3>1 DEF IInv, Typed
    <2>4. Cells' = Cells /\ \A p \in Cells : Entry(p)' = Entry(p)
      BY <2>2 DEF Cells, Entry, InUse
    <2>5. Holds'
      BY <1>10, <2>4 DEF IInv, Holds
    <2>6. Apart'
      BY <2>4 DEF IInv, Apart
    <2>7. Remembered'
      BY <1>2, <2>1, <2>4 DEF IInv, Remembered
    <2>8. QED
      BY <1>2, <1>9, <2>3, <2>5, <2>6, <2>7 DEF IInv
  <1>12. CASE value # Null
    <2> DEFINE t == Append(map[h].entries, new)
    <2>1. /\ map' = [map EXCEPT ![h] = [m EXCEPT !.entries = t]]
          /\ m.cap <= MaxEntries
      BY <1>2, <1>12 DEF Becomes
    <2>2. /\ new \in Entries /\ t \in Seq(Entries) /\ Len(t) = n + 1
          /\ t[n + 1] = new /\ \A i \in 1..n : t[i] = map[h].entries[i]
      <3>1. new \in Entries
        BY <1>5, <1>6, <1>12 DEF Entries, Pointers
      <3>2. QED
        BY <1>3, <1>8, <3>1, AppendProperties
    <2> HIDE DEF t
    <2>3. /\ map' \in [Handles -> [entries : Seq(Entries), cap : 0..MaxEntries]]
          /\ map'[h].entries = t /\ map'[h].cap = m.cap
          /\ \A g \in Handles \ {h} : map'[g] = map[g]
      <3>1. [m EXCEPT !.entries = t] \in [entries : Seq(Entries), cap : 0..MaxEntries]
        BY <1>8, <2>1, <2>2, SMTT(30) DEF MapAssumption
      <3>2. QED
        BY <2>1, <3>1 DEF IInv, Typed
    <2>4. Typed'
      <3>1. \A g \in Handles : Len(map'[g].entries) <= map'[g].cap
        <4>1. Len(t) <= m.cap
          BY <1>8, <2>2
        <4>2. Len(map'[h].entries) <= map'[h].cap
          BY <2>3, <4>1
        <4>3. ASSUME NEW g \in Handles \ {h} PROVE Len(map'[g].entries) <= map'[g].cap
          BY <2>3 DEF IInv, Typed
        <4>4. QED
          BY <4>2, <4>3
      <3>2. QED
        BY <1>2, <1>7, <1>9, <2>3, <3>1 DEF IInv, Typed
    <2>5. /\ Cells' = Cells \union {c} /\ c \notin Cells
          /\ Entry(c)' = new /\ \A p \in Cells : Entry(p)' = Entry(p)
      <3>1. InUse(map'[h]) = 1..(n + 1)
        BY <1>8, <2>2, <2>3, LenProperties DEF InUse
      <3>2. \A g \in Handles \ {h} : InUse(map'[g]) = InUse(map[g])
        BY <2>3 DEF InUse
      <3>3. c \notin Cells
        BY <1>8 DEF Cells
      <3>4. Cells' = Cells \union {c}
        <4>1. ASSUME NEW p \in Handles \X (Nat \ {0})
              PROVE  p[2] \in InUse(map'[p[1]]) <=> p[2] \in InUse(map[p[1]]) \/ p = c
          <5>1. CASE p[1] = h
            <6>1. p = <<h, p[2]>> /\ p[2] \in Nat \ {0}
              BY <5>1
            <6>2. p = c <=> p[2] = n + 1
              BY <6>1
            <6>3. QED
              BY <1>8, <3>1, <5>1, <6>1, <6>2
          <5>2. CASE p[1] # h
            BY <3>2, <5>2
          <5>3. QED
            BY <5>1, <5>2
        <4>2. c \in Handles \X (Nat \ {0})
          BY <1>8
        <4>3. QED
          BY <4>1, <4>2 DEF Cells
      <3>5. Entry(c)' = new
        BY <2>2, <2>3 DEF Entry
      <3>6. ASSUME NEW p \in Cells PROVE Entry(p)' = Entry(p)
        <4>1. p[1] \in Handles /\ p[2] \in InUse(map[p[1]])
          BY CellParts DEF IInv
        <4>2. CASE p[1] = h
          <5>1. p[2] \in 1..n
            BY <1>8, <4>1, <4>2
          <5>2. map'[p[1]].entries[p[2]] = map[p[1]].entries[p[2]]
            BY <2>2, <2>3, <4>2, <5>1
          <5>3. QED
            BY <5>2 DEF Entry
        <4>3. CASE p[1] # h
          BY <2>3, <4>1, <4>3 DEF Entry
        <4>4. QED
          BY <4>2, <4>3
      <3>7. QED
        BY <3>3, <3>4, <3>5, <3>6
    <2> HIDE DEF c
    <2>6. Holds'
      <3>1. new.key # Null => heap'[new.key] \in Keys
        BY <1>5, <1>6, <1>7, <1>12
      <3>2. heap'[new.value] \in Values
        BY <1>6, <1>7, <1>12
      <3> HIDE DEF new
      <3>3. QED
        BY <1>10, <2>5, <3>1, <3>2 DEF IInv, Holds
    <2>7. Apart'
      <3>1. new.key = key /\ new.value = value /\ key # value
        BY <1>6, <1>12
      <3>2. \A p \in Cells : /\ new.key = Entry(p).key => new.key = Null
                             /\ new.key # Entry(p).value
                             /\ new.value # Entry(p).key /\ new.value # Entry(p).value
        BY <1>4, <1>10, <1>12, <3>1
      <3> HIDE DEF new
      <3>3. QED
        BY <2>5, <3>1, <3>2 DEF IInv, Apart
    <2>8. Remembered'
      <3>1. new.key = Null => "key" \in refused'
        BY <1>2
      <3>2. ASSUME NEW b \in Blocks, heap'[b] # Free
            PROVE  "value" \in refused' \/ b = new.key \/ b = new.value \/ heap[b] # Free
        BY <1>7, <3>2
      <3>3. refused \subseteq refused'
        BY <1>2
      <3> HIDE DEF new
      <3>4. \A p \in Cells' : Entry(p)'.key = Null => "key" \in refused'
        BY <2>5, <3>1, <3>3 DEF IInv, Remembered
      <3>5. ASSUME NEW b \in Blocks, heap'[b] # Free, "value" \notin refused'
            PROVE  \E p \in Cells' : b = Entry(p)'.key \/ b = Entry(p)'.value
        BY <2>5, <3>2, <3>3, <3>5 DEF IInv, Remembered
      <3>6. QED
        BY <3>4, <3>5 DEF Remembered
    <2>9. QED
      BY <1>2, <1>9, <2>4, <2>6, <2>7, <2>8 DEF IInv
  <1>13. QED
    BY <1>11, <1>12

LEMMA AddParts ==
    ASSUME MapAssumption, IInv, NEW h \in Handles, NEW k, NEW x, Add(h, k, x)
    PROVE  \/ \E m \in [entries : Seq(Entries), cap : Nat] :
                 /\ m.entries = map[h].entries /\ Len(m.entries) < m.cap
                 /\ Store(h, m, k, x)
           \/ Nothing("Put", <<h, k, x>>, {"room"})
  <1> DEFINE n == Len(map[h].entries)
             c == map[h].cap
             m == IF n < c THEN map[h]
                  ELSE [map[h] EXCEPT !.cap = IF c > 0 THEN 2 * c ELSE FirstCap]
  <1>1. /\ map[h] \in [entries : Seq(Entries), cap : 0..MaxEntries]
        /\ n \in Nat /\ c \in Nat /\ n <= c /\ FirstCap \in Nat \ {0}
    BY EntryParts DEF IInv, Typed, MapAssumption
  <1>2. Store(h, m, k, x) \/ Nothing("Put", <<h, k, x>>, {"room"})
    BY <1>1 DEF Add
  <1>3. m \in [entries : Seq(Entries), cap : Nat]
    BY <1>1
  <1>4. m.entries = map[h].entries /\ n < m.cap
    BY <1>1
  <1> HIDE DEF m
  <1>5. QED
    BY <1>2, <1>3, <1>4

LEMMA AddInv ==
    ASSUME MapAssumption, IInv, NEW h \in Handles, NEW k \in Keys, NEW x \in Values,
           Add(h, k, x)
    PROVE  IInv'
  <1>1. CASE \E m \in [entries : Seq(Entries), cap : Nat] :
                /\ m.entries = map[h].entries /\ Len(m.entries) < m.cap
                /\ Store(h, m, k, x)
    BY <1>1, StoreInv
  <1>2. CASE Nothing("Put", <<h, k, x>>, {"room"})
    BY <1>2, NothingInv
  <1>3. QED
    BY <1>1, <1>2, AddParts

\* A search that read NULL.
LEMMA SearchInv ==
    ASSUME MapAssumption, IInv, NEW h \in Handles, NEW k, ~Searches(map[h], k), Undefined
    PROVE  IInv'
  <1>1. Compared(map[h], k) \in SUBSET InUse(map[h])
    BY DEF Compared
  <1>2. "key" \in refused
    BY <1>1, SearchesReadable DEF Searches
  <1>3. QED
    BY <1>2, UndefinedInv

LEMMA PutInv ==
    ASSUME MapAssumption, IInv, NEW h \in Handles, NEW k \in Keys, NEW x \in Values,
           Put(h, k, x)
    PROVE  IInv'
  <1>1. IF multi THEN Add(h, k, x)
        ELSE IF ~Searches(map[h], k) THEN Undefined
        ELSE IF Matches(map[h], k) # {} THEN Overwrite(h, k, x)
        ELSE Add(h, k, x)
    BY DEF Put
  <1>2. CASE Add(h, k, x)
    BY <1>2, AddInv
  <1>3. CASE ~Searches(map[h], k) /\ Undefined
    BY <1>3, SearchInv
  <1>4. CASE Matches(map[h], k) # {} /\ Overwrite(h, k, x)
    BY <1>4, OverwriteInv
  <1>5. QED
    BY <1>1, <1>2, <1>3, <1>4

LEMMA EraseInv ==
    ASSUME MapAssumption, IInv, NEW h \in Handles, NEW k \in Keys, Erase(h, k)
    PROVE  IInv'
  <1>1. \/ ~Searches(map[h], k) /\ Undefined
        \/ Matches(map[h], k) # {} /\ EraseFirst(h, k)
        \/ Nothing("Erase", <<h, k>>, {})
    BY DEF Erase
  <1>2. QED
    BY <1>1, SearchInv, EraseFirstInv, NothingInv

LEMMA ReadInv ==
    ASSUME MapAssumption, IInv, NEW h \in Handles, NEW k \in Keys, NEW x,
           Get(h, k, x) \/ Contains(h, k) \/ Count(h, k) \/ Size(h)
    PROVE  IInv'
  <1>1. CASE \E op, args, y : Answers(op, args, y)
    BY <1>1, ReturnsInv DEF Answers
  <1>2. CASE ~Searches(map[h], k) /\ Undefined
    BY <1>2, SearchInv
  <1>3. CASE ~Readable(map[h], InUse(map[h])) /\ Undefined
    BY <1>3, SearchesReadable, UndefinedInv
  <1>4. QED
    BY <1>1, <1>2, <1>3 DEF Get, Contains, Count, Size

LEMMA SizeInv ==
    ASSUME IInv, NEW h, Size(h) PROVE IInv'
  BY ReturnsInv DEF Size, Answers

LEMMA NextInv == MapAssumption /\ IInv /\ [Next]_vars => IInv'
  <1> SUFFICES ASSUME MapAssumption, IInv, [Next]_vars PROVE IInv'
    OBVIOUS
  <1>1. CASE UNCHANGED vars
    BY <1>1, ReturnsInv DEF vars
  <1>2. ASSUME NEW h \in Handles, NEW other \in Handles, Swap(h, other) PROVE IInv'
    BY <1>2, SwapInv
  <1>3. ASSUME NEW h \in Handles, Clear(h) \/ Destroy(h) \/ Size(h) PROVE IInv'
    BY <1>3, ClearInv, DestroyInv, SizeInv
  <1>4. ASSUME NEW h \in Handles, NEW n \in Counts, Reserve(h, n) PROVE IInv'
    BY <1>4, ReserveInv
  <1>5. ASSUME NEW h \in Handles, NEW k \in Keys,
               Erase(h, k) \/ Contains(h, k) \/ Count(h, k)
        PROVE  IInv'
    BY <1>5, EraseInv, ReadInv
  <1>6. ASSUME NEW h \in Handles, NEW k \in Keys, NEW x \in Values,
               Put(h, k, x) \/ Get(h, k, x)
        PROVE  IInv'
    BY <1>6, PutInv, ReadInv
  <1>7. QED
    BY <1>1, <1>2, <1>3, <1>4, <1>5, <1>6 DEF Next

LEMMA InvariantHolds == MapAssumption => (Spec => []IInv)
  <1> SUFFICES ASSUME MapAssumption PROVE Spec => []IInv
    OBVIOUS
  <1>1. Init => IInv
    BY InitInv
  <1>2. IInv /\ [Next]_vars => IInv'
    BY NextInv
  <1>3. QED
    BY <1>1, <1>2, PTL DEF Spec

\* What a method returns is an integer.
LEMMA OutInt ==
    ASSUME MapAssumption, IInv, out \in Int, [Next]_vars PROVE out' \in Int
  <1>1. CASE UNCHANGED out
    BY <1>1
  <1>2. ASSUME NEW h \in Handles, NEW k \in Keys, NEW fallback \in Values,
               Get(h, k, fallback)
        PROVE  out' \in Int
    <2>1. out' = ValueOf(h, k, fallback) \/ Undefined
      BY <1>2 DEF Get, Answers
    <2>2. CASE Matches(map[h], k) = {}
      BY <2>1, <2>2 DEF ValueOf, Undefined, MapAssumption
    <2>3. CASE Matches(map[h], k) # {}
      <3> DEFINE i == First(Matches(map[h], k))
      <3>1. Matches(map[h], k) \in SUBSET (1..Len(map[h].entries))
        BY EntryParts DEF Matches, IInv
      <3>2. i \in InUse(map[h])
        BY <2>3, <3>1, EntryParts, FirstOf DEF IInv
      <3>3. heap[map[h].entries[i].value] \in Values
        <4> HIDE DEF i
        <4>1. <<h, i>> \in Cells /\ Entry(<<h, i>>) = map[h].entries[i]
          BY <3>2, CellAt DEF IInv
        <4>2. QED
          BY <4>1 DEF IInv, Holds
      <3>4. QED
        BY <2>1, <2>3, <3>3 DEF ValueOf, Undefined, MapAssumption
    <2>4. QED
      BY <2>2, <2>3
  <1>3. ASSUME NEW h \in Handles, NEW k \in Keys, Count(h, k) PROVE out' \in Int
    <2>1. Cardinality(Matches(map[h], k)) \in Nat
      <3>1. IsFiniteSet(1..Len(map[h].entries))
        <4>1. Len(map[h].entries) \in Int /\ 1 \in Int
          BY EntryParts DEF IInv
        <4>2. QED
          BY <4>1, FS_Interval
      <3>2. Matches(map[h], k) \subseteq 1..Len(map[h].entries)
        BY EntryParts DEF Matches, IInv
      <3>3. QED
        BY <3>1, <3>2, FS_Subset, FS_CardinalityType
    <2>2. QED
      BY <1>3, <2>1 DEF Count, Answers, Undefined
  <1>4. ASSUME NEW h \in Handles, NEW k, Contains(h, k) PROVE out' \in Int
    BY <1>4 DEF Contains, Answers, Undefined
  <1>5. ASSUME NEW h \in Handles, Size(h) PROVE out' \in Int
    BY <1>5, EntryParts DEF Size, Answers, IInv
  <1>6. ASSUME NEW h, NEW k, NEW x, Put(h, k, x) PROVE UNCHANGED out
    BY <1>6 DEF Put, Add, Store, Becomes, Overwrite, Undefined, Nothing
  <1>7. ASSUME NEW h, NEW n, NEW k, NEW other,
               Reserve(h, n) \/ Erase(h, k) \/ Clear(h) \/ Destroy(h) \/ Swap(h, other)
        PROVE  UNCHANGED out
    BY <1>7 DEF Reserve, Erase, EraseFirst, Clear, Destroy, Swap, FreeAll, Becomes,
                Undefined, Nothing
  <1>8. CASE UNCHANGED vars
    BY <1>8 DEF vars
  <1>9. CASE Next
    <2>1. PICK h \in Handles :
             \/ \E k \in Keys, x \in Values : Get(h, k, x)
             \/ \E k \in Keys : Count(h, k) \/ Contains(h, k)
             \/ Size(h) \/ UNCHANGED out
      BY <1>6, <1>7, <1>9 DEF Next
    <2>2. QED
      BY <1>1, <1>2, <1>3, <1>4, <1>5, <2>1
  <1>10. QED
    BY <1>1, <1>8, <1>9

(* The types: every pointer of an entry is NULL or a block of the heap, a  *)
(* map never counts more entries than it has cells, every result is an     *)
(* integer.                                                                *)
THEOREM TypeCorrect == MapAssumption => (Spec => []TypeOK)
  <1> SUFFICES ASSUME MapAssumption PROVE Spec => []TypeOK
    OBVIOUS
  <1>1. Init => out \in Int
    BY DEF Init
  <1>2. IInv /\ out \in Int /\ [Next]_vars => (out \in Int)'
    BY OutInt
  <1>3. IInv /\ out \in Int => TypeOK
    <2> SUFFICES ASSUME IInv, out \in Int PROVE TypeOK
      OBVIOUS
    <2> DEFINE E == [key : Pointers, value : Pointers]
    <2>1. Entries \subseteq E
      BY DEF Entries, Pointers
    <2>2. ASSUME NEW h \in Handles PROVE map[h] \in [entries : Seq(E), cap : 0..MaxEntries]
      <3>1. map[h] \in [entries : Seq(Entries), cap : 0..MaxEntries]
        BY DEF IInv, Typed
      <3>2. map[h].entries \in Seq(E)
        <4> HIDE DEF E
        <4>1. map[h].entries \in Seq(Entries) /\ Len(map[h].entries) \in Nat
          BY <3>1, LenProperties
        <4>2. \A i \in 1..Len(map[h].entries) : map[h].entries[i] \in E
          BY <2>1, <4>1, ElementOfSeq
        <4>3. map[h].entries = [i \in 1..Len(map[h].entries) |-> map[h].entries[i]]
          BY <4>1, LenProperties
        <4>4. QED
          BY <4>1, <4>2, <4>3, IsASeq
      <3>3. QED
        BY <3>1, <3>2
    <2> HIDE DEF E
    <2>3. map \in [Handles -> [entries : Seq(E), cap : 0..MaxEntries]]
      BY <2>2 DEF IInv, Typed
    <2>4. QED
      BY <2>3 DEF IInv, Typed, TypeOK, E
  <1>4. QED
    BY <1>1, <1>2, <1>3, InvariantHolds, PTL DEF Spec

-----------------------------------------------------------------------------
(* Each entry in use of any map owns its blocks alone, whichever mallocs   *)
(* failed before: no free of erase, clear or destroy hits a block twice.   *)
THEOREM OneOwnerAlways == MapAssumption => (Spec => []OneOwner)
  <1> SUFFICES ASSUME MapAssumption PROVE Spec => []OneOwner
    OBVIOUS
  <1>1. IInv => OneOwner
    <2> SUFFICES ASSUME IInv PROVE OneOwner
      OBVIOUS
    <2>1. ASSUME NEW h \in Handles
          PROVE  /\ MayFree(map[h], InUse(map[h]))
                 /\ \A i \in InUse(map[h]) :
                       map[h].entries[i].value \notin {Null, map[h].entries[i].key}
      <3>1. MayFree(map[h], InUse(map[h]))
        BY Freeable
      <3>2. ASSUME NEW i \in InUse(map[h])
            PROVE  map[h].entries[i].value \notin {Null, map[h].entries[i].key}
        <4>1. <<h, i>> \in Cells /\ Entry(<<h, i>>) = map[h].entries[i]
          BY CellAt DEF IInv
        <4>2. QED
          BY <4>1, CellParts, NotFree DEF IInv, Apart
      <3>3. QED
        BY <3>1, <3>2
    <2>2. ASSUME NEW g \in Handles, NEW h \in Handles, g # h,
                 NEW b \in Owned(g), b \in Owned(h)
          PROVE  FALSE
      <3>1. PICK i \in InUse(map[g]) :
                b = map[g].entries[i].key \/ b = map[g].entries[i].value
        BY InBlocksOf DEF Owned
      <3>2. <<g, i>> \in Cells /\ Entry(<<g, i>>) = map[g].entries[i] /\ <<g, i>>[1] = g
        BY CellAt DEF IInv
      <3>3. Entry(<<g, i>>).key # b /\ Entry(<<g, i>>).value # b
        BY <2>2, <3>2, BlocksApart DEF Owned
      <3>4. QED
        BY <3>1, <3>2, <3>3
    <2>3. QED
      BY <2>1, <2>2 DEF OneOwner
  <1>2. QED
    BY <1>1, InvariantHolds, PTL

(* A search reads NULL, and the program is undefined, only after strdup    *)
(* was refused the memory for the copy of a key.                           *)
THEOREM UndefinedOnlyForALostKeyAlways ==
    MapAssumption => (Spec => []UndefinedOnlyForALostKey)
  <1> SUFFICES ASSUME MapAssumption PROVE Spec => []UndefinedOnlyForALostKey
    OBVIOUS
  <1>1. IInv => UndefinedOnlyForALostKey
    BY DEF IInv, UndefinedOnlyForALostKey
  <1>2. QED
    BY <1>1, InvariantHolds, PTL

(* A block is lost only by a put that found memory for the copy of the key *)
(* and none for the copy of the value.                                     *)
THEOREM LeaksOnlyForALostValueAlways ==
    MapAssumption => (Spec => []LeaksOnlyForALostValue)
  <1> SUFFICES ASSUME MapAssumption PROVE Spec => []LeaksOnlyForALostValue
    OBVIOUS
  <1>1. IInv => LeaksOnlyForALostValue
    <2> SUFFICES ASSUME IInv, "value" \notin refused
                 PROVE  Allocated(heap) = UNION {Owned(h) : h \in Handles}
      BY DEF LeaksOnlyForALostValue
    <2>1. ASSUME NEW b \in Allocated(heap) PROVE \E h \in Handles : b \in Owned(h)
      <3>1. PICK p \in Cells : b = Entry(p).key \/ b = Entry(p).value
        BY DEF Allocated, IInv, Remembered
      <3>2. b # Null
        BY NotFree DEF Allocated
      <3>3. p[1] \in Handles /\ p[2] \in InUse(map[p[1]])
        BY CellParts DEF IInv
      <3>4. b \in Owned(p[1])
        BY <3>1, <3>2, <3>3, InBlocksOf DEF Owned, Entry
      <3>5. QED
        BY <3>3, <3>4
    <2>2. ASSUME NEW h \in Handles, NEW b \in Owned(h) PROVE b \in Allocated(heap)
      <3>1. b # Null
        BY InBlocksOf DEF Owned
      <3>2. PICK i \in InUse(map[h]) :
                b = map[h].entries[i].key \/ b = map[h].entries[i].value
        BY InBlocksOf DEF Owned
      <3>3. QED
        BY <3>1, <3>2, Freeable
    <2>3. QED
      BY <2>1, <2>2
  <1>2. QED
    BY <1>1, InvariantHolds, PTL

-----------------------------------------------------------------------------
(* What a map holds for one key: the values of the entries with that key,  *)
(* in their order.                                                         *)

\* All naturals belong to a set that has 0 and is closed under successor.
LEMMA Inductive ==
    ASSUME NEW S, 0 \in S, \A n \in Nat : n \in S => n + 1 \in S
    PROVE  Nat \subseteq S
  <1> DEFINE less == {ss \in Nat \X Nat : ss[1] < ss[2]}
             Out == {n \in Nat : n \notin S}
  <1>1. IsWellFoundedOn(less, Nat)
    BY NatLessThanWellFounded DEF OpToRel
  <1> SUFFICES ASSUME NEW m \in Nat, m \notin S PROVE FALSE
    OBVIOUS
  <1>2. m \in Out /\ Out \subseteq Nat
    OBVIOUS
  <1>3. PICK n \in Out : \A y \in Out : <<y, n>> \notin less
    <2> HIDE DEF less, Out
    <2>1. QED
      BY <1>1, <1>2, WFMin
  <1>4. n \in Nat /\ n \notin S /\ n # 0 /\ n - 1 \in Nat /\ n - 1 + 1 = n
    OBVIOUS
  <1>5. n - 1 \in Out
    BY <1>4
  <1>6. <<n - 1, n>> \in Nat \X Nat /\ <<n - 1, n>>[1] < <<n - 1, n>>[2]
    BY <1>4
  <1>7. QED
    BY <1>3, <1>5, <1>6

\* The entries of a map whose key is k, the values of all, and those of k; hp
\* is the heap.
PlacesOf(m, hp, k) ==
    {i \in 1..Len(m.entries) : m.entries[i].key # Null /\ hp[m.entries[i].key] = k}

ValuesOf(m, hp) == [i \in 1..Len(m.entries) |-> hp[m.entries[i].value]]

ColumnOf(m, hp, k) ==
    LET Upto[i \in 0..Len(m.entries)] ==
            IF i = 0 THEN <<>>
            ELSE IF m.entries[i].key # Null /\ hp[m.entries[i].key] = k
            THEN Append(Upto[i - 1], hp[m.entries[i].value])
            ELSE Upto[i - 1]
    IN  Upto[Len(m.entries)]

\* f[i] is what the places of S up to i hold in V.
CollectNext(s, S, V, i) == IF i \in S THEN Append(s, V[i]) ELSE s

Collected(f, n, S, V) ==
    /\ f[0] = <<>>
    /\ \A i \in 1..n : f[i] = CollectNext(f[i - 1], S, V, i)

LEMMA CollectedExists ==
    ASSUME NEW n \in Nat, NEW S, NEW V
    PROVE  \E f : Collected(f, n, S, V)
  <1> DEFINE Good == {d \in Nat : \E f : Collected(f, d, S, V)}
  <1>1. 0 \in Good
    <2>1. PICK f : f = [i \in 0..0 |-> <<>>]
      OBVIOUS
    <2>2. Collected(f, 0, S, V)
      BY <2>1 DEF Collected
    <2>3. QED
      BY <2>2
  <1>2. ASSUME NEW d \in Nat, d \in Good PROVE d + 1 \in Good
    <2>1. PICK f : Collected(f, d, S, V)
      BY <1>2
    <2>2. PICK g : g = [i \in 0..(d + 1) |-> IF i = d + 1 THEN CollectNext(f[d], S, V, i)
                                             ELSE f[i]]
      OBVIOUS
    <2>3. g[d + 1] = CollectNext(f[d], S, V, d + 1) /\ \A i \in 0..d : g[i] = f[i]
      BY <2>2
    <2>4. ASSUME NEW i \in 1..(d + 1) PROVE g[i] = CollectNext(g[i - 1], S, V, i)
      <3>1. CASE i = d + 1
        <4>1. i - 1 = d /\ d \in 0..d
          BY <3>1
        <4>2. QED
          BY <2>3, <3>1, <4>1
      <3>2. CASE i # d + 1
        <4>1. i \in 1..d /\ i \in 0..d /\ i - 1 \in 0..d
          BY <3>2
        <4>2. g[i] = f[i] /\ g[i - 1] = f[i - 1]
          BY <2>3, <4>1
        <4>3. f[i] = CollectNext(f[i - 1], S, V, i)
          BY <2>1, <4>1 DEF Collected
        <4>4. QED
          BY <4>2, <4>3
      <3>3. QED
        BY <3>1, <3>2
    <2>5. g[0] = <<>>
      BY <2>1, <2>3 DEF Collected
    <2>6. Collected(g, d + 1, S, V)
      BY <2>4, <2>5 DEF Collected
    <2>7. QED
      BY <2>6
  <1>3. n \in Good
    <2> HIDE DEF Good
    <2>1. QED
      BY <1>1, <1>2, Inductive
  <1>4. QED
    BY <1>3

\* The column of a key is the function its equation describes.
LEMMA ColumnUnfolds ==
    ASSUME NEW m, NEW hp, NEW k, NEW n \in Nat, Len(m.entries) = n
    PROVE  \E f : /\ Collected(f, n, PlacesOf(m, hp, k), ValuesOf(m, hp))
                  /\ ColumnOf(m, hp, k) = f[n]
  <1>0. PICK S, V : S = PlacesOf(m, hp, k) /\ V = ValuesOf(m, hp)
    OBVIOUS
  <1> DEFINE Adds(s, i) == IF m.entries[i].key # Null /\ hp[m.entries[i].key] = k
                           THEN Append(s, hp[m.entries[i].value]) ELSE s
  <1>1. \A s : \A i \in 1..n : CollectNext(s, S, V, i) = Adds(s, i)
    <2>1. \A i \in 1..n : /\ V[i] = hp[m.entries[i].value]
                          /\ i \in S <=> m.entries[i].key # Null /\ hp[m.entries[i].key] = k
      BY <1>0 DEF PlacesOf, ValuesOf
    <2>2. QED
      BY <2>1 DEF CollectNext
  <1>2. PICK f : Collected(f, n, S, V)
    BY CollectedExists
  <1> DEFINE Upto == CHOOSE h : h = [i \in 0..Len(m.entries) |->
                                       IF i = 0 THEN <<>> ELSE Adds(h[i - 1], i)]
  <1> HIDE DEF Adds
  <1>3. PICK g : g = [i \in 0..n |-> f[i]]
    OBVIOUS
  <1>4. g = [i \in 0..n |-> IF i = 0 THEN <<>> ELSE Adds(g[i - 1], i)]
    <2>1. ASSUME NEW i \in 0..n PROVE g[i] = IF i = 0 THEN <<>> ELSE Adds(g[i - 1], i)
      <3>1. i # 0 => i - 1 \in 0..n /\ i \in 1..n
        OBVIOUS
      <3>2. g[i] = f[i] /\ (i # 0 => g[i - 1] = f[i - 1])
        BY <1>3, <3>1
      <3>3. QED
        BY <1>1, <1>2, <3>1, <3>2 DEF Collected
    <2>2. QED
      BY <1>3, <2>1
  <1>5. Upto = [i \in 0..n |-> IF i = 0 THEN <<>> ELSE Adds(Upto[i - 1], i)]
    BY <1>4, Zenon
  <1>6. ColumnOf(m, hp, k) = Upto[n]
    BY Zenon DEF ColumnOf, Adds
  <1> HIDE DEF Upto
  <1>7. Collected(Upto, n, S, V)
    <2>1. \A i \in 1..n : i \in 0..n /\ i # 0
      OBVIOUS
    <2>2. 0 \in 0..n
      OBVIOUS
    <2>3. QED
      BY <1>1, <1>5, <2>1, <2>2 DEF Collected
  <1>8. QED
    BY <1>0, <1>6, <1>7

LEMMA CollectedTyped ==
    ASSUME NEW n \in Nat, NEW S \in SUBSET (1..n), NEW V \in [1..n -> Values], NEW f,
           Collected(f, n, S, V)
    PROVE  \A i \in 0..n : f[i] \in Seq(Values)
  <1> DEFINE Good == {d \in Nat : d <= n => f[d] \in Seq(Values)}
  <1>1. 0 \in Good
    BY EmptySeq DEF Collected
  <1>2. ASSUME NEW d \in Nat, d \in Good PROVE d + 1 \in Good
    <2> SUFFICES ASSUME d + 1 <= n PROVE f[d + 1] \in Seq(Values)
      OBVIOUS
    <2>1. d + 1 \in 1..n /\ d + 1 - 1 = d /\ f[d] \in Seq(Values)
      BY <1>2
    <2>2. f[d + 1] = CollectNext(f[d], S, V, d + 1) /\ V[d + 1] \in Values
      BY <2>1 DEF Collected
    <2>3. QED
      BY <2>1, <2>2, AppendProperties DEF CollectNext
  <1>3. Nat \subseteq Good
    <2> HIDE DEF Good
    <2>1. QED
      BY <1>1, <1>2, Inductive
  <1>4. QED
    BY <1>3

\* The first m entries are the same, as far as the key goes.
Agree(S, V, T, W, m) ==
    \A i \in 1..m : /\ i \in S <=> i \in T
                    /\ i \in S => V[i] = W[i]

LEMMA CollectedSame ==
    ASSUME NEW n \in Nat, NEW S, NEW V, NEW f, Collected(f, n, S, V),
           NEW o \in Nat, NEW T, NEW W, NEW g, Collected(g, o, T, W),
           NEW m \in Nat, m <= n, m <= o, Agree(S, V, T, W, m)
    PROVE  f[m] = g[m]
  <1> DEFINE Good == {d \in Nat : d <= m => f[d] = g[d]}
  <1>1. 0 \in Good
    BY DEF Collected
  <1>2. ASSUME NEW d \in Nat, d \in Good PROVE d + 1 \in Good
    <2> SUFFICES ASSUME d + 1 <= m PROVE f[d + 1] = g[d + 1]
      OBVIOUS
    <2>1. /\ d + 1 \in 1..n /\ d + 1 \in 1..o /\ d + 1 \in 1..m
          /\ d + 1 - 1 = d /\ f[d] = g[d]
      BY <1>2
    <2>2. /\ f[d + 1] = CollectNext(f[d], S, V, d + 1)
          /\ g[d + 1] = CollectNext(g[d], T, W, d + 1)
      BY <2>1 DEF Collected
    <2>3. QED
      BY <2>1, <2>2 DEF CollectNext, Agree
  <1>3. Nat \subseteq Good
    <2> HIDE DEF Good
    <2>1. QED
      BY <1>1, <1>2, Inductive
  <1>4. QED
    BY <1>3

LowerBound(p, S) == \A i \in S : p <= i

\* Before the first place there is nothing.
LEMMA CollectedBefore ==
    ASSUME NEW n \in Nat, NEW S \in SUBSET (1..n), NEW V, NEW f,
           Collected(f, n, S, V), NEW p \in Nat \ {0}, p <= n + 1, LowerBound(p, S),
           NEW q \in Nat, q < p
    PROVE  f[q] = <<>>
  <1> DEFINE Good == {d \in Nat : d < p => f[d] = <<>>}
  <1>1. 0 \in Good
    BY DEF Collected
  <1>2. ASSUME NEW d \in Nat, d \in Good PROVE d + 1 \in Good
    <2> SUFFICES ASSUME d + 1 < p PROVE f[d + 1] = <<>>
      OBVIOUS
    <2>1. d + 1 \in 1..n /\ d + 1 - 1 = d /\ f[d] = <<>> /\ d + 1 \notin S
      BY <1>2 DEF LowerBound
    <2>2. QED
      BY <2>1 DEF Collected, CollectNext
  <1>3. Nat \subseteq Good
    <2> HIDE DEF Good
    <2>1. QED
      BY <1>1, <1>2, Inductive
  <1>4. QED
    BY <1>3

\* From the first place on, the value there is the head.
Gathers(f, n, S, V) ==
    /\ n \in Nat
    /\ S \in SUBSET (1..n)
    /\ V \in [1..n -> Values]
    /\ Collected(f, n, S, V)

LEMMA CollectedFirst ==
    ASSUME NEW f, NEW n, NEW S, NEW V, Gathers(f, n, S, V), NEW p \in S, LowerBound(p, S),
           NEW q \in Nat, p <= q, q <= n
    PROVE  f[q] # <<>> /\ Head(f[q]) = V[p]
  <1>0. n \in Nat /\ S \in SUBSET (1..n) /\ V \in [1..n -> Values] /\ Collected(f, n, S, V)
    BY DEF Gathers
  <1> USE <1>0
  <1> DEFINE Firm == {d \in Nat : p + d <= n => f[p + d] # <<>> /\ Head(f[p + d]) = V[p]}
  <1>1. p \in 1..n /\ p \in Nat \ {0} /\ p <= n + 1 /\ V[p] \in Values
    OBVIOUS
  <1>2. 0 \in Firm
    <2>1. PICK o \in Nat : o = p - 1
      BY <1>1
    <2>2. o < p
      BY <1>1, <2>1
    <2>3. f[o] = <<>>
      BY <1>1, <2>2, CollectedBefore
    <2>4. f[p] = Append(<<>>, V[p])
      BY <1>1, <2>1, <2>3 DEF Collected, CollectNext
    <2>5. <<>> \in Seq(Values)
      BY EmptySeq
    <2>6. Append(<<>>, V[p]) # <<>> /\ Head(Append(<<>>, V[p])) = V[p]
      BY <1>1, <2>5, AppendProperties, HeadTailAppend
    <2>7. f[p] # <<>> /\ Head(f[p]) = V[p]
      BY <2>4, <2>6
    <2>8. p + 0 = p
      BY <1>1
    <2>9. QED
      BY <2>7, <2>8
  <1>3. ASSUME NEW d \in Nat, d \in Firm PROVE d + 1 \in Firm
    <2> SUFFICES ASSUME p + (d + 1) <= n
                 PROVE  f[p + (d + 1)] # <<>> /\ Head(f[p + (d + 1)]) = V[p]
      OBVIOUS
    <2>1. PICK e \in Nat : e = p + d
      BY <1>1
    <2>2. /\ p + (d + 1) = e + 1 /\ e + 1 \in 1..n /\ e + 1 - 1 = e /\ e \in 0..n
          /\ f[e] # <<>> /\ Head(f[e]) = V[p]
      BY <1>1, <1>3, <2>1
    <2>3. f[e] \in Seq(Values) /\ V[e + 1] \in Values
      BY <2>2, CollectedTyped
    <2>4. f[e + 1] = CollectNext(f[e], S, V, e + 1)
      BY <2>2 DEF Collected
    <2>5. /\ Append(f[e], V[e + 1]) # <<>>
          /\ Head(Append(f[e], V[e + 1])) = Head(f[e])
      BY <2>2, <2>3, HeadTailAppend, AppendProperties
    <2>6. QED
      BY <2>2, <2>4, <2>5 DEF CollectNext
  <1>4. Nat \subseteq Firm
    <2> HIDE DEF Firm
    <2>1. QED
      BY <1>2, <1>3, Inductive
  <1>5. q - p \in Nat /\ p + (q - p) = q /\ q <= n
    BY <1>1
  <1>6. QED
    BY <1>4, <1>5

\* There are as many values as places.
LEMMA CollectedLen ==
    ASSUME NEW n \in Nat, NEW S \in SUBSET (1..n), NEW V \in [1..n -> Values], NEW f,
           Collected(f, n, S, V)
    PROVE  Len(f[n]) = Cardinality(S)
  <1> DEFINE Upto(d) == {i \in S : i <= d}
             Good == {d \in Nat : d <= n => /\ IsFiniteSet(Upto(d))
                                            /\ Len(f[d]) = Cardinality(Upto(d))}
  <1>0. \A i \in S : i \in Int /\ 1 <= i /\ i <= n
    OBVIOUS
  <1>1. 0 \in Good
    <2>1. \A i \in S : ~(i <= 0)
      BY <1>0
    <2>2. Upto(0) = {}
      BY <2>1
    <2>3. QED
      BY <2>2, FS_EmptySet DEF Collected
  <1>2. ASSUME NEW d \in Nat, d \in Good PROVE d + 1 \in Good
    <2> SUFFICES ASSUME d + 1 <= n
                 PROVE  IsFiniteSet(Upto(d + 1)) /\ Len(f[d + 1]) = Cardinality(Upto(d + 1))
      OBVIOUS
    <2>1. /\ d + 1 \in 1..n /\ d + 1 - 1 = d /\ d \in 0..n
          /\ IsFiniteSet(Upto(d)) /\ Len(f[d]) = Cardinality(Upto(d))
      BY <1>2
    <2>2. f[d] \in Seq(Values) /\ V[d + 1] \in Values
      BY <2>1, CollectedTyped
    <2>3. f[d + 1] = CollectNext(f[d], S, V, d + 1)
      BY <2>1 DEF Collected
    <2>4. CASE d + 1 \in S
      <3>1. Upto(d + 1) = Upto(d) \union {d + 1} /\ d + 1 \notin Upto(d)
        <4>1. \A i \in S : i <= d + 1 <=> i <= d \/ i = d + 1
          BY <1>0
        <4>2. ~(d + 1 <= d) /\ d + 1 <= d + 1
          OBVIOUS
        <4>3. QED
          BY <2>4, <4>1, <4>2
      <3>2. Len(f[d + 1]) = Len(f[d]) + 1
        BY <2>2, <2>3, <2>4, AppendProperties DEF CollectNext
      <3> HIDE DEF Upto
      <3>3. /\ IsFiniteSet(Upto(d) \union {d + 1})
            /\ Cardinality(Upto(d) \union {d + 1}) = Cardinality(Upto(d)) + 1
        BY <2>1, <3>1, FS_AddElement
      <3>4. QED
        BY <2>1, <3>1, <3>2, <3>3
    <2>5. CASE d + 1 \notin S
      <3>1. Upto(d + 1) = Upto(d)
        <4>1. \A i \in S : i <= d + 1 <=> i <= d \/ i = d + 1
          BY <1>0
        <4>2. QED
          BY <2>5, <4>1
      <3>2. QED
        BY <2>1, <2>3, <2>5, <3>1 DEF CollectNext
    <2>6. QED
      BY <2>4, <2>5
  <1>3. n \in Good
    <2> HIDE DEF Good
    <2>1. QED
      BY <1>1, <1>2, Inductive
  <1>4. Upto(n) = S
    BY <1>0
  <1>5. QED
    BY <1>3, <1>4

\* T and W are S and V without the place p, as far as the key goes.
LeftOut(S, V, T, W, p, n) ==
    /\ Agree(S, V, T, W, p - 1)
    /\ \A i \in p..(n - 1) : /\ i + 1 \in S <=> i \in T
                             /\ i + 1 \in S => V[i + 1] = W[i]

\* The first of the places, or one that is none of them, is left out.
LEMMA CollectedWithout ==
    ASSUME NEW n \in Nat, NEW S \in SUBSET (1..n), NEW V \in [1..n -> Values], NEW f,
           Collected(f, n, S, V), NEW p \in 1..n,
           p \in S => LowerBound(p, S),
           NEW T, NEW W, NEW g, Collected(g, n - 1, T, W), LeftOut(S, V, T, W, p, n)
    PROVE  g[n - 1] = IF p \in S THEN Tail(f[n]) ELSE f[n]
  <1> DEFINE Cut(s) == IF p \in S THEN Tail(s) ELSE s
             Good == {d \in Nat : p + d <= n => g[p + d - 1] = Cut(f[p + d])}
  <1>1. /\ p - 1 \in Nat /\ p - 1 \in 0..(p - 1) /\ p - 1 \in 0..n /\ p - 1 <= n
        /\ p - 1 <= n - 1 /\ n - 1 \in Nat /\ p \in 1..n
    OBVIOUS
  <1>2. g[p - 1] = f[p - 1]
    <2>1. Agree(S, V, T, W, p - 1)
      BY DEF LeftOut
    <2>2. QED
      BY <1>1, <2>1, CollectedSame
  <1>3. p \in S => f[p - 1] = <<>>
    <2> SUFFICES ASSUME p \in S PROVE f[p - 1] = <<>>
      OBVIOUS
    <2>1. p \in Nat \ {0} /\ p <= n + 1 /\ LowerBound(p, S)
      OBVIOUS
    <2>2. PICK q \in Nat : q = p - 1
      BY <1>1
    <2>3. q < p
      BY <2>2
    <2>4. f[q] = <<>>
      BY <2>1, <2>3, CollectedBefore
    <2>5. QED
      BY <2>2, <2>4
  <1>e. ASSUME p \in S, NEW q \in Nat, p <= q, q <= n PROVE f[q] # <<>>
    <2>1. Gathers(f, n, S, V) /\ LowerBound(p, S)
      BY <1>e DEF Gathers
    <2>2. QED
      BY <1>e, <2>1, CollectedFirst
  <1>4. 0 \in Good
    <2>1. f[p] = CollectNext(f[p - 1], S, V, p) /\ p + 0 = p /\ V[p] \in Values
      BY <1>1 DEF Collected
    <2>2. p \in S => Tail(Append(<<>>, V[p])) = <<>>
      BY <2>1, EmptySeq, HeadTailAppend
    <2>3. g[p - 1] = Cut(f[p])
      BY <1>2, <1>3, <2>1, <2>2 DEF CollectNext
    <2>4. p + 0 - 1 = p - 1
      OBVIOUS
    <2> HIDE DEF Cut
    <2>5. QED
      BY <2>1, <2>3, <2>4
  <1>5. ASSUME NEW d \in Nat, d \in Good PROVE d + 1 \in Good
    <2> SUFFICES ASSUME p + (d + 1) <= n
                 PROVE  g[p + (d + 1) - 1] = Cut(f[p + (d + 1)])
      OBVIOUS
    <2>1. PICK e \in Nat : e = p + d
      OBVIOUS
    <2>2. /\ p + (d + 1) = e + 1 /\ p + (d + 1) - 1 = e /\ p + d - 1 = e - 1
          /\ e + 1 \in 1..n /\ e + 1 - 1 = e /\ e \in 0..n /\ e \in p..(n - 1)
          /\ e \in 1..(n - 1) /\ e + 1 # p
      BY <2>1
    <2>3. g[e - 1] = Cut(f[e])
      BY <1>5, <2>1, <2>2
    <2>4. g[e] = CollectNext(g[e - 1], T, W, e)
      BY <2>2 DEF Collected
    <2>5. f[e + 1] = CollectNext(f[e], S, V, e + 1)
      BY <2>2 DEF Collected
    <2>6. (e + 1 \in S <=> e \in T) /\ (e + 1 \in S => V[e + 1] = W[e])
      BY <2>2 DEF LeftOut
    <2>7. f[e] \in Seq(Values) /\ V[e + 1] \in Values
      BY <2>2, CollectedTyped
    <2>8. p \in S => f[e] # <<>>
      <3>1. p <= e /\ e <= n
        BY <2>2
      <3>2. QED
        BY <1>e, <3>1
    <2>9. p \in S => Tail(Append(f[e], V[e + 1])) = Append(Tail(f[e]), V[e + 1])
      BY <2>7, <2>8, HeadTailAppend
    <2>10. g[e] = Cut(f[e + 1])
      BY <2>3, <2>4, <2>5, <2>6, <2>9 DEF CollectNext
    <2> HIDE DEF Cut
    <2>11. QED
      BY <2>2, <2>10
  <1>6. n - p \in Good
    <2>1. n - p \in Nat
      OBVIOUS
    <2> HIDE DEF Good
    <2>2. QED
      BY <1>4, <1>5, <2>1, Inductive
  <1>7. p + (n - p) = n
    OBVIOUS
  <1> HIDE DEF Cut
  <1>8. g[n - 1] = Cut(f[n])
    BY <1>6, <1>7
  <1>9. QED
    BY <1>8 DEF Cut

\* The pairs of a dictionary, each as its key and its place among those of the
\* key.
PairsOf(d) == UNION {{<<k, i>> : i \in DOMAIN d[k]} : k \in Keys}

LEMMA InPairsOf ==
    ASSUME NEW d, NEW p
    PROVE  p \in PairsOf(d) <=> \E k \in Keys : \E i \in DOMAIN d[k] : p = <<k, i>>
  <1> DEFINE of(k) == {<<k, i>> : i \in DOMAIN d[k]}
  <1>1. p \in UNION {of(k) : k \in Keys} <=> \E k \in Keys : p \in of(k)
    <2> HIDE DEF of
    <2>1. QED
      OBVIOUS
  <1>2. PairsOf(d) = UNION {of(k) : k \in Keys}
    BY DEF PairsOf
  <1>3. QED
    BY <1>1, <1>2

\* F[k] collects the places S[k], and each place has one key at most: there
\* are as many pairs as places.
LEMMA PairsCounted ==
    ASSUME NEW n \in Nat, NEW V \in [1..n -> Values],
           NEW S \in [Keys -> SUBSET (1..n)], NEW F,
           \A k \in Keys : Collected(F[k], n, S[k], V),
           \A i \in 1..n : \A k, l \in Keys : i \in S[k] /\ i \in S[l] => k = l,
           NEW d, \A k \in Keys : d[k] = F[k][n],
           NEW U, U = {i \in 1..n : \E k \in Keys : i \in S[k]}
    PROVE  Cardinality(PairsOf(d)) = Cardinality(U)
  <1> DEFINE D(m) == [k \in Keys |-> F[k][m]]
             Upto(m) == {i \in U : i <= m}
             Good == {m \in Nat : m <= n => /\ IsFiniteSet(PairsOf(D(m)))
                                            /\ IsFiniteSet(Upto(m))
                                            /\ Cardinality(PairsOf(D(m))) = Cardinality(Upto(m))}
  <1>0. \A i \in U : i \in Int /\ 1 <= i /\ i <= n
    OBVIOUS
  <1>1. 0 \in Good
    <2>1. Upto(0) = {}
      BY <1>0
    <2>2. \A k \in Keys : D(0)[k] = <<>>
      BY DEF Collected
    <2>3. DOMAIN <<>> = {}
      OBVIOUS
    <2> HIDE DEF D
    <2>4. PairsOf(D(0)) = {}
      BY <2>2, <2>3, InPairsOf
    <2> HIDE DEF Upto
    <2>5. QED
      BY <2>1, <2>4, FS_EmptySet
  <1>2. ASSUME NEW m \in Nat, m \in Good PROVE m + 1 \in Good
    <2> SUFFICES ASSUME m + 1 <= n
                 PROVE  /\ IsFiniteSet(PairsOf(D(m + 1)))
                        /\ IsFiniteSet(Upto(m + 1))
                        /\ Cardinality(PairsOf(D(m + 1))) = Cardinality(Upto(m + 1))
      OBVIOUS
    <2>1. /\ IsFiniteSet(PairsOf(D(m))) /\ IsFiniteSet(Upto(m))
          /\ Cardinality(PairsOf(D(m))) = Cardinality(Upto(m))
          /\ m + 1 \in 1..n /\ m + 1 - 1 = m /\ m \in 0..n
      BY <1>2
    <2>2. \A k \in Keys : D(m + 1)[k] = CollectNext(D(m)[k], S[k], V, m + 1)
      BY <2>1 DEF Collected
    <2>3. \A k \in Keys : D(m)[k] \in Seq(Values)
      <3> SUFFICES ASSUME NEW k \in Keys PROVE F[k][m] \in Seq(Values)
        OBVIOUS
      <3>1. PICK R, f : R = S[k] /\ f = F[k] /\ R \in SUBSET (1..n)
        OBVIOUS
      <3>2. Collected(f, n, R, V)
        BY <3>1
      <3>3. QED
        BY <2>1, <3>1, <3>2, CollectedTyped
    <2>4. V[m + 1] \in Values
      BY <2>1
    <2>5. CASE m + 1 \in U
      <3>1. PICK k \in Keys : m + 1 \in S[k]
        BY <2>5
      <3>2. \A l \in Keys : l # k => m + 1 \notin S[l]
        BY <2>1, <3>1
      <3>3. PICK j \in Nat : j = Len(D(m)[k]) + 1
        <4>1. Len(D(m)[k]) \in Nat
          BY <2>3, LenProperties
        <4> HIDE DEF D
        <4>2. QED
          BY <4>1
      <3> HIDE DEF D
      <3>4. /\ DOMAIN D(m)[k] = 1..(j - 1) /\ DOMAIN D(m + 1)[k] = 1..j /\ j > 0
            /\ \A l \in Keys : l # k => D(m + 1)[l] = D(m)[l]
        <4>1. PICK s \in Seq(Values) : s = D(m)[k]
          BY <2>3
        <4>2. Len(s) \in Nat /\ DOMAIN s = 1..Len(s) /\ Len(s) = j - 1
          BY <3>3, <4>1, LenProperties
        <4>3. PICK t \in Seq(Values) : t = Append(s, V[m + 1]) /\ Len(t) = Len(s) + 1
          BY <2>4, AppendProperties
        <4>4. DOMAIN t = 1..Len(t)
          BY <4>3, LenProperties
        <4>5. D(m + 1)[k] = t
          BY <2>2, <3>1, <4>1, <4>3 DEF CollectNext
        <4>6. \A l \in Keys : l # k => D(m + 1)[l] = D(m)[l]
          BY <2>2, <3>2 DEF CollectNext
        <4>7. QED
          BY <4>1, <4>2, <4>3, <4>4, <4>5, <4>6
      <3>5. PairsOf(D(m + 1)) = PairsOf(D(m)) \union {<<k, j>>}
        <4>1. ASSUME NEW p
              PROVE  p \in PairsOf(D(m + 1)) <=> p \in PairsOf(D(m)) \/ p = <<k, j>>
          <5>1. p \in PairsOf(D(m + 1)) => p \in PairsOf(D(m)) \/ p = <<k, j>>
            <6> SUFFICES ASSUME p \in PairsOf(D(m + 1)), p # <<k, j>> PROVE p \in PairsOf(D(m))
              OBVIOUS
            <6>1. PICK l \in Keys : \E i \in DOMAIN D(m + 1)[l] : p = <<l, i>>
              BY InPairsOf
            <6>2. PICK i \in DOMAIN D(m + 1)[l] : p = <<l, i>>
              BY <6>1
            <6>3. i \in DOMAIN D(m)[l]
              BY <3>4, <6>2
            <6>4. QED
              BY <6>2, <6>3, InPairsOf
          <5>2. p \in PairsOf(D(m)) => p \in PairsOf(D(m + 1))
            <6> SUFFICES ASSUME p \in PairsOf(D(m)) PROVE p \in PairsOf(D(m + 1))
              OBVIOUS
            <6>1. PICK l \in Keys : \E i \in DOMAIN D(m)[l] : p = <<l, i>>
              BY InPairsOf
            <6>2. PICK i \in DOMAIN D(m)[l] : p = <<l, i>>
              BY <6>1
            <6>3. i \in DOMAIN D(m + 1)[l]
              BY <3>4, <6>2
            <6>4. QED
              BY <6>2, <6>3, InPairsOf
          <5>3. <<k, j>> \in PairsOf(D(m + 1))
            <6>1. j \in DOMAIN D(m + 1)[k]
              BY <3>4
            <6>2. QED
              BY <6>1, InPairsOf
          <5>4. QED
            BY <5>1, <5>2, <5>3
        <4>2. QED
          BY <4>1
      <3>6. <<k, j>> \notin PairsOf(D(m))
        <4> SUFFICES ASSUME <<k, j>> \in PairsOf(D(m)) PROVE FALSE
          OBVIOUS
        <4>1. PICK l \in Keys : \E i \in DOMAIN D(m)[l] : <<k, j>> = <<l, i>>
          BY InPairsOf
        <4>2. j \in 1..(j - 1)
          BY <3>4, <4>1
        <4>3. QED
          BY <4>2
      <3>7. Upto(m + 1) = Upto(m) \union {m + 1} /\ m + 1 \notin Upto(m)
        BY <1>0, <2>5
      <3> HIDE DEF Upto
      <3>8. /\ IsFiniteSet(PairsOf(D(m)) \union {<<k, j>>})
            /\ Cardinality(PairsOf(D(m)) \union {<<k, j>>}) = Cardinality(PairsOf(D(m))) + 1
        BY <2>1, <3>6, FS_AddElement
      <3>9. /\ IsFiniteSet(Upto(m) \union {m + 1})
            /\ Cardinality(Upto(m) \union {m + 1}) = Cardinality(Upto(m)) + 1
        BY <2>1, <3>7, FS_AddElement
      <3>10. QED
        BY <2>1, <3>5, <3>7, <3>8, <3>9
    <2>6. CASE m + 1 \notin U
      <3>1. \A k \in Keys : m + 1 \notin S[k]
        BY <2>1, <2>6
      <3>2. D(m + 1) = D(m)
        BY <2>2, <3>1 DEF CollectNext
      <3>3. Upto(m + 1) = Upto(m)
        BY <1>0, <2>6
      <3> HIDE DEF D, Upto
      <3>4. QED
        BY <2>1, <3>2, <3>3
    <2>7. QED
      BY <2>5, <2>6
  <1>3. n \in Good
    <2> HIDE DEF Good
    <2>1. QED
      BY <1>1, <1>2, Inductive
  <1>4. Upto(n) = U
    BY <1>0
  <1>5. PairsOf(D(n)) = PairsOf(d)
    <2>1. \A k \in Keys : D(n)[k] = d[k]
      OBVIOUS
    <2> HIDE DEF D
    <2>2. \A p : p \in PairsOf(D(n)) <=> p \in PairsOf(d)
      BY <2>1, InPairsOf
    <2>3. QED
      BY <2>2
  <1>6. Cardinality(PairsOf(D(n))) = Cardinality(Upto(n))
    BY <1>3
  <1> HIDE DEF D, Upto
  <1>7. QED
    BY <1>4, <1>5, <1>6

-----------------------------------------------------------------------------
(* The columns of one map, and what the methods do to them.                *)

\* The entries of m hold what entries should.
Held(m, hp) ==
    /\ m.entries \in Seq(Entries)
    /\ \A i \in 1..Len(m.entries) :
          /\ m.entries[i].key # Null => hp[m.entries[i].key] \in Keys
          /\ hp[m.entries[i].value] \in Values

\* hp and hp2 are the same as far as the entries of m but that at p go.
Untouched(m, hp, hp2, p) ==
    \A i \in 1..Len(m.entries) : i # p =>
        /\ m.entries[i].key # Null => hp2[m.entries[i].key] = hp[m.entries[i].key]
        /\ hp2[m.entries[i].value] = hp[m.entries[i].value]

Lost(m) == {i \in 1..Len(m.entries) : m.entries[i].key = Null}

LEMMA HeldParts ==
    ASSUME NEW m, NEW hp, Held(m, hp), NEW k
    PROVE  \E n \in Nat :
              /\ n = Len(m.entries)
              /\ PlacesOf(m, hp, k) \in SUBSET (1..n)
              /\ ValuesOf(m, hp) \in [1..n -> Values]
              /\ \E f : /\ Collected(f, n, PlacesOf(m, hp, k), ValuesOf(m, hp))
                        /\ ColumnOf(m, hp, k) = f[n]
  <1>1. PICK n \in Nat : n = Len(m.entries)
    BY LenProperties DEF Held
  <1>2. PlacesOf(m, hp, k) \in SUBSET (1..n) /\ ValuesOf(m, hp) \in [1..n -> Values]
    BY <1>1 DEF Held, PlacesOf, ValuesOf
  <1>3. \E f : /\ Collected(f, n, PlacesOf(m, hp, k), ValuesOf(m, hp))
               /\ ColumnOf(m, hp, k) = f[n]
    BY <1>1, ColumnUnfolds
  <1>4. QED
    BY <1>1, <1>2, <1>3

LEMMA ColumnTyped ==
    ASSUME NEW m, NEW hp, Held(m, hp), NEW k
    PROVE  ColumnOf(m, hp, k) \in Seq(Values)
  <1>1. PICK n \in Nat :
              /\ n = Len(m.entries)
              /\ PlacesOf(m, hp, k) \in SUBSET (1..n)
              /\ ValuesOf(m, hp) \in [1..n -> Values]
              /\ \E f : /\ Collected(f, n, PlacesOf(m, hp, k), ValuesOf(m, hp))
                        /\ ColumnOf(m, hp, k) = f[n]
    BY HeldParts
  <1>2. PICK f : /\ Collected(f, n, PlacesOf(m, hp, k), ValuesOf(m, hp))
                 /\ ColumnOf(m, hp, k) = f[n]
    BY <1>1
  <1>3. n \in 0..n
    OBVIOUS
  <1>4. \A i \in 0..n : f[i] \in Seq(Values)
    BY <1>1, <1>2, CollectedTyped
  <1>5. QED
    BY <1>2, <1>3, <1>4

\* The same entries, and the same heap as far as they go.
LEMMA ColumnSame ==
    ASSUME NEW m, NEW hp, Held(m, hp), NEW k, NEW o, NEW hp2,
           o.entries = m.entries, Untouched(m, hp, hp2, 0)
    PROVE  ColumnOf(o, hp2, k) = ColumnOf(m, hp, k)
  <1>1. PICK n \in Nat : n = Len(m.entries)
    BY LenProperties DEF Held
  <1>2. \A i \in 1..n : i # 0
    OBVIOUS
  <1>3. PlacesOf(o, hp2, k) = PlacesOf(m, hp, k) /\ ValuesOf(o, hp2) = ValuesOf(m, hp)
    BY <1>1, <1>2 DEF PlacesOf, ValuesOf, Untouched
  <1>4. PICK S, V : S = PlacesOf(m, hp, k) /\ V = ValuesOf(m, hp)
    OBVIOUS
  <1>5. PICK f : Collected(f, n, S, V) /\ ColumnOf(m, hp, k) = f[n]
    BY <1>1, <1>4, ColumnUnfolds
  <1>6. PICK g : Collected(g, n, S, V) /\ ColumnOf(o, hp2, k) = g[n]
    BY <1>1, <1>3, <1>4, ColumnUnfolds
  <1>7. Agree(S, V, S, V, n) /\ n <= n
    BY DEF Agree
  <1>8. QED
    BY <1>5, <1>6, <1>7, CollectedSame

LEMMA ColumnEmpty ==
    ASSUME NEW m, NEW hp, NEW k, m.entries = <<>>
    PROVE  ColumnOf(m, hp, k) = <<>>
  <1>1. Len(m.entries) = 0
    BY EmptySeq
  <1>2. PICK f : Collected(f, 0, PlacesOf(m, hp, k), ValuesOf(m, hp)) /\ ColumnOf(m, hp, k) = f[0]
    BY <1>1, ColumnUnfolds
  <1>3. QED
    BY <1>2 DEF Collected

\* o has the entries of m and one more.
Gains(o, m, e) == e \in Entries /\ o.entries = Append(m.entries, e)

LEMMA ColumnAppended ==
    ASSUME NEW m, NEW hp, Held(m, hp), NEW k, NEW o, NEW hp2, NEW e,
           Gains(o, m, e), Untouched(m, hp, hp2, 0)
    PROVE  ColumnOf(o, hp2, k) =
              IF e.key # Null /\ hp2[e.key] = k
              THEN Append(ColumnOf(m, hp, k), hp2[e.value])
              ELSE ColumnOf(m, hp, k)
  <1>1. PICK n \in Nat : n = Len(m.entries)
    BY LenProperties DEF Held
  <1>2. /\ Len(o.entries) = n + 1 /\ o.entries[n + 1] = e
        /\ \A i \in 1..n : o.entries[i] = m.entries[i]
    BY <1>1, AppendProperties DEF Held, Gains
  <1>3. PICK S, V : S = PlacesOf(m, hp, k) /\ V = ValuesOf(m, hp)
    OBVIOUS
  <1>4. PICK T, W : T = PlacesOf(o, hp2, k) /\ W = ValuesOf(o, hp2)
    OBVIOUS
  <1>5. PICK f : Collected(f, n, S, V) /\ ColumnOf(m, hp, k) = f[n]
    BY <1>1, <1>3, ColumnUnfolds
  <1>6. PICK g : Collected(g, n + 1, T, W) /\ ColumnOf(o, hp2, k) = g[n + 1]
    <2>1. n + 1 \in Nat
      OBVIOUS
    <2>2. QED
      BY <1>2, <1>4, <2>1, ColumnUnfolds
  <1>7. Agree(S, V, T, W, n)
    <2>1. \A i \in 1..n : i \in 1..(n + 1) /\ i # 0
      OBVIOUS
    <2>2. QED
      BY <1>1, <1>2, <1>3, <1>4, <2>1 DEF Agree, PlacesOf, ValuesOf, Untouched
  <1>8. f[n] = g[n]
    <2>1. n <= n /\ n <= n + 1 /\ n + 1 \in Nat
      OBVIOUS
    <2>2. QED
      BY <1>5, <1>6, <1>7, <2>1, CollectedSame
  <1>9. n + 1 \in 1..(n + 1) /\ n + 1 - 1 = n
    OBVIOUS
  <1>10. g[n + 1] = CollectNext(g[n], T, W, n + 1)
    BY <1>6, <1>9 DEF Collected
  <1>11. /\ n + 1 \in T <=> e.key # Null /\ hp2[e.key] = k
         /\ W[n + 1] = hp2[e.value]
    BY <1>2, <1>4, <1>9 DEF PlacesOf, ValuesOf
  <1>12. QED
    BY <1>5, <1>6, <1>8, <1>10, <1>11 DEF CollectNext

\* o has the entries of m but that at p.
Lacks(o, m, p) ==
    /\ o.entries \in Seq(Entries) /\ Len(o.entries) = Len(m.entries) - 1
    /\ \A j \in 1..Len(o.entries) : o.entries[j] = m.entries[IF j < p THEN j ELSE j + 1]

\* The entry at p is taken out, which is the first with its key.
LEMMA ColumnWithout ==
    ASSUME NEW m, NEW hp, Held(m, hp), NEW k, NEW o, NEW hp2, NEW p \in 1..Len(m.entries),
           Lacks(o, m, p), Untouched(m, hp, hp2, p),
           p \in PlacesOf(m, hp, k) => LowerBound(p, PlacesOf(m, hp, k))
    PROVE  ColumnOf(o, hp2, k) = IF p \in PlacesOf(m, hp, k) THEN Tail(ColumnOf(m, hp, k))
                                 ELSE ColumnOf(m, hp, k)
  <1>1. PICK n \in Nat : n = Len(m.entries)
    BY LenProperties DEF Held
  <1>2. Len(o.entries) = n - 1 /\ n - 1 \in Nat /\ p \in 1..n
    BY <1>1 DEF Lacks
  <1>3. \A j \in 1..(n - 1) : o.entries[j] = m.entries[IF j < p THEN j ELSE j + 1]
    BY <1>2 DEF Lacks
  <1>4. PICK S, V : S = PlacesOf(m, hp, k) /\ V = ValuesOf(m, hp)
    OBVIOUS
  <1>5. PICK T, W : T = PlacesOf(o, hp2, k) /\ W = ValuesOf(o, hp2)
    OBVIOUS
  <1>6. S \in SUBSET (1..n) /\ V \in [1..n -> Values]
    BY <1>1, <1>4 DEF Held, PlacesOf, ValuesOf
  <1>7. PICK f : Collected(f, n, S, V) /\ ColumnOf(m, hp, k) = f[n]
    BY <1>1, <1>4, ColumnUnfolds
  <1>8. PICK g : Collected(g, n - 1, T, W) /\ ColumnOf(o, hp2, k) = g[n - 1]
    BY <1>2, <1>5, ColumnUnfolds
  <1>9. ASSUME NEW j \in 1..(n - 1), NEW i \in 1..n, i # p,
               o.entries[j] = m.entries[i]
        PROVE  /\ i \in S <=> j \in T
               /\ V[i] = W[j]
    BY <1>1, <1>2, <1>4, <1>5, <1>9 DEF PlacesOf, ValuesOf, Untouched
  <1>10. LeftOut(S, V, T, W, p, n)
    <2>1. ASSUME NEW i \in 1..(p - 1) PROVE (i \in S <=> i \in T) /\ V[i] = W[i]
      <3>1. i \in 1..(n - 1) /\ i \in 1..n /\ i # p /\ i < p
        BY <1>2
      <3>2. o.entries[i] = m.entries[i]
        BY <1>3, <3>1
      <3>3. QED
        BY <1>9, <3>1, <3>2
    <2>2. ASSUME NEW i \in p..(n - 1) PROVE (i + 1 \in S <=> i \in T) /\ V[i + 1] = W[i]
      <3>1. i \in 1..(n - 1) /\ i + 1 \in 1..n /\ i + 1 # p /\ ~(i < p)
        BY <1>2
      <3>2. o.entries[i] = m.entries[i + 1]
        BY <1>3, <3>1
      <3>3. QED
        BY <1>9, <3>1, <3>2
    <2>3. QED
      BY <2>1, <2>2 DEF LeftOut, Agree
  <1>11. g[n - 1] = IF p \in S THEN Tail(f[n]) ELSE f[n]
    BY <1>2, <1>4, <1>6, <1>7, <1>8, <1>10, CollectedWithout
  <1>12. QED
    BY <1>4, <1>7, <1>8, <1>11

\* The entry at p changes, and has neither before nor after the key k.
LEMMA ColumnElsewhere ==
    ASSUME NEW m, NEW hp, Held(m, hp), NEW k, NEW o, NEW hp2, NEW p,
           o.entries = m.entries, Untouched(m, hp, hp2, p),
           p \notin PlacesOf(m, hp, k), p \notin PlacesOf(o, hp2, k)
    PROVE  ColumnOf(o, hp2, k) = ColumnOf(m, hp, k)
  <1>1. PICK n \in Nat : n = Len(m.entries)
    BY LenProperties DEF Held
  <1>2. PICK S, V : S = PlacesOf(m, hp, k) /\ V = ValuesOf(m, hp)
    OBVIOUS
  <1>3. PICK T, W : T = PlacesOf(o, hp2, k) /\ W = ValuesOf(o, hp2)
    OBVIOUS
  <1>4. PICK f : Collected(f, n, S, V) /\ ColumnOf(m, hp, k) = f[n]
    BY <1>1, <1>2, ColumnUnfolds
  <1>5. PICK g : Collected(g, n, T, W) /\ ColumnOf(o, hp2, k) = g[n]
    BY <1>1, <1>3, ColumnUnfolds
  <1>6. Agree(S, V, T, W, n)
    BY <1>1, <1>2, <1>3 DEF Agree, PlacesOf, ValuesOf, Untouched
  <1>7. n <= n
    OBVIOUS
  <1>8. QED
    BY <1>4, <1>5, <1>6, <1>7, CollectedSame

\* What a search for k finds.
LEMMA ColumnRead ==
    ASSUME NEW m, NEW hp, Held(m, hp), NEW k
    PROVE  /\ PlacesOf(m, hp, k) = {} => ColumnOf(m, hp, k) = <<>>
           /\ \A p \in PlacesOf(m, hp, k) : LowerBound(p, PlacesOf(m, hp, k)) =>
                 /\ ColumnOf(m, hp, k) # <<>>
                 /\ Head(ColumnOf(m, hp, k)) = hp[m.entries[p].value]
           /\ Len(ColumnOf(m, hp, k)) = Cardinality(PlacesOf(m, hp, k))
  <1>1. PICK n \in Nat :
              /\ n = Len(m.entries)
              /\ PlacesOf(m, hp, k) \in SUBSET (1..n)
              /\ ValuesOf(m, hp) \in [1..n -> Values]
              /\ \E f : /\ Collected(f, n, PlacesOf(m, hp, k), ValuesOf(m, hp))
                        /\ ColumnOf(m, hp, k) = f[n]
    BY HeldParts
  <1>2. PICK S \in SUBSET (1..n), V \in [1..n -> Values] :
            S = PlacesOf(m, hp, k) /\ V = ValuesOf(m, hp)
    BY <1>1
  <1>3. PICK f : Collected(f, n, S, V) /\ ColumnOf(m, hp, k) = f[n]
    BY <1>1, <1>2
  <1>4. ASSUME S = {} PROVE f[n] = <<>>
    <2>1. PICK p \in Nat \ {0} : p = n + 1
      OBVIOUS
    <2>2. p <= n + 1 /\ n < p /\ LowerBound(p, S)
      BY <1>4, <2>1 DEF LowerBound
    <2>3. QED
      BY <1>3, <2>2, CollectedBefore
  <1>5. ASSUME NEW p \in S, LowerBound(p, S) PROVE f[n] # <<>> /\ Head(f[n]) = V[p]
    <2>1. p <= n /\ n <= n
      OBVIOUS
    <2>2. Gathers(f, n, S, V)
      BY <1>3 DEF Gathers
    <2>3. QED
      BY <1>5, <2>1, <2>2, CollectedFirst
  <1>6. Len(f[n]) = Cardinality(S)
    BY <1>3, CollectedLen
  <1>7. \A p \in S : V[p] = hp[m.entries[p].value]
    BY <1>1, <1>2 DEF ValuesOf
  <1>8. QED
    BY <1>2, <1>3, <1>4, <1>5, <1>6, <1>7

LEMMA OneElement ==
    ASSUME NEW s \in Seq(Values), s # <<>>, Len(s) <= 1
    PROVE  s = <<Head(s)>>
  <1>0. Len(s) \in Nat \ {0}
    BY EmptySeq, Zenon
  <1>1. Len(s) = 1
    <2>1. PICK n \in Nat \ {0} : n = Len(s)
      BY <1>0
    <2>2. n <= 1
      BY <2>1
    <2>3. n = 1
      BY <2>2
    <2>4. QED
      BY <2>1, <2>3
  <1>2. Head(s) = s[1] /\ s[1] \in Values
    BY <1>1, ElementOfSeq
  <1>3. PICK x \in Values : x = Head(s)
    BY <1>2
  <1>4. <<x>> \in Seq(Values) /\ Len(<<x>>) = 1 /\ <<x>>[1] = x
    OBVIOUS
  <1>5. PICK t \in Seq(Values) : t = <<x>>
    BY <1>4
  <1>6. Len(t) = 1 /\ t[1] = s[1]
    BY <1>2, <1>3, <1>4, <1>5
  <1>7. \A i \in 1..Len(s) : s[i] = t[i]
    BY <1>1, <1>6
  <1>8. s = t
    BY <1>1, <1>6, <1>7, SeqEqual
  <1>9. QED
    BY <1>3, <1>5, <1>8

\* The value of the entry at p becomes x, which is the only one with its key.
LEMMA ColumnOverwritten ==
    ASSUME NEW m, NEW hp, Held(m, hp), NEW k, NEW o, NEW hp2, Held(o, hp2),
           NEW p \in PlacesOf(m, hp, k), LowerBound(p, PlacesOf(m, hp, k)),
           o.entries = m.entries, Untouched(m, hp, hp2, p),
           hp2[m.entries[p].key] = k,
           Len(ColumnOf(m, hp, k)) <= 1
    PROVE  ColumnOf(o, hp2, k) = <<hp2[m.entries[p].value]>>
  <1>1. PlacesOf(o, hp2, k) = PlacesOf(m, hp, k)
    BY DEF PlacesOf, Untouched
  <1>2. PICK s \in Seq(Values) : s = ColumnOf(o, hp2, k)
    BY ColumnTyped
  <1>3. Len(ColumnOf(m, hp, k)) = Cardinality(PlacesOf(m, hp, k))
    BY ColumnRead
  <1>4. /\ Len(s) = Cardinality(PlacesOf(o, hp2, k))
        /\ \A q \in PlacesOf(o, hp2, k) : LowerBound(q, PlacesOf(o, hp2, k)) =>
              s # <<>> /\ Head(s) = hp2[o.entries[q].value]
    BY <1>2, ColumnRead
  <1>5. s # <<>> /\ Head(s) = hp2[m.entries[p].value] /\ Len(s) <= 1
    BY <1>1, <1>3, <1>4
  <1>6. QED
    BY <1>2, <1>5, OneElement

\* As many pairs as entries that have a key.
LEMMA SizeIs ==
    ASSUME NEW m, NEW hp, Held(m, hp),
           NEW d, \A k \in Keys : d[k] = ColumnOf(m, hp, k)
    PROVE  /\ Cardinality(PairsOf(d)) + Cardinality(Lost(m)) = Len(m.entries)
           /\ Cardinality(Lost(m)) \in Nat
  <1>1. PICK n \in Nat : n = Len(m.entries)
    BY LenProperties DEF Held
  <1>2. PICK V : V = ValuesOf(m, hp)
    OBVIOUS
  <1>3. V \in [1..n -> Values]
    BY <1>1, <1>2 DEF ValuesOf, Held
  <1> DEFINE P == [k \in Keys |-> PlacesOf(m, hp, k)]
             F == [k \in Keys |-> CHOOSE f : /\ Collected(f, n, PlacesOf(m, hp, k), V)
                                             /\ ColumnOf(m, hp, k) = f[n]]
             U == {i \in 1..n : \E k \in Keys : i \in P[k]}
  <1>4. P \in [Keys -> SUBSET (1..n)]
    BY <1>1 DEF PlacesOf
  <1>5. \A k \in Keys : Collected(F[k], n, P[k], V) /\ d[k] = F[k][n]
    <2> SUFFICES ASSUME NEW k \in Keys
                 PROVE  Collected(F[k], n, P[k], V) /\ d[k] = F[k][n]
      OBVIOUS
    <2>1. \E f : Collected(f, n, PlacesOf(m, hp, k), V) /\ ColumnOf(m, hp, k) = f[n]
      BY <1>1, <1>2, ColumnUnfolds
    <2>2. Collected(F[k], n, PlacesOf(m, hp, k), V) /\ ColumnOf(m, hp, k) = F[k][n]
      BY <2>1, Zenon
    <2>3. QED
      BY <2>2
  <1>6. \A i \in 1..n : \A k, l \in Keys : i \in P[k] /\ i \in P[l] => k = l
    BY DEF PlacesOf
  <1>7. U = (1..n) \ Lost(m)
    <2>1. \A i \in 1..n : i \in U <=> m.entries[i].key # Null
      BY <1>1 DEF PlacesOf, Held
    <2>2. \A i \in 1..n : i \in Lost(m) <=> m.entries[i].key = Null
      BY <1>1 DEF Lost
    <2> HIDE DEF P
    <2>3. QED
      BY <2>1, <2>2
  <1> HIDE DEF P, F
  <1>8. Cardinality(PairsOf(d)) = Cardinality(U)
    <2>1. PICK W : W = U
      OBVIOUS
    <2>2. \A k \in Keys : Collected(F[k], n, P[k], V)
      BY <1>5
    <2>3. \A k \in Keys : d[k] = F[k][n]
      BY <1>5
    <2>4. Cardinality(PairsOf(d)) = Cardinality(W)
      BY <1>3, <1>4, <1>6, <2>1, <2>2, <2>3, PairsCounted
    <2>5. QED
      BY <2>1, <2>4
  <1> HIDE DEF U
  <1>9. IsFiniteSet(1..n) /\ Cardinality(1..n) = n
    <2>1. 1 \in Int /\ n \in Int /\ (1 > n => n = 0)
      OBVIOUS
    <2>2. QED
      BY <2>1, FS_Interval
  <1>10. Lost(m) \in SUBSET (1..n)
    BY <1>1 DEF Lost
  <1>11. IsFiniteSet(Lost(m)) /\ Cardinality(Lost(m)) \in Nat
    BY <1>9, <1>10, FS_Subset, FS_CardinalityType
  <1>12. Cardinality((1..n) \ Lost(m)) = n - Cardinality((1..n) \intersect Lost(m))
    BY <1>9, FS_Difference
  <1>13. (1..n) \intersect Lost(m) = Lost(m)
    BY <1>10
  <1>14. Cardinality(PairsOf(d)) = n - Cardinality(Lost(m))
    BY <1>7, <1>8, <1>12, <1>13, Zenon
  <1>15. PICK c \in Nat : c = Cardinality(Lost(m))
    BY <1>11
  <1>16. n - c + c = n
    OBVIOUS
  <1>17. QED
    BY <1>1, <1>11, <1>14, <1>15, <1>16

-----------------------------------------------------------------------------
(* The dictionaries.                                                       *)

\* The dictionaries that maps M are, with hp the heap, and the pairs in them
\* whose key was lost.
DictOf(M, hp) == [h \in Handles |-> [k \in Keys |-> ColumnOf(M[h], hp, k)]]

LostOf(M) ==
    [h \in Handles |-> Cardinality({i \in InUse(M[h]) : M[h].entries[i].key = Null})]

\* The actions of the abstract specification, without its refinement mapping.
LEMMA SeenCalled ==
    \A op, args, denied : Seen!Called(op, args, denied) <=> Called(op, args, denied)
  BY Zenon DEF Seen!Called, Seen!CallAfter, Called, CallAfter

LEMMA SeenForms ==
    /\ \A op, args, denied : Seen!Nothing(op, args, denied) <=>
          /\ Called(op, args, denied)
          /\ DictOf(map', heap') = DictOf(map, heap) /\ LostOf(map') = LostOf(map)
          /\ multi' = multi /\ out' = out
    /\ \A h, k, s : Seen!Becomes(h, k, s) <=>
          /\ DictOf(map', heap') = [DictOf(map, heap) EXCEPT ![h][k] = s]
          /\ multi' = multi /\ LostOf(map') = LostOf(map) /\ out' = out
    /\ \A h, k, x : Seen!Put(h, k, x) <=>
          /\ Called("Put", <<h, k, x>>, {})
          /\ Seen!Becomes(h, k, IF multi THEN Append(DictOf(map, heap)[h][k], x) ELSE <<x>>)
    /\ \A h, k : Seen!Stores(h, k) <=> multi \/ DictOf(map, heap)[h][k] = <<>>
    /\ \A h, k, x : Seen!PutLosingKey(h, k, x) <=>
          /\ Seen!Stores(h, k)
          /\ Called("Put", <<h, k, x>>, {"key"})
          /\ LostOf(map') = [LostOf(map) EXCEPT ![h] = @ + 1]
          /\ multi' = multi /\ DictOf(map', heap') = DictOf(map, heap) /\ out' = out
    /\ \A h, k : Seen!Erase(h, k) <=>
          /\ Called("Erase", <<h, k>>, {})
          /\ Seen!Becomes(h, k, IF DictOf(map, heap)[h][k] = <<>> THEN <<>>
                                ELSE Tail(DictOf(map, heap)[h][k]))
    /\ \A h : Seen!Emptied(h) <=>
          /\ DictOf(map', heap') = [DictOf(map, heap) EXCEPT ![h] = [k \in Keys |-> <<>>]]
          /\ LostOf(map') = [LostOf(map) EXCEPT ![h] = 0]
          /\ multi' = multi /\ out' = out
    /\ \A h : Seen!Clear(h) <=> Called("Clear", <<h>>, {}) /\ Seen!Emptied(h)
    /\ \A h : Seen!Destroy(h) <=> Called("Destroy", <<h>>, {}) /\ Seen!Emptied(h)
    /\ \A g, h : Seen!Swap(g, h) <=>
          /\ Called("Swap", <<g, h>>, {})
          /\ DictOf(map', heap') = [DictOf(map, heap) EXCEPT ![g] = DictOf(map, heap)[h],
                                                             ![h] = DictOf(map, heap)[g]]
          /\ LostOf(map') = [LostOf(map) EXCEPT ![g] = LostOf(map)[h],
                                                ![h] = LostOf(map)[g]]
          /\ multi' = multi /\ out' = out
  <1>0. \A op, args, denied : Seen!Nothing(op, args, denied) <=>
          /\ Called(op, args, denied)
          /\ DictOf(map', heap') = DictOf(map, heap) /\ LostOf(map') = LostOf(map)
          /\ multi' = multi /\ out' = out
    BY SeenCalled, Zenon DEF Seen!Nothing, DictOf, LostOf, Column, ColumnOf, HasKey
  <1>1. \A h, k, s : Seen!Becomes(h, k, s) <=>
          /\ DictOf(map', heap') = [DictOf(map, heap) EXCEPT ![h][k] = s]
          /\ multi' = multi /\ LostOf(map') = LostOf(map) /\ out' = out
    BY Zenon DEF Seen!Becomes, DictOf, LostOf, Column, ColumnOf, HasKey
  <1>2. \A h, k, x : Seen!Put(h, k, x) <=>
          /\ Called("Put", <<h, k, x>>, {})
          /\ Seen!Becomes(h, k, IF multi THEN Append(DictOf(map, heap)[h][k], x) ELSE <<x>>)
    BY SeenCalled, Zenon DEF Seen!Put, DictOf, Column, ColumnOf, HasKey
  <1>3. \A h, k : Seen!Stores(h, k) <=> multi \/ DictOf(map, heap)[h][k] = <<>>
    BY Zenon DEF Seen!Stores, DictOf, Column, ColumnOf, HasKey
  <1>4. \A h, k, x : Seen!PutLosingKey(h, k, x) <=>
          /\ Seen!Stores(h, k)
          /\ Called("Put", <<h, k, x>>, {"key"})
          /\ LostOf(map') = [LostOf(map) EXCEPT ![h] = @ + 1]
          /\ multi' = multi /\ DictOf(map', heap') = DictOf(map, heap) /\ out' = out
    BY SeenCalled, Zenon DEF Seen!PutLosingKey, DictOf, LostOf, Column, ColumnOf, HasKey
  <1>5. \A h, k : Seen!Erase(h, k) <=>
          /\ Called("Erase", <<h, k>>, {})
          /\ Seen!Becomes(h, k, IF DictOf(map, heap)[h][k] = <<>> THEN <<>>
                                ELSE Tail(DictOf(map, heap)[h][k]))
    BY SeenCalled, Zenon DEF Seen!Erase, DictOf, Column, ColumnOf, HasKey
  <1>6. \A h : Seen!Emptied(h) <=>
          /\ DictOf(map', heap') = [DictOf(map, heap) EXCEPT ![h] = [k \in Keys |-> <<>>]]
          /\ LostOf(map') = [LostOf(map) EXCEPT ![h] = 0]
          /\ multi' = multi /\ out' = out
    BY Zenon DEF Seen!Emptied, Seen!Empty, DictOf, LostOf, Column, ColumnOf, HasKey
  <1>7. /\ \A h : Seen!Clear(h) <=> Called("Clear", <<h>>, {}) /\ Seen!Emptied(h)
        /\ \A h : Seen!Destroy(h) <=> Called("Destroy", <<h>>, {}) /\ Seen!Emptied(h)
    BY SeenCalled, Zenon DEF Seen!Clear, Seen!Destroy
  <1>8. \A g, h : Seen!Swap(g, h) <=>
          /\ Called("Swap", <<g, h>>, {})
          /\ DictOf(map', heap') = [DictOf(map, heap) EXCEPT ![g] = DictOf(map, heap)[h],
                                                             ![h] = DictOf(map, heap)[g]]
          /\ LostOf(map') = [LostOf(map) EXCEPT ![g] = LostOf(map)[h],
                                                ![h] = LostOf(map)[g]]
          /\ multi' = multi /\ out' = out
    BY SeenCalled, Zenon DEF Seen!Swap, DictOf, LostOf, Column, ColumnOf, HasKey
  <1>9. QED
    BY <1>0, <1>1, <1>2, <1>3, <1>4, <1>5, <1>6, <1>7, <1>8, Zenon

\* A call that leaves every pair, and why it may.
LEMMA SeenNothing ==
    /\ \A h, n : Seen!Reserve(h, n) <=>
          \E denied \in {{}, {"room"}} : Seen!Nothing("Reserve", <<h, n>>, denied)
    /\ \A h, k, x : Seen!PutNothing(h, k, x) <=>
          /\ Seen!Stores(h, k)
          /\ \E denied \in {{"room"}, {"value"}, {"key", "value"}} :
                Seen!Nothing("Put", <<h, k, x>>, denied)
  BY Zenon DEF Seen!Reserve, Seen!PutNothing

\* What the reads come to.
LEMMA SeenReads ==
    /\ \A op, args, x : Seen!Answers(op, args, x) <=>
          /\ Called(op, args, {})
          /\ out' = x /\ multi' = multi
          /\ DictOf(map', heap') = DictOf(map, heap) /\ LostOf(map') = LostOf(map)
    /\ \A h, k, x : Seen!Get(h, k, x) <=>
          Seen!Answers("Get", <<h, k, x>>,
                       IF DictOf(map, heap)[h][k] = <<>> THEN x
                       ELSE Head(DictOf(map, heap)[h][k]))
    /\ \A h, k : Seen!Contains(h, k) <=>
          Seen!Answers("Contains", <<h, k>>,
                       IF DictOf(map, heap)[h][k] = <<>> THEN 0 ELSE 1)
    /\ \A h, k : Seen!Count(h, k) <=>
          Seen!Answers("Count", <<h, k>>, Len(DictOf(map, heap)[h][k]))
    /\ \A h : Seen!Size(h) <=>
          Seen!Answers("Size", <<h>>,
                       Cardinality(PairsOf(DictOf(map, heap)[h])) + LostOf(map)[h])
  <1>1. \A op, args, x : Seen!Answers(op, args, x) <=>
          /\ Called(op, args, {})
          /\ out' = x /\ multi' = multi
          /\ DictOf(map', heap') = DictOf(map, heap) /\ LostOf(map') = LostOf(map)
    BY SeenCalled, Zenon DEF Seen!Answers, DictOf, LostOf, Column, ColumnOf, HasKey
  <1>2. \A h, k, x : Seen!Get(h, k, x) <=>
          Seen!Answers("Get", <<h, k, x>>,
                       IF DictOf(map, heap)[h][k] = <<>> THEN x
                       ELSE Head(DictOf(map, heap)[h][k]))
    BY Zenon DEF Seen!Get, DictOf, Column, ColumnOf, HasKey
  <1>3. \A h, k : Seen!Contains(h, k) <=>
          Seen!Answers("Contains", <<h, k>>,
                       IF DictOf(map, heap)[h][k] = <<>> THEN 0 ELSE 1)
    BY Zenon DEF Seen!Contains, DictOf, Column, ColumnOf, HasKey
  <1>4. \A h, k : Seen!Count(h, k) <=>
          Seen!Answers("Count", <<h, k>>, Len(DictOf(map, heap)[h][k]))
    BY Zenon DEF Seen!Count, DictOf, Column, ColumnOf, HasKey
  <1>5. \A h : Seen!Size(h) <=>
          Seen!Answers("Size", <<h>>,
                       Cardinality(PairsOf(DictOf(map, heap)[h])) + LostOf(map)[h])
    <2>1. \A d : Seen!Pairs(d) = PairsOf(d)
      BY Zenon DEF Seen!Pairs, PairsOf
    <2>2. \A S : Seen!Cardinality(S) = Cardinality(S)
      BY Zenon DEF Seen!Cardinality, Cardinality
    <2>3. \A h : Seen!Size(h) <=>
             Seen!Answers("Size", <<h>>,
                Seen!Cardinality(Seen!Pairs(DictOf(map, heap)[h])) + LostOf(map)[h])
      BY Zenon DEF Seen!Size, DictOf, LostOf, Column, ColumnOf, HasKey
    <2>4. QED
      BY <2>1, <2>2, <2>3, Zenon
  <1>6. QED
    BY <1>1, <1>2, <1>3, <1>4, <1>5, Zenon

LEMMA SeenNext ==
    ASSUME NEW h \in Handles,
           \/ \E k \in Keys, x \in Values :
                 \/ Seen!Put(h, k, x) \/ Seen!PutNothing(h, k, x)
                 \/ Seen!PutLosingKey(h, k, x) \/ Seen!Get(h, k, x)
           \/ \E k \in Keys : Seen!Erase(h, k) \/ Seen!Contains(h, k) \/ Seen!Count(h, k)
           \/ \E n \in Counts : Seen!Reserve(h, n)
           \/ Seen!Clear(h) \/ Seen!Destroy(h) \/ Seen!Size(h)
           \/ \E g \in Handles : Seen!Swap(h, g)
    PROVE  Seen!Next
  BY Zenon DEF Seen!Next

LEMMA SeenStutter ==
    ASSUME DictOf(map', heap') = DictOf(map, heap), LostOf(map') = LostOf(map),
           multi' = multi, out' = out, call' = call
    PROVE  UNCHANGED Seen!vars
  BY Zenon DEF Seen!vars, DictOf, LostOf, Column, ColumnOf, HasKey

-----------------------------------------------------------------------------
(* The steps of the maps, as steps of the dictionaries.                    *)

LEMMA HeldNow ==
    ASSUME IInv, NEW h \in Handles
    PROVE  Held(map[h], heap)
  <1>1. map[h].entries \in Seq(Entries) /\ InUse(map[h]) = 1..Len(map[h].entries)
    BY EntryParts DEF IInv
  <1>2. ASSUME NEW i \in 1..Len(map[h].entries)
        PROVE  /\ map[h].entries[i].key # Null => heap[map[h].entries[i].key] \in Keys
               /\ heap[map[h].entries[i].value] \in Values
    <2>1. <<h, i>> \in Cells /\ Entry(<<h, i>>) = map[h].entries[i]
      BY <1>1, CellAt DEF IInv
    <2>2. QED
      BY <2>1 DEF IInv, Holds
  <1>3. QED
    BY <1>1, <1>2 DEF Held

LEMMA HeldNext == IInv' => \A h \in Handles : Held(map'[h], heap')
  <1>1. IInv => \A h \in Handles : Held(map[h], heap)
    BY HeldNow
  <1>2. IInv' => (\A h \in Handles : Held(map[h], heap))'
    BY <1>1, PTL
  <1>3. QED
    BY <1>2

LEMMA MatchesAre ==
    ASSUME IInv, NEW h \in Handles, NEW k
    PROVE  /\ Matches(map[h], k) = PlacesOf(map[h], heap, k)
           /\ Matches(map[h], k) # {} =>
                 /\ First(Matches(map[h], k)) \in PlacesOf(map[h], heap, k)
                 /\ First(Matches(map[h], k)) \in InUse(map[h])
                 /\ LowerBound(First(Matches(map[h], k)), PlacesOf(map[h], heap, k))
  <1>1. InUse(map[h]) = 1..Len(map[h].entries) /\ Len(map[h].entries) \in Nat
    BY EntryParts DEF IInv
  <1>2. Matches(map[h], k) = PlacesOf(map[h], heap, k)
    BY <1>1 DEF Matches, HasKey, PlacesOf
  <1>3. Matches(map[h], k) \in SUBSET (1..Len(map[h].entries))
    BY <1>2 DEF PlacesOf
  <1>4. QED
    BY <1>1, <1>2, <1>3, FirstOf DEF LowerBound

LEMMA LostAre ==
    ASSUME NEW M, NEW h \in Handles, M[h].entries \in Seq(Entries)
    PROVE  LostOf(M)[h] = Cardinality(Lost(M[h]))
  <1>1. InUse(M[h]) = 1..Len(M[h].entries)
    BY LenProperties DEF InUse
  <1>2. QED
    BY <1>1 DEF LostOf, Lost

\* hp2 is the heap as far as the entries of the map of g but that at p go.
Spared(g, p, hp2) ==
    \A q \in Cells : q[1] = g /\ q[2] # p =>
        /\ Entry(q).key # Null => hp2[Entry(q).key] = heap[Entry(q).key]
        /\ hp2[Entry(q).value] = heap[Entry(q).value]

LEMMA SparedUntouched ==
    ASSUME IInv, NEW g \in Handles, NEW p, NEW hp2, Spared(g, p, hp2)
    PROVE  Untouched(map[g], heap, hp2, p)
  <1>1. InUse(map[g]) = 1..Len(map[g].entries)
    BY EntryParts DEF IInv
  <1>2. \A i \in InUse(map[g]) :
           /\ <<g, i>> \in Cells /\ <<g, i>>[1] = g /\ <<g, i>>[2] = i
           /\ Entry(<<g, i>>) = map[g].entries[i]
    BY CellAt DEF IInv
  <1>3. ASSUME NEW i \in 1..Len(map[g].entries), i # p
        PROVE  /\ map[g].entries[i].key # Null =>
                     hp2[map[g].entries[i].key] = heap[map[g].entries[i].key]
               /\ hp2[map[g].entries[i].value] = heap[map[g].entries[i].value]
    <2>1. PICK q \in Cells : q[1] = g /\ q[2] = i /\ Entry(q) = map[g].entries[i]
      BY <1>1, <1>2
    <2>2. QED
      BY <1>3, <2>1 DEF Spared
  <1>4. QED
    BY <1>3 DEF Untouched

\* The column of k in the map of h becomes s; the others stay.
OneColumn(h, k, s) ==
    \A g \in Handles, l \in Keys :
        ColumnOf(map'[g], heap', l) =
            IF g = h /\ l = k THEN s ELSE ColumnOf(map[g], heap, l)

SameColumns(h) == \A l \in Keys : ColumnOf(map'[h], heap', l) = ColumnOf(map[h], heap, l)

SameLost(h) == LostOf(map')[h] = LostOf(map)[h]

LEMMA DictBecomes ==
    ASSUME NEW h \in Handles, NEW k \in Keys, NEW s, OneColumn(h, k, s)
    PROVE  DictOf(map', heap') = [DictOf(map, heap) EXCEPT ![h][k] = s]
  <1>1. DictOf(map, heap)[h] = [l \in Keys |-> ColumnOf(map[h], heap, l)]
    BY DEF DictOf
  <1>2. [DictOf(map, heap) EXCEPT ![h][k] = s] =
           [g \in Handles |-> [l \in Keys |-> IF g = h /\ l = k THEN s
                                              ELSE ColumnOf(map[g], heap, l)]]
    BY <1>1 DEF DictOf
  <1>3. \A g \in Handles : \A l \in Keys :
           ColumnOf(map'[g], heap', l) = IF g = h /\ l = k THEN s
                                         ELSE ColumnOf(map[g], heap, l)
    BY DEF OneColumn
  <1>4. DictOf(map', heap') =
           [g \in Handles |-> [l \in Keys |-> IF g = h /\ l = k THEN s
                                              ELSE ColumnOf(map[g], heap, l)]]
    BY <1>3 DEF DictOf
  <1>5. QED
    BY <1>2, <1>4

LEMMA DictSame ==
    ASSUME \A h \in Handles : SameColumns(h)
    PROVE  DictOf(map', heap') = DictOf(map, heap)
  BY DEF SameColumns, DictOf

LEMMA LostSame ==
    ASSUME \A h \in Handles : SameLost(h)
    PROVE  LostOf(map') = LostOf(map)
  BY DEF SameLost, LostOf

\* What a map that is not touched keeps.
LEMMA MapKept ==
    ASSUME IInv, NEW g \in Handles, map'[g].entries = map[g].entries
    PROVE  /\ SameLost(g)
           /\ Spared(g, 0, heap') => SameColumns(g)
  <1>1. SameLost(g)
    BY DEF SameLost, LostOf, InUse
  <1>2. ASSUME Spared(g, 0, heap') PROVE SameColumns(g)
    <2>1. Untouched(map[g], heap, heap', 0) /\ Held(map[g], heap)
      BY <1>2, SparedUntouched, HeldNow
    <2>2. PICK m, hp, o, hp2 : m = map[g] /\ hp = heap /\ o = map'[g] /\ hp2 = heap'
      OBVIOUS
    <2>3. \A l \in Keys : ColumnOf(o, hp2, l) = ColumnOf(m, hp, l)
      BY <2>1, <2>2, ColumnSame
    <2>4. QED
      BY <2>2, <2>3 DEF SameColumns
  <1>3. QED
    BY <1>1, <1>2

LEMMA ColumnStep ==
    ASSUME NEW h \in Handles, NEW k \in Keys, NEW s, OneColumn(h, k, s),
           LostOf(map') = LostOf(map), multi' = multi, out' = out
    PROVE  Seen!Becomes(h, k, s)
  <1>1. DictOf(map', heap') = [DictOf(map, heap) EXCEPT ![h][k] = s]
    BY DictBecomes
  <1>2. QED
    BY <1>1, Zenon DEF Seen!Becomes, DictOf, LostOf, Column, ColumnOf, HasKey

DictStep == Seen!Next \/ UNCHANGED Seen!vars

LEMMA UndefinedStep == Undefined => DictStep
  <1> SUFFICES ASSUME Undefined PROVE DictStep
    OBVIOUS
  <1>1. map' = map /\ heap' = heap /\ multi' = multi /\ out' = out /\ call' = call
    BY DEF Undefined
  <1>2. DictOf(map', heap') = DictOf(map, heap) /\ LostOf(map') = LostOf(map)
    BY <1>1
  <1>3. QED
    BY <1>1, <1>2, SeenStutter DEF DictStep

\* A call that leaves the entries, and what they point to.
LEMMA KeptStep ==
    ASSUME IInv, \A g \in Handles : map'[g].entries = map[g].entries /\ Spared(g, 0, heap'),
           multi' = multi, out' = out,
           NEW op, NEW args, NEW denied, Called(op, args, denied)
    PROVE  Seen!Nothing(op, args, denied)
  <1>1. DictOf(map', heap') = DictOf(map, heap) /\ LostOf(map') = LostOf(map)
    BY MapKept, DictSame, LostSame
  <1>2. QED
    BY <1>1, SeenForms, Zenon

LEMMA NothingStep ==
    ASSUME NEW op, NEW args, NEW denied, Nothing(op, args, denied)
    PROVE  Seen!Nothing(op, args, denied)
  <1>1. /\ map' = map /\ heap' = heap /\ multi' = multi /\ out' = out
        /\ Called(op, args, denied)
    BY DEF Nothing
  <1>2. DictOf(map', heap') = DictOf(map, heap) /\ LostOf(map') = LostOf(map)
    BY <1>1
  <1>3. QED
    BY <1>1, <1>2, SeenForms, Zenon

LEMMA ReserveStep ==
    ASSUME IInv, NEW h \in Handles, NEW n \in Counts, Reserve(h, n) PROVE DictStep
  <1>1. CASE Called("Reserve", <<h, n>>, {}) /\ Grown(h, n)
    <2>1. heap' = heap /\ multi' = multi /\ out' = out
      BY <1>1 DEF Grown
    <2>2. \A g \in Handles : map'[g].entries = map[g].entries
      BY <1>1 DEF IInv, Typed, Grown
    <2>3. \A g \in Handles : Spared(g, 0, heap')
      BY <2>1 DEF Spared
    <2>4. Seen!Nothing("Reserve", <<h, n>>, {})
      BY <1>1, <2>1, <2>2, <2>3, KeptStep
    <2>5. QED
      BY <2>4, SeenNothing, SeenNext, Zenon DEF DictStep
  <1>2. CASE \E denied \in {{}, {"room"}} : Nothing("Reserve", <<h, n>>, denied)
    <2>1. PICK denied \in {{}, {"room"}} : Nothing("Reserve", <<h, n>>, denied)
      BY <1>2
    <2>2. Seen!Nothing("Reserve", <<h, n>>, denied)
      BY <2>1, NothingStep
    <2>3. QED
      BY <2>2, SeenNothing, SeenNext, Zenon DEF DictStep
  <1>3. QED
    BY <1>1, <1>2, ReserveParts

LEMMA ReadStep ==
    ASSUME NEW op, NEW args, NEW x, Answers(op, args, x)
    PROVE  Seen!Answers(op, args, x)
  <1>1. /\ map' = map /\ heap' = heap /\ multi' = multi /\ out' = x
        /\ Called(op, args, {})
    BY DEF Answers
  <1>2. DictOf(map', heap') = DictOf(map, heap) /\ LostOf(map') = LostOf(map)
    BY <1>1
  <1>3. QED
    BY <1>1, <1>2, SeenReads, Zenon

LEMMA GetStep ==
    ASSUME IInv, NEW h \in Handles, NEW k \in Keys, NEW fallback \in Values,
           Get(h, k, fallback)
    PROVE  DictStep
  <1> DEFINE args == <<h, k, fallback>>
  <1>1. Answers("Get", args, ValueOf(h, k, fallback)) \/ Undefined
    BY DEF Get
  <1>2. CASE Undefined
    BY <1>2, UndefinedStep
  <1>3. CASE Answers("Get", args, ValueOf(h, k, fallback))
    <2>1. PICK s : s = ColumnOf(map[h], heap, k) /\ s = DictOf(map, heap)[h][k]
      BY DEF DictOf
    <2>2. Held(map[h], heap)
      BY HeldNow
    <2>3. ValueOf(h, k, fallback) = IF s = <<>> THEN fallback ELSE Head(s)
      <3>1. CASE Matches(map[h], k) = {}
        <4>1. PlacesOf(map[h], heap, k) = {}
          BY <3>1, MatchesAre
        <4>2. s = <<>>
          BY <2>1, <2>2, <4>1, ColumnRead
        <4>3. QED
          BY <3>1, <4>2 DEF ValueOf
      <3>2. CASE Matches(map[h], k) # {}
        <4>1. PICK p : p = First(Matches(map[h], k))
          OBVIOUS
        <4>2. p \in PlacesOf(map[h], heap, k) /\ LowerBound(p, PlacesOf(map[h], heap, k))
          BY <3>2, <4>1, MatchesAre
        <4>3. s # <<>> /\ Head(s) = heap[map[h].entries[p].value]
          BY <2>1, <2>2, <4>2, ColumnRead
        <4>4. ValueOf(h, k, fallback) = heap[map[h].entries[p].value]
          BY <3>2, <4>1 DEF ValueOf
        <4>5. QED
          BY <4>3, <4>4
      <3>3. QED
        BY <3>1, <3>2
    <2>4. Seen!Answers("Get", args, IF s = <<>> THEN fallback ELSE Head(s))
      BY <1>3, <2>3, ReadStep
    <2>5. Seen!Get(h, k, fallback)
      BY <2>1, <2>4, SeenReads
    <2>6. QED
      BY <2>5, SeenNext DEF DictStep
  <1>4. QED
    BY <1>1, <1>2, <1>3

LEMMA ContainsStep ==
    ASSUME IInv, NEW h \in Handles, NEW k \in Keys, Contains(h, k) PROVE DictStep
  <1> DEFINE args == <<h, k>>
  <1>1. \/ Answers("Contains", args, IF Matches(map[h], k) # {} THEN 1 ELSE 0)
        \/ Undefined
    BY DEF Contains
  <1>2. CASE Undefined
    BY <1>2, UndefinedStep
  <1>3. CASE Answers("Contains", args, IF Matches(map[h], k) # {} THEN 1 ELSE 0)
    <2>1. PICK s : s = ColumnOf(map[h], heap, k) /\ s = DictOf(map, heap)[h][k]
      BY DEF DictOf
    <2>2. Held(map[h], heap) /\ Matches(map[h], k) = PlacesOf(map[h], heap, k)
      BY HeldNow, MatchesAre
    <2>3. Matches(map[h], k) = {} => s = <<>>
      BY <2>1, <2>2, ColumnRead
    <2>4. Matches(map[h], k) # {} => s # <<>>
      <3>1. PICK p : p = First(Matches(map[h], k))
        OBVIOUS
      <3>2. Matches(map[h], k) # {} =>
               p \in PlacesOf(map[h], heap, k) /\ LowerBound(p, PlacesOf(map[h], heap, k))
        BY <3>1, MatchesAre
      <3>3. QED
        BY <2>1, <2>2, <3>2, ColumnRead
    <2>5. Seen!Answers("Contains", args, IF s = <<>> THEN 0 ELSE 1)
      <3>1. (IF Matches(map[h], k) # {} THEN 1 ELSE 0) = (IF s = <<>> THEN 0 ELSE 1)
        BY <2>3, <2>4
      <3>2. QED
        BY <1>3, <3>1, ReadStep
    <2>6. Seen!Contains(h, k)
      BY <2>1, <2>5, SeenReads
    <2>7. QED
      BY <2>6, SeenNext DEF DictStep
  <1>4. QED
    BY <1>1, <1>2, <1>3

LEMMA CountStep ==
    ASSUME IInv, NEW h \in Handles, NEW k \in Keys, Count(h, k) PROVE DictStep
  <1> DEFINE args == <<h, k>>
  <1>1. Answers("Count", args, Cardinality(Matches(map[h], k))) \/ Undefined
    BY DEF Count
  <1>2. CASE Undefined
    BY <1>2, UndefinedStep
  <1>3. CASE Answers("Count", args, Cardinality(Matches(map[h], k)))
    <2>1. PICK s : s = ColumnOf(map[h], heap, k) /\ s = DictOf(map, heap)[h][k]
      BY DEF DictOf
    <2>2. Held(map[h], heap) /\ Matches(map[h], k) = PlacesOf(map[h], heap, k)
      BY HeldNow, MatchesAre
    <2>3. Len(s) = Cardinality(Matches(map[h], k))
      BY <2>1, <2>2, ColumnRead
    <2>4. Seen!Answers("Count", args, Len(s))
      BY <1>3, <2>3, ReadStep
    <2>5. Seen!Count(h, k)
      BY <2>1, <2>4, SeenReads
    <2>6. QED
      BY <2>5, SeenNext DEF DictStep
  <1>4. QED
    BY <1>1, <1>2, <1>3

LEMMA SizeStep ==
    ASSUME IInv, NEW h \in Handles, Size(h) PROVE DictStep
  <1>1. PICK d : d = DictOf(map, heap)[h] /\ \A k \in Keys : d[k] = ColumnOf(map[h], heap, k)
    <2>1. DictOf(map, heap)[h] = [k \in Keys |-> ColumnOf(map[h], heap, k)]
      BY DEF DictOf
    <2>2. QED
      BY <2>1
  <1>2. Held(map[h], heap) /\ map[h].entries \in Seq(Entries)
    BY HeldNow DEF Held
  <1>3. Cardinality(PairsOf(d)) + Cardinality(Lost(map[h])) = Len(map[h].entries)
    BY <1>1, <1>2, SizeIs
  <1>4. LostOf(map)[h] = Cardinality(Lost(map[h]))
    BY <1>2, LostAre
  <1>5. Seen!Answers("Size", <<h>>, Cardinality(PairsOf(d)) + LostOf(map)[h])
    BY <1>3, <1>4, ReadStep DEF Size
  <1>6. Seen!Size(h)
    BY <1>1, <1>5, SeenReads
  <1>7. QED
    BY <1>6, SeenNext DEF DictStep

LEMMA SwapStep ==
    ASSUME IInv, NEW h \in Handles, NEW other \in Handles, Swap(h, other) PROVE DictStep
  <1>1. /\ map' = [map EXCEPT ![h] = map[other], ![other] = map[h]]
        /\ heap' = heap /\ multi' = multi /\ out' = out
        /\ Called("Swap", <<h, other>>, {})
    BY DEF Swap
  <1>2. \A g \in Handles : map'[g] = map[IF g = other THEN h ELSE IF g = h THEN other ELSE g]
    BY <1>1 DEF IInv, Typed
  <1>3. DictOf(map', heap') = [DictOf(map, heap) EXCEPT ![h] = DictOf(map, heap)[other],
                                                        ![other] = DictOf(map, heap)[h]]
    <2>1. \A g \in Handles :
             DictOf(map', heap')[g] =
                 DictOf(map, heap)[IF g = other THEN h ELSE IF g = h THEN other ELSE g]
      <3> SUFFICES ASSUME NEW g \in Handles
                   PROVE  DictOf(map', heap')[g] =
                            DictOf(map, heap)[IF g = other THEN h ELSE IF g = h THEN other ELSE g]
        OBVIOUS
      <3>1. PICK f \in Handles : f = IF g = other THEN h ELSE IF g = h THEN other ELSE g
        OBVIOUS
      <3>2. map'[g] = map[f]
        BY <1>2, <3>1
      <3>3. DictOf(map', heap')[g] = [l \in Keys |-> ColumnOf(map'[g], heap', l)]
        BY DEF DictOf
      <3>4. DictOf(map, heap)[f] = [l \in Keys |-> ColumnOf(map[f], heap, l)]
        BY DEF DictOf
      <3>5. heap' = heap
        BY <1>1
      <3>6. DictOf(map', heap')[g] = DictOf(map, heap)[f]
        BY <3>2, <3>3, <3>4, <3>5
      <3>7. QED
        BY <3>1, <3>6
    <2>2. PICK D, E : D = DictOf(map, heap) /\ E = DictOf(map', heap')
      OBVIOUS
    <2>3. D = [g \in Handles |-> D[g]] /\ E = [g \in Handles |-> E[g]]
      BY <2>2 DEF DictOf
    <2>4. E = [D EXCEPT ![h] = D[other], ![other] = D[h]]
      BY <2>1, <2>2, <2>3
    <2>5. QED
      BY <2>2, <2>4
  <1>4. LostOf(map') = [LostOf(map) EXCEPT ![h] = LostOf(map)[other],
                                           ![other] = LostOf(map)[h]]
    BY <1>2 DEF LostOf
  <1>5. Seen!Swap(h, other)
    BY <1>1, <1>3, <1>4, SeenForms
  <1>6. QED
    BY <1>5, SeenNext DEF DictStep

\* Freeing what some entries of h own touches no other entry.
LEMMA FreedSpared ==
    ASSUME MapAssumption, IInv, NEW h \in Handles, NEW which \in SUBSET InUse(map[h]),
           heap' = Freed(heap, BlocksOf(map[h], which)), NEW g, NEW p,
           \A q \in Cells : q[1] = g /\ q[2] # p => ~(q[1] = h /\ q[2] \in which)
    PROVE  Spared(g, p, heap')
  <1> SUFFICES ASSUME NEW q \in Cells, q[1] = g, q[2] # p
               PROVE  /\ Entry(q).key # Null => heap'[Entry(q).key] = heap[Entry(q).key]
                      /\ heap'[Entry(q).value] = heap[Entry(q).value]
    BY DEF Spared
  <1>1. ~(q[1] = h /\ q[2] \in which)
    OBVIOUS
  <1>2. /\ Entry(q).key \notin BlocksOf(map[h], which)
        /\ Entry(q).value \notin BlocksOf(map[h], which)
    BY <1>1, BlocksApart
  <1>3. Entry(q).key \in Blocks \union {Null} /\ Entry(q).value \in Blocks
    BY CellParts DEF IInv
  <1>4. \A b \in Blocks : b \notin BlocksOf(map[h], which) => heap'[b] = heap[b]
    BY DEF Freed
  <1>5. QED
    BY <1>2, <1>3, <1>4

LEMMA EmptyStep ==
    ASSUME MapAssumption, IInv, NEW h \in Handles,
           map'[h].entries = <<>>,
           \A g \in Handles \ {h} : map'[g] = map[g],
           FreeAll(h)
    PROVE  Seen!Emptied(h)
  <1>1. heap' = Freed(heap, BlocksOf(map[h], InUse(map[h]))) /\ multi' = multi /\ out' = out
    BY DEF FreeAll
  <1>2. ASSUME NEW g \in Handles, g # h PROVE SameColumns(g) /\ SameLost(g)
    <2>1. Spared(g, 0, heap')
      BY <1>1, <1>2, FreedSpared, ZenonT(60)
    <2>2. QED
      BY <1>2, <2>1, MapKept
  <1>3. \A k : ColumnOf(map'[h], heap', k) = <<>>
    BY ColumnEmpty
  <1>4. LostOf(map')[h] = 0
    <2>1. map'[h].entries \in Seq(Entries) /\ Len(map'[h].entries) = 0
      BY EmptySeq
    <2>2. Lost(map'[h]) = {}
      BY <2>1 DEF Lost
    <2>3. QED
      BY <2>1, <2>2, LostAre, FS_EmptySet
  <1>5. DictOf(map', heap') = [DictOf(map, heap) EXCEPT ![h] = [k \in Keys |-> <<>>]]
    <2>1. [k \in Keys |-> ColumnOf(map'[h], heap', k)] = [k \in Keys |-> <<>>]
      BY <1>3
    <2>2. ASSUME NEW g \in Handles, g # h
          PROVE  [k \in Keys |-> ColumnOf(map'[g], heap', k)] =
                 [k \in Keys |-> ColumnOf(map[g], heap, k)]
      BY <1>2, <2>2 DEF SameColumns
    <2>3. \A g \in Handles :
             /\ DictOf(map', heap')[g] = [k \in Keys |-> ColumnOf(map'[g], heap', k)]
             /\ DictOf(map, heap)[g] = [k \in Keys |-> ColumnOf(map[g], heap, k)]
      BY DEF DictOf
    <2>4. PICK D, E, r : /\ D = DictOf(map, heap) /\ E = DictOf(map', heap')
                         /\ r = [k \in Keys |-> <<>>]
      OBVIOUS
    <2>5. D = [g \in Handles |-> D[g]] /\ E = [g \in Handles |-> E[g]]
      BY <2>4 DEF DictOf
    <2>6. ASSUME NEW g \in Handles PROVE E[g] = IF g = h THEN r ELSE D[g]
      <3>1. CASE g = h
        BY <2>1, <2>3, <2>4, <3>1
      <3>2. CASE g # h
        <4>1. [k \in Keys |-> ColumnOf(map'[g], heap', k)] =
              [k \in Keys |-> ColumnOf(map[g], heap, k)]
          BY <2>2, <3>2
        <4>2. /\ E[g] = [k \in Keys |-> ColumnOf(map'[g], heap', k)]
              /\ D[g] = [k \in Keys |-> ColumnOf(map[g], heap, k)]
          BY <2>3, <2>4, Zenon
        <4>3. E[g] = D[g]
          BY <4>1, <4>2, Zenon
        <4>4. QED
          BY <3>2, <4>3
      <3>3. QED
        BY <3>1, <3>2
    <2>7. E = [D EXCEPT ![h] = r]
      BY <2>5, <2>6
    <2>8. QED
      BY <2>4, <2>7
  <1>6. LostOf(map') = [LostOf(map) EXCEPT ![h] = 0]
    <2>1. PICK D, E : D = LostOf(map) /\ E = LostOf(map')
      OBVIOUS
    <2>2. D = [g \in Handles |-> D[g]] /\ E = [g \in Handles |-> E[g]]
      BY <2>1 DEF LostOf
    <2>3. \A g \in Handles : E[g] = IF g = h THEN 0 ELSE D[g]
      BY <1>2, <1>4, <2>1 DEF SameLost
    <2>4. E = [D EXCEPT ![h] = 0]
      BY <2>2, <2>3
    <2>5. QED
      BY <2>1, <2>4
  <1>7. QED
    BY <1>1, <1>5, <1>6, SeenForms

LEMMA ClearStep ==
    ASSUME MapAssumption, IInv, NEW h \in Handles, Clear(h) \/ Destroy(h) PROVE DictStep
  <1>1. MayFree(map[h], InUse(map[h]))
    BY Freeable
  <1>2. /\ FreeAll(h)
        /\ \/ Called("Clear", <<h>>, {}) \/ Called("Destroy", <<h>>, {})
        /\ \/ map' = [map EXCEPT ![h].entries = <<>>]
           \/ map' = [map EXCEPT ![h] = NewMap]
    BY <1>1 DEF Clear, Destroy
  <1>3. map'[h].entries = <<>> /\ \A g \in Handles \ {h} : map'[g] = map[g]
    <2>1. map[h] \in [entries : Seq(Entries), cap : 0..MaxEntries]
      BY DEF IInv, Typed
    <2>2. QED
      BY <1>2, <2>1 DEF NewMap, IInv, Typed
  <1>4. Seen!Emptied(h)
    BY <1>2, <1>3, EmptyStep
  <1>5. Seen!Clear(h) \/ Seen!Destroy(h)
    BY <1>2, <1>4, SeenForms, Zenon
  <1>6. QED
    BY <1>5, SeenNext DEF DictStep

\* An entry that has a key goes: those that have none are as many as before.
LEMMA LostWithout ==
    ASSUME NEW m, NEW o, m.entries \in Seq(Entries), NEW p \in 1..Len(m.entries),
           m.entries[p].key # Null, Lacks(o, m, p)
    PROVE  Cardinality(Lost(o)) = Cardinality(Lost(m))
  <1>1. PICK n \in Nat : n = Len(m.entries)
    BY LenProperties
  <1>2. /\ Len(o.entries) = n - 1 /\ p \in 1..n
        /\ \A j \in 1..(n - 1) : o.entries[j] = m.entries[IF j < p THEN j ELSE j + 1]
    BY <1>1 DEF Lacks
  <1>3. PICK S, T : S = Lost(o) /\ T = Lost(m)
    OBVIOUS
  <1>4. /\ \A j : j \in S <=> j \in 1..(n - 1) /\ o.entries[j].key = Null
        /\ \A j : j \in T <=> j \in 1..n /\ m.entries[j].key = Null
    BY <1>1, <1>2, <1>3 DEF Lost
  <1>5. PICK f : f = [j \in S |-> IF j < p THEN j ELSE j + 1]
    OBVIOUS
  <1>6. f \in [S -> T]
    <2> SUFFICES ASSUME NEW j \in S PROVE f[j] \in T
      BY <1>5
    <2>1. j \in 1..(n - 1) /\ o.entries[j].key = Null
      BY <1>4
    <2>2. PICK i \in 1..n : i = IF j < p THEN j ELSE j + 1
      BY <1>2, <2>1
    <2>3. f[j] = i /\ o.entries[j] = m.entries[i]
      BY <1>2, <1>5, <2>1, <2>2
    <2>4. QED
      BY <1>4, <2>1, <2>3
  <1>7. \A i, j \in S : f[i] = f[j] => i = j
    <2>1. \A i \in S : i \in Int
      BY <1>4
    <2>2. QED
      BY <1>2, <1>5, <2>1
  <1>8. ASSUME NEW i \in T PROVE \E j \in S : f[j] = i
    <2>1. i \in 1..n /\ i # p /\ m.entries[i].key = Null
      BY <1>1, <1>4
    <2>2. PICK j \in 1..(n - 1) : j = IF i < p THEN i ELSE i - 1
      BY <1>2, <2>1
    <2>3. i = IF j < p THEN j ELSE j + 1
      BY <1>2, <2>1, <2>2
    <2>4. j \in S
      BY <1>2, <1>4, <2>1, <2>3
    <2>5. QED
      BY <1>5, <2>3, <2>4
  <1>9. f \in Bijection(S, T)
    <2>1. f \in Injection(S, T)
      BY <1>6, <1>7 DEF Injection, IsInjective
    <2>2. f \in Surjection(S, T)
      BY <1>6, <1>8 DEF Surjection
    <2>3. QED
      BY <2>1, <2>2 DEF Bijection
  <1>10. IsFiniteSet(S)
    <2>1. n - 1 \in Nat
      BY <1>2
    <2>2. PICK l \in Nat : l = n - 1
      BY <2>1
    <2>3. IsFiniteSet(1..l)
      BY FS_Interval
    <2>4. S \in SUBSET (1..l)
      BY <1>4, <2>2
    <2>5. QED
      BY <2>3, <2>4, FS_Subset
  <1>11. QED
    BY <1>3, <1>9, <1>10, FS_Bijection DEF ExistsBijection

LEMMA EraseFirstStep ==
    ASSUME MapAssumption, IInv, NEW h \in Handles, NEW k \in Keys,
           Matches(map[h], k) # {}, EraseFirst(h, k)
    PROVE  DictStep
  <1>1. PICK i \in 1..Len(map[h].entries), t \in Seq(Entries) :
            i = First(Matches(map[h], k)) /\ Erased(h, k, i, t)
    BY EraseFirstParts
  <1>2. map[h] \in [entries : Seq(Entries), cap : 0..MaxEntries] /\ Held(map[h], heap)
    BY HeldNow DEF IInv, Typed
  <1>3. InUse(map[h]) = 1..Len(map[h].entries)
    BY EntryParts DEF IInv
  <1>4. /\ i \in PlacesOf(map[h], heap, k) /\ LowerBound(i, PlacesOf(map[h], heap, k))
        /\ {i} \in SUBSET InUse(map[h])
    BY <1>1, <1>3, MatchesAre
  <1>5. /\ heap' = Freed(heap, BlocksOf(map[h], {i})) /\ multi' = multi /\ out' = out
        /\ map'[h].entries = t /\ Called("Erase", <<h, k>>, {})
        /\ \A g \in Handles \ {h} : map'[g] = map[g]
    BY <1>1, <1>2 DEF Erased, IInv, Typed
  <1>6. Lacks(map'[h], map[h], i)
    BY <1>1, <1>5 DEF Erased, Lacks
  <1>7. Untouched(map[h], heap, heap', i)
    <2>1. \A q \in Cells : q[1] = h /\ q[2] # i => ~(q[1] = h /\ q[2] \in {i})
      OBVIOUS
    <2>2. Spared(h, i, heap')
      BY <1>4, <1>5, <2>1, FreedSpared
    <2>3. QED
      BY <2>2, SparedUntouched
  <1>8. \A g \in Handles \ {h} : SameColumns(g) /\ SameLost(g)
    <2> SUFFICES ASSUME NEW g \in Handles, g # h PROVE SameColumns(g) /\ SameLost(g)
      OBVIOUS
    <2>1. Spared(g, 0, heap')
      BY <1>4, <1>5, FreedSpared
    <2>2. QED
      BY <1>5, <2>1, MapKept
  <1>9. PICK m, hp, o, hp2 : m = map[h] /\ hp = heap /\ o = map'[h] /\ hp2 = heap'
    OBVIOUS
  <1>10. \A l : (i \in PlacesOf(m, hp, l) => l = k) /\ i \in PlacesOf(m, hp, k)
    BY <1>4, <1>9 DEF PlacesOf
  <1>11. \A l : ColumnOf(o, hp2, l) = IF l = k THEN Tail(ColumnOf(m, hp, k))
                                      ELSE ColumnOf(m, hp, l)
    <2> SUFFICES ASSUME NEW l
                 PROVE  ColumnOf(o, hp2, l) = IF l = k THEN Tail(ColumnOf(m, hp, k))
                                              ELSE ColumnOf(m, hp, l)
      OBVIOUS
    <2>1. i \in PlacesOf(m, hp, l) => LowerBound(i, PlacesOf(m, hp, l))
      BY <1>4, <1>9, <1>10
    <2>2. ColumnOf(o, hp2, l) = IF i \in PlacesOf(m, hp, l) THEN Tail(ColumnOf(m, hp, l))
                                ELSE ColumnOf(m, hp, l)
      <3>1. /\ Held(m, hp) /\ i \in 1..Len(m.entries)
            /\ Lacks(o, m, i) /\ Untouched(m, hp, hp2, i)
        BY <1>2, <1>6, <1>7, <1>9
      <3>2. QED
        BY <2>1, <3>1, ColumnWithout
    <2>3. QED
      BY <1>10, <2>2
  <1>12. OneColumn(h, k, Tail(ColumnOf(map[h], heap, k)))
    BY <1>8, <1>9, <1>11 DEF OneColumn, SameColumns
  <1>13. ColumnOf(map[h], heap, k) # <<>>
    BY <1>2, <1>4, ColumnRead
  <1>14. LostOf(map') = LostOf(map)
    <2>1. map[h].entries[i].key # Null
      BY <1>4 DEF PlacesOf
    <2>2. Cardinality(Lost(map'[h])) = Cardinality(Lost(map[h]))
      BY <1>2, <1>6, <2>1, LostWithout
    <2>3. SameLost(h)
      BY <1>2, <1>5, <2>2, LostAre DEF SameLost
    <2>4. QED
      BY <1>8, <2>3, LostSame
  <1>15. PICK s : s = ColumnOf(map[h], heap, k) /\ s = DictOf(map, heap)[h][k]
    BY DEF DictOf
  <1>16. OneColumn(h, k, Tail(s))
    BY <1>12, <1>15
  <1>17. Seen!Becomes(h, k, Tail(s))
    BY <1>5, <1>14, <1>16, ColumnStep
  <1>18. Seen!Erase(h, k)
    <2>1. Tail(s) = IF s = <<>> THEN <<>> ELSE Tail(s)
      BY <1>13, <1>15
    <2>2. Seen!Becomes(h, k, IF s = <<>> THEN <<>> ELSE Tail(s))
      BY <1>17, <2>1, Zenon
    <2>3. QED
      BY <1>5, <1>15, <2>2, SeenForms, Zenon
  <1>19. QED
    BY <1>18, SeenNext DEF DictStep

LEMMA DictTyped ==
    ASSUME IInv, NEW h \in Handles, NEW k \in Keys
    PROVE  /\ DictOf(map, heap)[h][k] \in Seq(Values)
           /\ DictOf(map, heap)[h] = [l \in Keys |-> DictOf(map, heap)[h][l]]
           /\ DictOf(map, heap) = [g \in Handles |-> DictOf(map, heap)[g]]
  <1>1. ColumnOf(map[h], heap, k) \in Seq(Values)
    BY HeldNow, ColumnTyped
  <1>2. QED
    BY <1>1 DEF DictOf

LEMMA EraseStep ==
    ASSUME MapAssumption, IInv, NEW h \in Handles, NEW k \in Keys, Erase(h, k)
    PROVE  DictStep
  <1>1. CASE Undefined
    BY <1>1, UndefinedStep
  <1>2. CASE Matches(map[h], k) # {} /\ EraseFirst(h, k)
    BY <1>2, EraseFirstStep
  <1>3. CASE Matches(map[h], k) = {} /\ Nothing("Erase", <<h, k>>, {})
    <2>1. DictOf(map, heap)[h][k] = <<>>
      <3>1. ColumnOf(map[h], heap, k) = <<>>
        BY <1>3, HeldNow, MatchesAre, ColumnRead
      <3>2. QED
        BY <3>1 DEF DictOf
    <2>2. /\ Called("Erase", <<h, k>>, {})
          /\ map' = map /\ heap' = heap /\ multi' = multi /\ out' = out
      BY <1>3 DEF Nothing
    <2>3. DictOf(map', heap') = DictOf(map, heap) /\ LostOf(map') = LostOf(map)
      BY <2>2
    <2>4. DictOf(map, heap) = [DictOf(map, heap) EXCEPT ![h][k] = <<>>]
      <3>1. PICK D : D = DictOf(map, heap)
        OBVIOUS
      <3>2. /\ D = [g \in Handles |-> D[g]] /\ D[h] = [l \in Keys |-> D[h][l]]
            /\ D[h][k] = <<>>
        BY <2>1, <3>1, DictTyped
      <3>3. [D[h] EXCEPT ![k] = <<>>] = D[h]
        BY <3>2
      <3>4. D = [D EXCEPT ![h] = D[h]]
        BY <3>2
      <3>5. D = [D EXCEPT ![h][k] = <<>>]
        BY <3>3, <3>4
      <3>6. QED
        BY <3>1, <3>5
    <2>5. Seen!Becomes(h, k, <<>>)
      BY <2>2, <2>3, <2>4, SeenForms, Zenon
    <2>6. Seen!Becomes(h, k, IF DictOf(map, heap)[h][k] = <<>> THEN <<>>
                             ELSE Tail(DictOf(map, heap)[h][k]))
      BY <2>1, <2>5, Zenon
    <2>7. Seen!Erase(h, k)
      BY <2>2, <2>6, SeenForms, Zenon
    <2>8. QED
      BY <2>7, SeenNext DEF DictStep
  <1>4. QED
    BY <1>1, <1>2, <1>3 DEF Erase

\* As long as the map is no multi-map, it has one value for a key at most.
Short == ~multi => \A h \in Handles, k \in Keys : Len(DictOf(map, heap)[h][k]) <= 1

LEMMA OverwriteStep ==
    ASSUME MapAssumption, IInv, Short, ~multi,
           NEW h \in Handles, NEW k \in Keys, NEW x \in Values,
           Matches(map[h], k) # {}, Overwrite(h, k, x)
    PROVE  DictStep
  <1>1. PICK i : i = First(Matches(map[h], k))
    OBVIOUS
  <1>2. /\ i \in PlacesOf(map[h], heap, k) /\ i \in InUse(map[h])
        /\ LowerBound(i, PlacesOf(map[h], heap, k))
    BY <1>1, MatchesAre
  <1>3. PICK c \in Cells, block \in Blocks :
            /\ c = <<h, i>> /\ c[1] = h /\ c[2] = i /\ Entry(c) = map[h].entries[i]
            /\ block = map[h].entries[i].value
    <2>1. <<h, i>> \in Cells /\ Entry(<<h, i>>) = map[h].entries[i]
      BY <1>2, CellAt DEF IInv
    <2>2. map[h].entries[i].value \in Blocks
      BY <1>2, EntryParts DEF IInv
    <2>3. <<h, i>>[1] = h /\ <<h, i>>[2] = i
      OBVIOUS
    <2>4. QED
      BY <2>1, <2>2, <2>3
  <1>4. block \in Allocated(heap)
    <2>1. {i} \in SUBSET InUse(map[h])
      BY <1>2
    <2>2. QED
      BY <1>3, <2>1, Freeable
  <1>5. /\ heap' = Filled(heap, block, x)
        /\ map' = map /\ multi' = multi /\ out' = out
        /\ Called("Put", <<h, k, x>>, {})
    BY <1>1, <1>3, <1>4 DEF Overwrite
  <1>6. \A b \in Blocks : heap'[b] = IF b = block THEN x ELSE heap[b]
    BY <1>3, <1>5, NotFree DEF Filled, IInv, Typed
  <1>7. \A q \in Cells : /\ Entry(q).key # block
                         /\ Entry(q).value = block => q = c
    BY <1>3 DEF IInv, Apart
  <1>8. ASSUME NEW g, NEW p, g = h => p = i PROVE Spared(g, p, heap')
    <2> SUFFICES ASSUME NEW q \in Cells, q[1] = g, q[2] # p
                 PROVE  /\ Entry(q).key # Null => heap'[Entry(q).key] = heap[Entry(q).key]
                        /\ heap'[Entry(q).value] = heap[Entry(q).value]
      BY DEF Spared
    <2>1. q # c
      BY <1>3, <1>8
    <2>2. Entry(q).key # block /\ Entry(q).value # block
      BY <1>7, <2>1
    <2>3. Entry(q).key \in Blocks \union {Null} /\ Entry(q).value \in Blocks
      BY CellParts DEF IInv
    <2>4. QED
      BY <1>6, <2>2, <2>3
  <1>9. \A g \in Handles \ {h} : SameColumns(g)
    BY <1>5, <1>8, MapKept
  <1>10. IInv'
    BY OverwriteInv
  <1>11. PICK m, hp, hp2 : m = map[h] /\ hp = heap /\ hp2 = heap'
    OBVIOUS
  <1>12. Held(m, hp) /\ Held(m, hp2) /\ Untouched(m, hp, hp2, i)
    <2>1. Spared(h, i, heap')
      BY <1>8
    <2>2. QED
      BY <1>5, <1>10, <1>11, <2>1, HeldNow, HeldNext, SparedUntouched
  <1>13. /\ i \in PlacesOf(m, hp, k) /\ LowerBound(i, PlacesOf(m, hp, k))
         /\ m.entries[i].key # Null /\ hp[m.entries[i].key] = k
         /\ hp2[m.entries[i].key] = k /\ hp2[m.entries[i].value] = x
    <2>1. m.entries[i].key # block /\ m.entries[i].key \in Blocks \union {Null}
      BY <1>3, <1>7, <1>11, CellParts DEF IInv
    <2>2. m.entries[i].key # Null /\ hp[m.entries[i].key] = k
      BY <1>2, <1>11 DEF PlacesOf
    <2>3. QED
      BY <1>2, <1>3, <1>6, <1>11, <2>1, <2>2
  <1>14. Len(ColumnOf(m, hp, k)) <= 1
    BY <1>11 DEF Short, DictOf
  <1>15. ColumnOf(m, hp2, k) = <<x>>
    BY <1>12, <1>13, <1>14, ColumnOverwritten
  <1>16. ASSUME NEW l, l # k PROVE ColumnOf(m, hp2, l) = ColumnOf(m, hp, l)
    <2>1. i \notin PlacesOf(m, hp, l) /\ i \notin PlacesOf(m, hp2, l)
      BY <1>13, <1>16 DEF PlacesOf
    <2>2. QED
      BY <1>12, <2>1, ColumnElsewhere
  <1>17. OneColumn(h, k, <<x>>)
    BY <1>5, <1>9, <1>11, <1>15, <1>16 DEF OneColumn, SameColumns
  <1>18. Seen!Becomes(h, k, <<x>>)
    <2>1. LostOf(map') = LostOf(map)
      BY <1>5
    <2>2. QED
      BY <1>5, <1>17, <2>1, ColumnStep
  <1>19. Seen!Put(h, k, x)
    <2>1. Seen!Becomes(h, k, IF multi THEN Append(DictOf(map, heap)[h][k], x) ELSE <<x>>)
      BY <1>18, Zenon
    <2>2. QED
      BY <1>5, <2>1, SeenForms, Zenon
  <1>20. QED
    BY <1>19, SeenNext DEF DictStep

LEMMA StoreStep ==
    ASSUME MapAssumption, IInv, NEW h \in Handles, NEW k \in Keys, NEW x \in Values,
           NEW m \in [entries : Seq(Entries), cap : Nat], m.entries = map[h].entries,
           Store(h, m, k, x),
           multi \/ DictOf(map, heap)[h][k] = <<>>
    PROVE  DictStep
  <1>1. PICK key, value : Stored(h, m, k, x, key, value)
    BY StoreParts
  <1>2. /\ key = Null \/ (key \in Blocks /\ heap[key] = Free)
        /\ value # Null => value \in Blocks /\ heap[value] = Free /\ value # key
        /\ \A b \in Blocks : heap'[b] = IF b = value THEN x
                                        ELSE IF b = key THEN k ELSE heap[b]
    BY <1>1 DEF Stored
  <1>3. PICK new : new = [key |-> key, value |-> value]
    OBVIOUS
  <1>4. /\ map' = [map EXCEPT ![h] = IF value = Null THEN m ELSE
                                     [m EXCEPT !.entries = Append(m.entries, new)]]
        /\ multi' = multi /\ out' = out
    BY <1>1, <1>3 DEF Stored, Becomes
  <1>5. /\ map'[h].entries = IF value = Null THEN map[h].entries
                             ELSE Append(map[h].entries, new)
        /\ \A g \in Handles \ {h} : map'[g] = map[g]
    BY <1>4 DEF IInv, Typed
  <1>6. \A g \in Handles : Spared(g, 0, heap')
    BY <1>1 DEF Stored, Spared
  <1>0. Called("Put", <<h, k, x>>, Denied(key, value)) /\ Seen!Stores(h, k)
    BY <1>1, SeenForms, Zenon DEF Stored
  <1>7. CASE value = Null
    <2>1. Seen!Nothing("Put", <<h, k, x>>, Denied(key, value))
      BY <1>0, <1>4, <1>5, <1>6, <1>7, KeptStep
    <2>2. Denied(key, value) \in {{"room"}, {"value"}, {"key", "value"}}
      BY <1>7 DEF Denied
    <2>3. Seen!PutNothing(h, k, x)
      BY <1>0, <2>1, <2>2, SeenNothing, Zenon
    <2>4. QED
      BY <2>3, SeenNext DEF DictStep
  <1>8. CASE value # Null
    <2>1. \A g \in Handles \ {h} : SameColumns(g) /\ SameLost(g)
      BY <1>5, <1>6, MapKept
    <2>2. PICK o, hp, p, hp2 : o = map[h] /\ hp = heap /\ p = map'[h] /\ hp2 = heap'
      OBVIOUS
    <2>3. /\ Held(o, hp) /\ Untouched(o, hp, hp2, 0)
          /\ new \in Entries /\ p.entries = Append(o.entries, new)
      BY <1>2, <1>3, <1>5, <1>6, <1>8, <2>2, HeldNow, SparedUntouched DEF Entries, Pointers
    <2>4. /\ new.key = key /\ new.value = value
          /\ hp2[value] = x
          /\ key # Null => hp2[key] = k
      BY <1>2, <1>3, <1>8, <2>2
    <2>5. \A l : ColumnOf(p, hp2, l) = IF key # Null /\ l = k
                                       THEN Append(ColumnOf(o, hp, l), x)
                                       ELSE ColumnOf(o, hp, l)
      <3> SUFFICES ASSUME NEW l
                   PROVE  ColumnOf(p, hp2, l) = IF key # Null /\ l = k
                                                THEN Append(ColumnOf(o, hp, l), x)
                                                ELSE ColumnOf(o, hp, l)
        OBVIOUS
      <3>1. ColumnOf(p, hp2, l) = IF new.key # Null /\ hp2[new.key] = l
                                  THEN Append(ColumnOf(o, hp, l), hp2[new.value])
                                  ELSE ColumnOf(o, hp, l)
        <4>1. Gains(p, o, new)
          BY <2>3 DEF Gains
        <4>2. QED
          BY <2>3, <4>1, ColumnAppended
      <3>2. QED
        BY <2>4, <3>1
    <2>6. PICK s : s = DictOf(map, heap)[h][k] /\ s = ColumnOf(o, hp, k)
      BY <2>2 DEF DictOf
    <2>7. PICK n \in Nat : n = Len(o.entries)
      BY <2>3, LenProperties DEF Held
    <2>8. /\ Len(p.entries) = n + 1 /\ p.entries[n + 1] = new
          /\ \A i \in 1..n : p.entries[i] = o.entries[i]
          /\ p.entries \in Seq(Entries) /\ o.entries \in Seq(Entries)
      BY <2>3, <2>7, AppendProperties DEF Held
    <2>9. CASE key # Null
      <3>1. OneColumn(h, k, Append(s, x))
        BY <2>1, <2>2, <2>5, <2>6, <2>9 DEF OneColumn, SameColumns
      <3>2. Lost(p) = Lost(o)
        <4>1. \A i : i \in 1..(n + 1) <=> i \in 1..n \/ i = n + 1
          OBVIOUS
        <4>2. QED
          BY <2>4, <2>7, <2>8, <2>9, <4>1 DEF Lost
      <3>3. SameLost(h)
        BY <2>2, <2>8, <3>2, LostAre DEF SameLost
      <3>4. LostOf(map') = LostOf(map)
        BY <2>1, <3>3, LostSame
      <3>5. Seen!Becomes(h, k, Append(s, x))
        BY <1>4, <3>1, <3>4, ColumnStep
      <3>6. ~multi => Append(s, x) = <<x>>
        <4>1. ~multi => s = <<>>
          BY <2>6
        <4>2. Append(<<>>, x) = <<x>>
          OBVIOUS
        <4>3. QED
          BY <4>1, <4>2, Zenon
      <3>7. Seen!Becomes(h, k, IF multi THEN Append(s, x) ELSE <<x>>)
        BY <3>5, <3>6
      <3>8. Seen!Put(h, k, x)
        <4>1. Denied(key, value) = {}
          BY <1>8, <2>9 DEF Denied
        <4>2. QED
          BY <1>0, <2>6, <3>7, <4>1, SeenForms, Zenon
      <3>9. QED
        BY <3>8, SeenNext DEF DictStep
    <2>10. CASE key = Null
      <3>1. DictOf(map', heap') = DictOf(map, heap)
        <4>1. SameColumns(h)
          BY <2>2, <2>5, <2>10 DEF SameColumns
        <4>2. QED
          BY <2>1, <4>1, DictSame
      <3>2. Lost(p) = Lost(o) \union {n + 1} /\ Lost(o) \in SUBSET (1..n)
        <4>1. \A i : i \in 1..(n + 1) <=> i \in 1..n \/ i = n + 1
          OBVIOUS
        <4>2. QED
          BY <2>4, <2>7, <2>8, <2>10, <4>1 DEF Lost
      <3>3. Cardinality(Lost(p)) = Cardinality(Lost(o)) + 1
        <4>1. IsFiniteSet(Lost(o))
          <5>1. IsFiniteSet(1..n)
            BY FS_Interval
          <5>2. QED
            BY <3>2, <5>1, FS_Subset
        <4>2. n + 1 \notin Lost(o)
          BY <3>2
        <4>3. QED
          BY <3>2, <4>1, <4>2, FS_AddElement
      <3>4. LostOf(map')[h] = LostOf(map)[h] + 1
        BY <2>2, <2>8, <3>3, LostAre
      <3>5. LostOf(map') = [LostOf(map) EXCEPT ![h] = LostOf(map)[h] + 1]
        <4>1. PICK D, E : D = LostOf(map) /\ E = LostOf(map')
          OBVIOUS
        <4>2. D = [g \in Handles |-> D[g]] /\ E = [g \in Handles |-> E[g]]
          BY <4>1 DEF LostOf
        <4>3. \A g \in Handles : E[g] = IF g = h THEN D[h] + 1 ELSE D[g]
          BY <2>1, <3>4, <4>1 DEF SameLost
        <4>4. E = [D EXCEPT ![h] = D[h] + 1]
          BY <4>2, <4>3
        <4>5. QED
          BY <4>1, <4>4
      <3>6. Seen!PutLosingKey(h, k, x)
        <4>1. Denied(key, value) = {"key"}
          BY <1>8, <2>10 DEF Denied
        <4>2. Called("Put", <<h, k, x>>, {"key"})
          BY <1>0, <4>1, Zenon
        <4>3. QED
          BY <1>0, <1>4, <3>1, <3>5, <4>2, SeenForms, Zenon
      <3>7. QED
        BY <3>6, SeenNext DEF DictStep
    <2>11. QED
      BY <2>9, <2>10
  <1>9. QED
    BY <1>7, <1>8

LEMMA PutStep ==
    ASSUME MapAssumption, IInv, Short, NEW h \in Handles, NEW k \in Keys, NEW x \in Values,
           Put(h, k, x)
    PROVE  DictStep
  <1>1. IF multi THEN Add(h, k, x)
        ELSE IF ~Searches(map[h], k) THEN Undefined
        ELSE IF Matches(map[h], k) # {} THEN Overwrite(h, k, x)
        ELSE Add(h, k, x)
    BY DEF Put
  <1>2. CASE Undefined
    BY <1>2, UndefinedStep
  <1>3. CASE ~multi /\ Matches(map[h], k) # {} /\ Overwrite(h, k, x)
    BY <1>3, OverwriteStep
  <1>4. CASE (multi \/ Matches(map[h], k) = {}) /\ Add(h, k, x)
    <2>1. multi \/ DictOf(map, heap)[h][k] = <<>>
      <3>1. Matches(map[h], k) = {} => ColumnOf(map[h], heap, k) = <<>>
        BY HeldNow, MatchesAre, ColumnRead
      <3>2. DictOf(map, heap)[h][k] = ColumnOf(map[h], heap, k)
        BY DEF DictOf
      <3>3. QED
        BY <1>4, <3>1, <3>2
    <2>2. CASE \E m \in [entries : Seq(Entries), cap : Nat] :
                  /\ m.entries = map[h].entries /\ Len(m.entries) < m.cap
                  /\ Store(h, m, k, x)
      BY <2>1, <2>2, StoreStep
    <2>3. CASE Nothing("Put", <<h, k, x>>, {"room"})
      <3>1. Seen!Nothing("Put", <<h, k, x>>, {"room"})
        BY <2>3, NothingStep
      <3>2. Seen!PutNothing(h, k, x)
        BY <2>1, <3>1, SeenForms, SeenNothing, Zenon
      <3>3. QED
        BY <3>2, SeenNext DEF DictStep
    <2>4. QED
      BY <1>4, <2>2, <2>3, AddParts
  <1>5. QED
    BY <1>1, <1>2, <1>3, <1>4

LEMMA NextStep ==
    ASSUME MapAssumption, IInv, Short, [Next]_vars PROVE DictStep
  <1>1. CASE UNCHANGED vars
    <2>1. map' = map /\ heap' = heap /\ multi' = multi /\ out' = out /\ call' = call
      BY <1>1 DEF vars
    <2>2. DictOf(map', heap') = DictOf(map, heap) /\ LostOf(map') = LostOf(map)
      BY <2>1
    <2>3. QED
      BY <2>1, <2>2, SeenStutter DEF DictStep
  <1>2. CASE Next
    BY <1>2, ReserveStep, PutStep, EraseStep, ClearStep, GetStep, ContainsStep,
       CountStep, SizeStep, SwapStep DEF Next
  <1>3. QED
    BY <1>1, <1>2

LEMMA SeenCases ==
    ASSUME Seen!Next
    PROVE  \/ \E h \in Handles, k \in Keys :
                 \/ \E x \in Values :
                       \/ Seen!Put(h, k, x) \/ Seen!PutNothing(h, k, x)
                       \/ Seen!PutLosingKey(h, k, x) \/ Seen!Get(h, k, x)
                 \/ Seen!Erase(h, k) \/ Seen!Contains(h, k) \/ Seen!Count(h, k)
           \/ \E h \in Handles, n \in Counts : Seen!Reserve(h, n)
           \/ \E h \in Handles : Seen!Clear(h) \/ Seen!Destroy(h) \/ Seen!Size(h)
           \/ \E g, h \in Handles : Seen!Swap(g, h)
  BY Zenon DEF Seen!Next

ShortNext == ~multi' => \A h \in Handles, k \in Keys : Len(DictOf(map', heap')[h][k]) <= 1

LEMMA BecomesShort ==
    ASSUME IInv, Short, NEW h \in Handles, NEW k \in Keys, NEW s,
           Seen!Becomes(h, k, s), ~multi => Len(s) <= 1
    PROVE  ShortNext
  <1>1. /\ DictOf(map', heap') = [DictOf(map, heap) EXCEPT ![h][k] = s]
        /\ multi' = multi
    BY Zenon DEF Seen!Becomes, DictOf, Column, ColumnOf, HasKey
  <1>2. PICK D, E : D = DictOf(map, heap) /\ E = DictOf(map', heap')
    OBVIOUS
  <1>3. D = [g \in Handles |-> D[g]] /\ \A g \in Handles : D[g] = [l \in Keys |-> D[g][l]]
    BY <1>2, DictTyped
  <1>4. \A g \in Handles, l \in Keys : E[g][l] = IF g = h /\ l = k THEN s ELSE D[g][l]
    <2>1. PICK r : r = [D[h] EXCEPT ![k] = s]
      OBVIOUS
    <2>2. E = [D EXCEPT ![h] = r]
      BY <1>1, <1>2, <2>1
    <2>3. \A l \in Keys : r[l] = IF l = k THEN s ELSE D[h][l]
      BY <1>3, <2>1
    <2>4. \A g \in Handles : E[g] = IF g = h THEN r ELSE D[g]
      BY <1>3, <2>2
    <2>5. QED
      BY <2>3, <2>4
  <1>5. QED
    BY <1>1, <1>2, <1>4 DEF Short, ShortNext

LEMMA DictKeptShort ==
    ASSUME Short, multi' = multi,
           \A h \in Handles, k \in Keys :
              \/ DictOf(map', heap')[h][k] = <<>>
              \/ \E g \in Handles : DictOf(map', heap')[h][k] = DictOf(map, heap)[g][k]
    PROVE  ShortNext
  <1>1. Len(<<>>) = 0
    OBVIOUS
  <1>2. QED
    BY <1>1 DEF Short, ShortNext

LEMMA ShortStep ==
    ASSUME IInv, Short, DictStep
    PROVE  ShortNext
  <1>1. CASE UNCHANGED Seen!vars
    <2>1. DictOf(map', heap') = DictOf(map, heap) /\ multi' = multi
      BY <1>1, Zenon DEF Seen!vars, DictOf, Column, ColumnOf, HasKey
    <2>2. QED
      BY <2>1, DictKeptShort
  <1>2. CASE \E op, args, x : Seen!Answers(op, args, x) \/ Seen!Nothing(op, args, x)
    <2>1. DictOf(map', heap') = DictOf(map, heap) /\ multi' = multi
      BY <1>2, SeenReads, SeenForms, Zenon
    <2>2. QED
      BY <2>1, DictKeptShort
  <1>3. ASSUME NEW h \in Handles, NEW k \in Keys, NEW x \in Values, Seen!Put(h, k, x)
        PROVE  ShortNext
    <2>1. PICK s : s = IF multi THEN Append(DictOf(map, heap)[h][k], x) ELSE <<x>>
      OBVIOUS
    <2>2. Seen!Becomes(h, k, s)
      BY <1>3, <2>1, SeenForms, Zenon
    <2>3. ~multi => Len(s) <= 1
      BY <2>1
    <2>4. QED
      BY <2>2, <2>3, BecomesShort
  <1>4. ASSUME NEW h \in Handles, NEW k \in Keys, NEW x, Seen!PutLosingKey(h, k, x)
        PROVE  ShortNext
    <2>1. DictOf(map', heap') = DictOf(map, heap) /\ multi' = multi
      BY <1>4, SeenForms, Zenon
    <2>2. QED
      BY <2>1, DictKeptShort
  <1>5. ASSUME NEW h \in Handles, NEW k \in Keys, Seen!Erase(h, k)
        PROVE  ShortNext
    <2>1. PICK s : s = DictOf(map, heap)[h][k]
      OBVIOUS
    <2>2. PICK r : r = IF s = <<>> THEN <<>> ELSE Tail(s)
      OBVIOUS
    <2>3. Seen!Becomes(h, k, r)
      BY <1>5, <2>1, <2>2, SeenForms, Zenon
    <2>4. s \in Seq(Values) /\ (~multi => Len(s) <= 1)
      BY <2>1, DictTyped DEF Short
    <2>5. s # <<>> => Len(Tail(s)) = Len(s) - 1 /\ Len(s) \in Nat
      BY <2>4, HeadTailProperties, LenProperties
    <2>6. ~multi => Len(r) <= 1
      <3>1. Len(<<>>) = 0
        OBVIOUS
      <3>2. QED
        BY <2>2, <2>4, <2>5, <3>1
    <2>7. QED
      BY <2>3, <2>6, BecomesShort
  <1>6. ASSUME NEW h \in Handles, Seen!Emptied(h) PROVE ShortNext
    <2>1. /\ DictOf(map', heap') = [DictOf(map, heap) EXCEPT ![h] = [k \in Keys |-> <<>>]]
          /\ multi' = multi
      BY <1>6, SeenForms, Zenon
    <2>2. PICK D, E : D = DictOf(map, heap) /\ E = DictOf(map', heap')
      OBVIOUS
    <2>3. D = [g \in Handles |-> D[g]]
      BY <2>2 DEF DictOf
    <2>4. \A g \in Handles, k \in Keys : E[g][k] = IF g = h THEN <<>> ELSE D[g][k]
      BY <2>1, <2>2, <2>3
    <2>5. QED
      BY <2>1, <2>2, <2>4, DictKeptShort
  <1>7. ASSUME NEW g \in Handles, NEW h \in Handles, Seen!Swap(g, h) PROVE ShortNext
    <2>1. /\ DictOf(map', heap') = [DictOf(map, heap) EXCEPT ![g] = DictOf(map, heap)[h],
                                                             ![h] = DictOf(map, heap)[g]]
          /\ multi' = multi
      BY <1>7, SeenForms, Zenon
    <2>2. PICK D, E : D = DictOf(map, heap) /\ E = DictOf(map', heap')
      OBVIOUS
    <2>3. D = [f \in Handles |-> D[f]]
      BY <2>2 DEF DictOf
    <2>4. \A f \in Handles : E[f] = D[IF f = h THEN g ELSE IF f = g THEN h ELSE f]
      BY <2>1, <2>2, <2>3
    <2>5. QED
      BY <2>1, <2>2, <2>4, DictKeptShort
  <1>8. ASSUME NEW h, NEW k, NEW x, NEW n,
               \/ Seen!Get(h, k, x) \/ Seen!Contains(h, k) \/ Seen!Count(h, k)
               \/ Seen!Size(h) \/ Seen!Reserve(h, n) \/ Seen!PutNothing(h, k, x)
        PROVE  \E op, args, y : Seen!Answers(op, args, y) \/ Seen!Nothing(op, args, y)
    BY <1>8, SeenReads, SeenNothing, ZenonT(60)
  <1>9. CASE Seen!Next
    <2>1. ASSUME NEW h \in Handles, Seen!Clear(h) \/ Seen!Destroy(h) PROVE ShortNext
      <3>1. Seen!Emptied(h)
        BY <2>1, SeenForms, Zenon
      <3>2. QED
        BY <1>6, <3>1
    <2>2. QED
      BY <1>2, <1>3, <1>4, <1>5, <1>7, <1>8, <1>9, <2>1, SeenCases
  <1>10. QED
    BY <1>1, <1>9 DEF DictStep

(* For any objects, keys, values, heap and capacities: as long as it is    *)
(* defined, every call on a map is the same method of AbstractDictionary,  *)
(* with the same arguments, the same answer and the same memory denied:    *)
(* no put that was refused memory erases a pair, and a put or an erase is  *)
(* never passed over.                                                      *)
THEOREM MapsImplementDictionaries == MapAssumption => (Spec => ImplementsDictionary)
  <1> SUFFICES ASSUME MapAssumption PROVE Spec => ImplementsDictionary
    OBVIOUS
  <1>1. Init => Seen!Init /\ Short
    <2> SUFFICES ASSUME Init PROVE Seen!Init /\ Short
      OBVIOUS
    <2>1. \A h \in Handles : map[h].entries = <<>>
      BY DEF Init, NewMap
    <2>2. \A h \in Handles, k \in Keys : ColumnOf(map[h], heap, k) = <<>>
      BY <2>1, ColumnEmpty
    <2>3. \A h \in Handles : LostOf(map)[h] = 0
      <3> SUFFICES ASSUME NEW h \in Handles PROVE LostOf(map)[h] = 0
        OBVIOUS
      <3>1. map[h].entries \in Seq(Entries) /\ Len(map[h].entries) = 0
        BY <2>1, EmptySeq
      <3>2. Lost(map[h]) = {}
        BY <3>1 DEF Lost
      <3>3. QED
        BY <3>1, <3>2, LostAre, FS_EmptySet
    <2>4. DictOf(map, heap) = [h \in Handles |-> [k \in Keys |-> <<>>]]
      BY <2>2 DEF DictOf
    <2>5. LostOf(map) = [h \in Handles |-> 0]
      BY <2>3 DEF LostOf
    <2>6. multi \in BOOLEAN /\ out = 0 /\ call = Seen!NoCall
      BY DEF Init, NoCall, Seen!NoCall
    <2>7. Seen!Init
      BY <2>4, <2>5, <2>6, Zenon
         DEF Seen!Init, Seen!Empty, DictOf, LostOf, Column, ColumnOf, HasKey
    <2>8. Short
      <3>1. Len(<<>>) = 0
        OBVIOUS
      <3>2. QED
        BY <2>4, <3>1 DEF Short
    <2>9. QED
      BY <2>7, <2>8
  <1>2. IInv /\ Short /\ [Next]_vars => [Seen!Next]_(Seen!vars) /\ Short'
    <2> SUFFICES ASSUME IInv, Short, [Next]_vars PROVE [Seen!Next]_(Seen!vars) /\ Short'
      OBVIOUS
    <2>1. DictStep
      BY NextStep
    <2>2. ShortNext
      BY <2>1, ShortStep
    <2>3. Short'
      BY <2>2 DEF ShortNext, Short, DictOf
    <2>4. QED
      BY <2>1, <2>3 DEF DictStep
  <1>3. Spec => []IInv
    BY InvariantHolds
  <1>4. QED
    BY <1>1, <1>2, <1>3, PTL DEF Spec, ImplementsDictionary, Seen!Spec
=============================================================================
