------------------------------- MODULE AnyMap -------------------------------
(***************************************************************************)
(* The classes Map, Dict, HashDict (multi FALSE), MultiDict, MultiHashDict *)
(* (multi TRUE) of Sys::STL over CMotive_AnyMap: an array of pairs of      *)
(* pointers, to a copy of the key and to a copy of the value, each in a    *)
(* heap block of its own.  The methods that change the map are Void.       *)
(*                                                                         *)
(* Only the entries counted are kept: no function reads the cells beyond  *)
(* them.  The heap says what each block holds.  status is "undefined" once a NULL *)
(* or a freed pointer has been read, written or freed.                     *)
(***************************************************************************)
EXTENDS Calls, Sequences, FiniteSets

CONSTANTS
    Handles,    \* the objects of the program
    Keys,       \* strings
    Values,     \* integers, 0 among them
    Blocks,     \* bound: the heap blocks, numbered from 1
    Free,       \* what an unallocated block holds
    FirstCap,   \* the capacity the first growth gives: 8 in the code
    MaxEntries  \* bound: the capacity of a map

Null == 0

MapAssumption ==
    /\ Values \subseteq Int /\ 0 \in Values
    /\ Blocks \subseteq Nat \ {Null}
    /\ Free \notin Keys \union Values
    /\ FirstCap \in Nat \ {0} /\ MaxEntries \in Nat

VARIABLES
    multi,    \* which of the classes the objects are of
    made,     \* the objects that hold a map; the others hold Null
    map,      \* Handles -> [entries, cap]
    heap,     \* Blocks -> what it holds
    refused,  \* which copies malloc was asked for in vain: a history variable
    status,
    out,      \* what the last method with a result returned
    call      \* the last method called: a history variable

vars == <<multi, made, map, heap, refused, status, out, call>>

Pointers == Blocks \union {Null}

NewMap == [entries |-> <<>>, cap |-> 0]

InUse(m) == DOMAIN m.entries

Init ==
    /\ multi \in BOOLEAN
    /\ made \in SUBSET Handles
    /\ map = [h \in Handles |-> NewMap]
    /\ heap = [b \in Blocks |-> Free]
    /\ refused = {}
    /\ status = "running"
    /\ out = 0
    /\ call = NoCall

-----------------------------------------------------------------------------
(* The heap.                                                               *)

Allocated(hp) == {b \in Blocks : hp[b] # Free}

\* What malloc may return: the lowest free block, or NULL.
Malloc(hp) ==
    {Null} \union {b \in Blocks \ Allocated(hp) :
                      \A c \in Blocks \ Allocated(hp) : b <= c}

\* strdup, or malloc and memcpy.
Filled(hp, block, x) ==
    IF block = Null THEN hp ELSE [hp EXCEPT ![block] = x]

\* free(NULL) does nothing.
Freed(hp, blocks) == [b \in Blocks |-> IF b \in blocks THEN Free ELSE hp[b]]

\* The blocks can all be freed: none is free already, none comes twice.
MayFree(m, which) ==
    /\ \A i \in which :
          {m.entries[i].key, m.entries[i].value}
              \subseteq Allocated(heap) \union {Null}
    /\ \A i, j \in which : i # j =>
          {m.entries[i].key, m.entries[i].value} \intersect
              {m.entries[j].key, m.entries[j].value} \subseteq {Null}

BlocksOf(m, which) ==
    (UNION {{m.entries[i].key, m.entries[i].value} : i \in which}) \ {Null}

Undefined ==
    /\ status' = "undefined"
    /\ UNCHANGED <<multi, made, map, heap, refused, out, call>>

-----------------------------------------------------------------------------
(* cmotive_stl_map_any_index.                                              *)

HasKey(m, i, k) == m.entries[i].key # Null /\ heap[m.entries[i].key] = k

Matches(m, k) == {i \in InUse(m) : HasKey(m, i, k)}

First(which) == CHOOSE i \in which : \A j \in which : i <= j

\* The entries whose key is compared with k before the search ends.
Compared(m, k) ==
    {i \in InUse(m) : \A j \in Matches(m, k) : i <= j}

Readable(m, which) ==
    \A i \in which : m.entries[i].key \in Allocated(heap)

\* strcmp reads the key of every entry it meets.
Searches(m, k) == Readable(m, Compared(m, k))

-----------------------------------------------------------------------------
(* Methods that change the map.                                            *)

Running(h) == status = "running" /\ h \in made

Called(op, args, denied) == call' = CallAfter(call, op, args, denied)

Answers(op, args, x) ==
    /\ Called(op, args, {})
    /\ out' = x
    /\ UNCHANGED <<multi, made, map, heap, refused, status>>

Nothing(op, args, denied) ==
    /\ Called(op, args, denied)
    /\ UNCHANGED <<multi, made, map, heap, refused, status, out>>

Becomes(h, m) ==
    /\ m.cap <= MaxEntries
    /\ map' = [map EXCEPT ![h] = m]
    /\ UNCHANGED <<multi, made, status, out>>

Counts == 0..MaxEntries

Reserve(h, n) ==
    /\ Running(h)
    /\ IF n <= map[h].cap THEN Nothing("Reserve", <<h, n>>, {})
       ELSE \/ /\ Called("Reserve", <<h, n>>, {})
               /\ Becomes(h, [map[h] EXCEPT !.cap = n])
               /\ UNCHANGED <<heap, refused>>
            \/ Nothing("Reserve", <<h, n>>, {"room"})

\* memcpy into the value that is there.
Overwrite(h, k, x) ==
    LET block == map[h].entries[First(Matches(map[h], k))].value
    IN  IF block \in Allocated(heap)
        THEN /\ Called("Put", <<h, k, x>>, {})
             /\ heap' = Filled(heap, block, x)
             /\ UNCHANGED <<multi, made, map, refused, status, out>>
        ELSE Undefined

\* What malloc refused for the two copies.
Denied(key, value) ==
    (IF key = Null THEN {"key"} ELSE {})
        \union (IF value = Null THEN {"value"} ELSE {})

\* Mutant: without memory for the value the last entry is taken back.
StoreTakenBack(h, m, k, x) ==
    \E key \in Malloc(heap) :
      LET withKey == Filled(heap, key, k)
      IN  \E value \in Malloc(withKey) :
            /\ Called("Put", <<h, k, x>>, Denied(key, value))
            /\ heap' = Filled(withKey, value, x)
            /\ refused' = refused \union Denied(key, value)
            /\ Becomes(h,
                 [m EXCEPT !.entries =
                    IF value # Null
                    THEN Append(@, [key |-> key, value |-> value])
                    ELSE SubSeq(@, 1, Len(@) - 1)])

\* The entry is written, and counted only if the value was allocated; whether
\* the key was is not looked at.  m has a cell for it.
Store(h, m, k, x) ==
    \E key \in Malloc(heap) :
      LET withKey == Filled(heap, key, k)
      IN  \E value \in Malloc(withKey) :
            /\ Called("Put", <<h, k, x>>, Denied(key, value))
            /\ heap' = Filled(withKey, value, x)
            /\ refused' = refused \union Denied(key, value)
            /\ Becomes(h, IF value = Null THEN m ELSE
                  [m EXCEPT !.entries =
                      Append(@, [key |-> key, value |-> value])])

Add(h, k, x) ==
    LET m == map[h]
    IN  IF Len(m.entries) < m.cap THEN Store(h, m, k, x)
        ELSE \/ Store(h, [m EXCEPT !.cap = IF @ > 0 THEN 2 * @ ELSE FirstCap],
                      k, x)
             \/ Nothing("Put", <<h, k, x>>, {"room"})   \* realloc fails

\* Insert, Put, InsertOrAssign and Emplace.
Put(h, k, x) ==
    /\ Running(h)
    /\ IF multi THEN Add(h, k, x)
       ELSE IF ~Searches(map[h], k) THEN Undefined
       ELSE IF Matches(map[h], k) # {} THEN Overwrite(h, k, x)
       ELSE Add(h, k, x)

\* Mutant: count is not decremented.
EraseFirstCounted(h, k) ==
    LET m == map[h]
        i == First(Matches(m, k))
    IN  IF MayFree(m, {i})
        THEN /\ Called("Erase", <<h, k>>, {})
             /\ heap' = Freed(heap, BlocksOf(m, {i}))
             /\ UNCHANGED <<multi, made, map, refused, status, out>>
        ELSE Undefined

EraseFirst(h, k) ==
    LET m == map[h]
        i == First(Matches(m, k))
    IN  IF MayFree(m, {i})
        THEN /\ Called("Erase", <<h, k>>, {})
             /\ Becomes(h, [m EXCEPT !.entries =
                SubSeq(@, 1, i - 1) \o SubSeq(@, i + 1, Len(@))])
             /\ heap' = Freed(heap, BlocksOf(m, {i}))
             /\ UNCHANGED refused
        ELSE Undefined

Erase(h, k) ==
    /\ Running(h)
    /\ IF ~Searches(map[h], k) THEN Undefined
       ELSE IF Matches(map[h], k) # {} THEN EraseFirst(h, k)
       ELSE Nothing("Erase", <<h, k>>, {})

\* Mutant: the values are forgotten.
FreeAllKeys(h) ==
    /\ heap' = Freed(heap, {map[h].entries[i].key : i \in InUse(map[h])})
    /\ UNCHANGED <<multi, refused, status, out>>

FreeAll(h) ==
    /\ heap' = Freed(heap, BlocksOf(map[h], InUse(map[h])))
    /\ UNCHANGED <<multi, refused, status, out>>

\* Mutant: the entries are freed, and not dropped.
ClearCounted(h) ==
    /\ Running(h)
    /\ IF MayFree(map[h], InUse(map[h]))
       THEN Called("Clear", <<h>>, {}) /\ FreeAll(h) /\ UNCHANGED <<map, made>>
       ELSE Undefined

Clear(h) ==
    /\ Running(h)
    /\ IF MayFree(map[h], InUse(map[h]))
       THEN /\ Called("Clear", <<h>>, {})
            /\ FreeAll(h)
            /\ map' = [map EXCEPT ![h].entries = <<>>]
            /\ UNCHANGED made
       ELSE Undefined

Destroy(h) ==
    /\ Running(h)
    /\ IF MayFree(map[h], InUse(map[h]))
       THEN /\ Called("Destroy", <<h>>, {})
            /\ FreeAll(h)
            /\ map' = [map EXCEPT ![h] = NewMap]
            /\ made' = made \ {h}
       ELSE Undefined

Swap(h, other) ==
    /\ Running(h) /\ Running(other)
    /\ Called("Swap", <<h, other>>, {})
    /\ map' = [map EXCEPT ![h] = map[other], ![other] = map[h]]
    /\ UNCHANGED <<multi, made, heap, refused, status, out>>

-----------------------------------------------------------------------------
(* Methods that read it.                                                   *)

ValueOf(h, k, fallback) ==
    LET m == map[h]
    IN  IF Matches(m, k) = {} THEN fallback
        ELSE heap[m.entries[First(Matches(m, k))].value]

\* At is Get with the fallback 0.
Get(h, k, fallback) ==
    /\ status = "running"
    /\ IF Searches(map[h], k)
       THEN Answers("Get", <<h, k, fallback>>, ValueOf(h, k, fallback))
       ELSE Undefined

\* Find, LowerBound, UpperBound and EqualRange are the same search.
Contains(h, k) ==
    /\ status = "running"
    /\ IF Searches(map[h], k)
       THEN Answers("Contains", <<h, k>>,
                    IF Matches(map[h], k) # {} THEN 1 ELSE 0)
       ELSE Undefined

Count(h, k) ==
    /\ status = "running"
    /\ IF Readable(map[h], InUse(map[h]))
       THEN Answers("Count", <<h, k>>, Cardinality(Matches(map[h], k)))
       ELSE Undefined

Size(h) ==
    status = "running" /\ Answers("Size", <<h>>, Len(map[h].entries))

Next ==
    \E h \in Handles :
        \/ Clear(h) \/ Destroy(h) \/ Size(h)
        \/ \E n \in Counts : Reserve(h, n)
        \/ \E k \in Keys : Erase(h, k) \/ Contains(h, k) \/ Count(h, k)
        \/ \E k \in Keys, x \in Values : Put(h, k, x) \/ Get(h, k, x)
        \/ \E other \in Handles : Swap(h, other)

Spec == Init /\ [][Next]_vars

-----------------------------------------------------------------------------
(* No map has more entries than cells. *)
TypeOK ==
    /\ multi \in BOOLEAN
    /\ made \subseteq Handles
    /\ map \in [Handles -> [entries : Seq([key : Pointers, value : Pointers]),
                            cap : 0..MaxEntries]]
    /\ \A h \in Handles : Len(map[h].entries) <= map[h].cap
    /\ heap \in [Blocks -> Keys \union Values \union {Free}]
    /\ refused \subseteq {"key", "value"}
    /\ status \in {"running", "undefined"}
    /\ out \in Int

Owned(h) == BlocksOf(map[h], InUse(map[h]))

(* Each entry in use has a value block of its own, and a key block of its  *)
(* own or NULL, all allocated: erasing, clearing or destroying one map in  *)
(* whatever state frees nothing twice and nothing another entry points to. *)
OneOwner ==
    /\ \A h \in Handles :
          /\ MayFree(map[h], InUse(map[h]))
          /\ \A i \in InUse(map[h]) :
                map[h].entries[i].value \notin {Null, map[h].entries[i].key}
    /\ \A g, h \in Handles : g # h => Owned(g) \intersect Owned(h) = {}

(* The program stays defined unless the copy of a key was refused memory:  *)
(* put does not look at what strdup returned, and the next search that     *)
(* reaches the entry compares its key with NULL.                           *)
UndefinedOnlyForALostKey == status = "undefined" => "key" \in refused

(* A block no map owns is a block lost: that happens only where put finds  *)
(* memory for the key and none for the value.                              *)
LeaksOnlyForALostValue ==
    Allocated(heap) # UNION {Owned(h) : h \in Handles} => "value" \in refused

Column(h, k) ==
    LET m == map[h]
        Upto[i \in 0..Len(m.entries)] ==
            IF i = 0 THEN <<>>
            ELSE IF HasKey(m, i, k)
            THEN Append(Upto[i - 1], heap[m.entries[i].value])
            ELSE Upto[i - 1]
    IN  Upto[Len(m.entries)]

Seen == INSTANCE AbstractDictionary WITH
            dict <- [h \in Handles |-> [k \in Keys |-> Column(h, k)]],
            keyless <- [h \in Handles |->
                Cardinality({i \in InUse(map[h]) :
                                map[h].entries[i].key = Null})]

(* As long as it is defined, every method does with its arguments what its *)
(* name says of a dictionary: put replaces or appends, get and erase take  *)
(* the oldest, get answers its own fallback, the other keys and the other  *)
(* maps are left alone, and a put that was denied memory at any of its     *)
(* three allocations spoils no pair stored before.                         *)
ImplementsDictionary == Seen!Spec
=============================================================================
