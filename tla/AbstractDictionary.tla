------------------------- MODULE AbstractDictionary --------------------------
(***************************************************************************)
(* What Map, Dict, HashDict, MultiDict and MultiHashDict promise: for each *)
(* key a sequence of values, of one at most unless multi.  The oldest is   *)
(* the one that is read and the one that is erased.  Every call does what  *)
(* its method is named for.  A put that is denied memory changes nothing - *)
(* or, denied the copy of its key only, stores a pair without one, which   *)
(* is counted by Size and by nothing else.                                 *)
(***************************************************************************)
EXTENDS Calls, Sequences, FiniteSets

CONSTANTS
    Handles, Keys, Values,
    Counts      \* the capacities that are asked for

VARIABLES
    multi,
    dict,     \* Handles -> [Keys -> Seq(Values)]
    keyless,  \* Handles -> Nat: the pairs whose key was lost
    out,
    call

Empty == [k \in Keys |-> <<>>]

Init ==
    /\ multi \in BOOLEAN
    /\ dict = [h \in Handles |-> Empty]
    /\ keyless = [h \in Handles |-> 0]
    /\ out = 0
    /\ call = NoCall

Called(op, args, denied) == call' = CallAfter(call, op, args, denied)

Nothing(op, args, denied) ==
    /\ Called(op, args, denied)
    /\ UNCHANGED <<multi, dict, keyless, out>>

Becomes(h, k, s) ==
    /\ dict' = [dict EXCEPT ![h][k] = s]
    /\ UNCHANGED <<multi, keyless, out>>

Answers(op, args, x) ==
    /\ Called(op, args, {})
    /\ out' = x
    /\ UNCHANGED <<multi, dict, keyless>>

-----------------------------------------------------------------------------
Reserve(h, n) ==
    \E denied \in {{}, {"room"}} : Nothing("Reserve", <<h, n>>, denied)

\* Its value is replaced, or one more stored behind those of the key.
Put(h, k, x) ==
    /\ Called("Put", <<h, k, x>>, {})
    /\ Becomes(h, k, IF multi THEN Append(dict[h][k], x) ELSE <<x>>)

\* Only a put that stores one more asks for memory: for the entry, the copy
\* of the key, and the value.
Stores(h, k) == multi \/ dict[h][k] = <<>>

PutNothing(h, k, x) ==
    /\ Stores(h, k)
    /\ \E denied \in {{"room"}, {"value"}, {"key", "value"}} :
          Nothing("Put", <<h, k, x>>, denied)

PutLosingKey(h, k, x) ==
    /\ Stores(h, k)
    /\ Called("Put", <<h, k, x>>, {"key"})
    /\ keyless' = [keyless EXCEPT ![h] = @ + 1]
    /\ UNCHANGED <<multi, dict, out>>

Erase(h, k) ==
    /\ Called("Erase", <<h, k>>, {})
    /\ Becomes(h, k, IF dict[h][k] = <<>> THEN <<>> ELSE Tail(dict[h][k]))

Emptied(h) ==
    /\ dict' = [dict EXCEPT ![h] = Empty]
    /\ keyless' = [keyless EXCEPT ![h] = 0]
    /\ UNCHANGED <<multi, out>>

Clear(h) == Called("Clear", <<h>>, {}) /\ Emptied(h)

Destroy(h) == Called("Destroy", <<h>>, {}) /\ Emptied(h)

Swap(g, h) ==
    /\ Called("Swap", <<g, h>>, {})
    /\ dict' = [dict EXCEPT ![g] = dict[h], ![h] = dict[g]]
    /\ keyless' = [keyless EXCEPT ![g] = keyless[h], ![h] = keyless[g]]
    /\ UNCHANGED <<multi, out>>

-----------------------------------------------------------------------------
Get(h, k, fallback) ==
    Answers("Get", <<h, k, fallback>>,
            IF dict[h][k] = <<>> THEN fallback ELSE Head(dict[h][k]))

Contains(h, k) ==
    Answers("Contains", <<h, k>>, IF dict[h][k] = <<>> THEN 0 ELSE 1)

Count(h, k) == Answers("Count", <<h, k>>, Len(dict[h][k]))

Pairs(d) == UNION {{<<k, i>> : i \in DOMAIN d[k]} : k \in Keys}

Size(h) == Answers("Size", <<h>>, Cardinality(Pairs(dict[h])) + keyless[h])

Next ==
    \E h \in Handles :
        \/ Clear(h) \/ Destroy(h) \/ Size(h)
        \/ \E n \in Counts : Reserve(h, n)
        \/ \E k \in Keys : Erase(h, k) \/ Contains(h, k) \/ Count(h, k)
        \/ \E k \in Keys, x \in Values :
              \/ Put(h, k, x) \/ PutNothing(h, k, x) \/ PutLosingKey(h, k, x)
              \/ Get(h, k, x)
        \/ \E other \in Handles : Swap(h, other)

vars == <<multi, dict, keyless, out, call>>

Spec == Init /\ [][Next]_vars
=============================================================================
