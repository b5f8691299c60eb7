------------------------------ MODULE MCDriver ------------------------------
(***************************************************************************)
(* Driver on a small instance: two sources of one stem and a third, one of *)
(* them with a main; the outputs "a" and "a.o".                            *)
(***************************************************************************)
EXTENDS Driver

CONSTANTS x1, x2, y

Stems == (x1 :> "x") @@ (x2 :> "x") @@ (y :> "y")

CFiles == (x1 :> "x.c") @@ (x2 :> "x.c") @@ (y :> "y.c")

Beside == ("a" :> "a") @@ ("a.o" :> "a")

\* Without -g, and -g -O2.
Flags == {[level |-> 0, optimize |-> ""], [level |-> 1, optimize |-> "O2"]}

CommandLines == {<<>>, <<x1>>, <<y>>, <<x1, x2>>, <<y, x1>>}
=============================================================================
