---------------------------- MODULE MCExceptions ----------------------------
(***************************************************************************)
(* Exceptions and its refinement on a small instance: a few stack slots, a *)
(* bounded number of scopes opened in a run.  The slots are model values;  *)
(* no symmetry is declared, because temporal formulas are checked.         *)
(***************************************************************************)
EXTENDS ExceptionsRefinement

CONSTANTS s1, s2
=============================================================================
