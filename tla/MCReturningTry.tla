--------------------------- MODULE MCReturningTry ---------------------------
(***************************************************************************)
(* ReturningTry on a small instance.                                       *)
(***************************************************************************)
EXTENDS ReturningTry

CONSTANTS s1, s2
=============================================================================
