------------------------- MODULE MCWriteBehindStore -------------------------
(***************************************************************************)
(* A store with two callers and two battles, for TLC.                      *)
(***************************************************************************)
EXTENDS WriteBehindStore, TLC

CONSTANTS c1, c2, b1, b2

Sym == Permutations({c1, c2}) \cup Permutations({b1, b2})
=============================================================================
