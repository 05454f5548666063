----------------------------- MODULE MCMpscQueue ----------------------------
(***************************************************************************)
(* Instances of MpscQueue for TLC.                                         *)
(***************************************************************************)
EXTENDS MpscQueue, TLC

CONSTANTS p1, p2, p3

Sym == Permutations(Producer)
=============================================================================
