---------------------------- MODULE MCBattleFlow ----------------------------
(***************************************************************************)
(* Instances of BattleFlow for TLC.                                        *)
(***************************************************************************)
EXTENDS BattleFlow, TLC

CONSTANTS r1, alice, bob, w1, w2

Sym == Permutations(User) \cup Permutations(Worker)
=============================================================================
