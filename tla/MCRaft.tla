------------------------------- MODULE MCRaft -------------------------------
(***************************************************************************)
(* Instances of Raft for TLC.                                              *)
(***************************************************************************)
EXTENDS RaftInvariant, TLC

CONSTANTS n1, n2, n3, x

\* The order of peers_: open, or the same list on every node.
AnyOrder == [p \in Server |-> 0]
InOrder == n1 :> 1 @@ n2 :> 2 @@ n3 :> 3

=============================================================================
