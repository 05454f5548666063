------------------------------ MODULE Channel -------------------------------
(***************************************************************************)
(* What a mailbox promises to the threads that post to it and to the core  *)
(* that drains it: a bounded first-in first-out channel that accepts       *)
(* nothing once it is shut, and forgets and repeats nothing.               *)
(***************************************************************************)
EXTENDS Integers, Sequences

CONSTANTS
    Item,   \* what can be sent
    Limit   \* how much the channel holds

VARIABLES
    accepted,   \* everything accepted so far, in order
    delivered,  \* everything delivered so far, in order
    shut        \* nothing is accepted any more

vars == <<accepted, delivered, shut>>

Init == accepted = <<>> /\ delivered = <<>> /\ shut = FALSE

Accept ==
    /\ ~shut
    /\ Len(accepted) - Len(delivered) < Limit
    /\ Len(accepted') = Len(accepted) + 1
    /\ accepted' = Append(accepted, accepted'[Len(accepted) + 1])
    /\ accepted'[Len(accepted) + 1] \in Item
    /\ UNCHANGED <<delivered, shut>>

Deliver ==
    /\ Len(delivered) < Len(accepted)
    /\ delivered' = Append(delivered, accepted[Len(delivered) + 1])
    /\ UNCHANGED <<accepted, shut>>

Shut == shut' = TRUE /\ UNCHANGED <<accepted, delivered>>

Next == Accept \/ Deliver \/ Shut

Spec == Init /\ [][Next]_vars
=============================================================================
