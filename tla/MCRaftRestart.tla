---------------------------- MODULE MCRaftRestart ----------------------------
(***************************************************************************)
(* Raft from a later reachable state: n2 led term 1, two append_command    *)
(* calls reached none of its peers and returned false, and the whole       *)
(* cluster was restarted from its state files.                             *)
(***************************************************************************)
EXTENDS MCRaft

Unreplicated == [term |-> 1, command |-> x]
Disk(i) == [EmptyDisk EXCEPT !.currentTerm = 1, !.votedFor = n2,
                !.log = IF i = n2 THEN <<Unreplicated, Unreplicated>> ELSE << >>]

RestartInit ==
    /\ node = [i \in Server |-> Started(i, Disk(i))]
    /\ call = [i \in Server |-> [th \in Thread |-> Idle]]
    /\ late = {}
    /\ granted = {<<1, n1, n2>>, <<1, n3, n2>>}
    /\ elected = {<<1, n2>>}
    /\ acked = {}
    /\ lost = 0
    /\ crashes = 0
    /\ faults = 0

RestartSpec == RestartInit /\ [][Next]_vars
=============================================================================
