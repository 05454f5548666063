----------------------------- MODULE MCLongSoak -----------------------------
(* LongSoak on a small instance.  The graces keep the order they have in    *)
(* the code: a poll (0.2 s) < the grace of an expired wait (0.5 s) < the    *)
(* wait after SIGKILL (2 s), the cancellation grace of gate and soak (3 s)  *)
(* < the orchestrator's (10 s), which covers a poll, a grace and a kill.    *)
EXTENDS LongSoak

MCCancelGrace == [orch |-> 8, gate |-> 3, soak |-> 3]
MCTimeoutGrace == [orch |-> 2, gate |-> 2, soak |-> 3]

(* Nothing is left but summaries of the commit; those and a whole topology  *)
(* of the commit before, its gateway exporting; or summaries of the commit  *)
(* before, whose collector was killed between the restart of the            *)
(* leaderboard on Redis and that of the gateway.                            *)
Finds(rev, left, board, gateway) == [rev |-> rev, left |-> left, board |-> board, gateway |-> gateway]
MCFound == {Finds(1, {}, "", ""), Finds(1, Service, "", "export"), Finds(0, {"battle", "board"}, "redis", "")}
MCPlans == {<<>>, <<"soak", "capacity">>, <<"capacity", "business">>}
=============================================================================
