SPECIFICATION WindowSpec
CONSTANTS
 None=None
 Record={"r1","r2"}
 MaxNow=9
 Timeout=5 RearmAfter=6 Refresh=4 SnapshotAge=4
 MaxFaults=1 MaxExtra=1 MaxDrift=1 MaxTrouble=1 ActivateBy=1 ArmBy=2
 Starts={4,6} Duration=4 Lead=4 ReportAge=2 Misses=0
CHECK_DEADLOCK FALSE
INVARIANT HeartbeatIsEarned AttestedDrillWasReal FinalIsEarned FailureIsHeard
