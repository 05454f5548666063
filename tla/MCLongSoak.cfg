SPECIFICATION LongSpec
CONSTANTS
  None = None
  Poll = 1
  Hard = 2
  CancelGrace <- MCCancelGrace
  TimeoutGrace <- MCTimeoutGrace
  MaxStuck = 1
  TestSteps = 1
  MinPasses = 2
  Confirmations = 2
  Deviations = {1, 2, 3}
  StandardRate = 75
  StandardDev = 1
  RareRate = 50
  RareDev = 2
  MaxTrouble = 1
  Plans <- MCPlans
  Found <- MCFound
  MaxRuns = 1
INVARIANTS
    PassWasEarned
    OrphansWereSignalled
    SoakVerdictIsDeserved
    AttestedServicesAreOwn
CHECK_DEADLOCK FALSE
