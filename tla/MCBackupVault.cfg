CONSTANTS
    d1 = d1
    d2 = d2
    r1 = r1
    r2 = r2
    None = None
    Refused = Refused
    N = 3
    Before = 1
    Weekly = {3}
    Deployment = {d1, d2}
    Restore = {r1, r2}
    SourceEntries = {"link_into_source", "link_outside"}
    DailyCopies = 1
    WeeklyCopies = 1
    MinimumKnownGood = 2
    MaxVault = 20
    MaxKills = 1
    MaxDecay = 1
    MaxRedeploys = 1
    MaxDrills = 1
    MaxRetentions = 1
SPECIFICATION Spec
INVARIANTS
    PassedIsAccountedFor
    WithinLimit
PROPERTIES
    RemovalKeepsRestorable
CHECK_DEADLOCK FALSE
