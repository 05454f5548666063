CONSTANTS
    d1 = d1
    d2 = d2
    r1 = r1
    r2 = r2
    p1 = p1
    p2 = p2
    None = None
    Refused = Refused
    Empty = Empty
    Mutated = Mutated
    N = 1
    Before = 1
    Weekly = {}
    Deployment = {d1, d2}
    Restore = {r1, r2}
    SourceEntries = {}
    DailyCopies = 1
    WeeklyCopies = 1
    MinimumKnownGood = 2
    MaxVault = 20
    MaxKills = 0
    MaxDecay = 0
    MaxRedeploys = 1
    MaxDrills = 2
    MaxRetentions = 0
    Proc = {p1, p2}
    MaxFaults = 1
    MaxStops = 1
SPECIFICATION FairSpec
INVARIANTS
    PassedBusinessIsClean
    KnownGoodIsProven
PROPERTIES
    VaultSpec
    LockIsReleased
CHECK_DEADLOCK FALSE
