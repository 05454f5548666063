SPECIFICATION RestartSpec
CONSTANTS
    n1 = n1
    n2 = n2
    n3 = n3
    x = x
    Server = {n1, n2, n3}
    Rank <- InOrder
    Command = {x}
    NoNode = NoNode
    Electors = {n1, n2}
    Writers = {n1}
    MaxTerm = 3
    MaxLog = 2
    MaxLost = 0
    MaxLate = 0
    MaxCrashes = 0
    MaxFaults = 0
INVARIANTS
    LogMatching
    ElectionSafety
    KnownLeaderWasElected
PROPERTIES
    LeaderAppendOnly
CHECK_DEADLOCK FALSE
