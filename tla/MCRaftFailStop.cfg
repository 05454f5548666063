SPECIFICATION FairSpec
CONSTANTS
    n1 = n1
    x = x
    n2 = n2
    n3 = n3
    Server = {n1, n2}
    Rank <- AnyOrder
    Command = {x}
    NoNode = NoNode
    Electors = {n1,n2}
    Writers = {n1,n2}
    MaxTerm = 2
    MaxLog = 1
    MaxLost = 0
    MaxLate = 1
    MaxCrashes = 1
    MaxFaults = 1

INVARIANT HealthyIsDurable
PROPERTIES AppendReturns
CHECK_DEADLOCK FALSE
