SPECIFICATION Spec
CONSTANTS
    n1 = n1
    x = x
    n2 = n2
    n3 = n3
    Server = {n1, n2, n3}
    Rank <- InOrder
    Command = {x}
    NoNode = NoNode
    Electors = {n1,n2}
    Writers = {n1,n2}
    MaxTerm = 2
    MaxLog = 1
    MaxLost = 0
    MaxLate = 0
    MaxCrashes = 0
    MaxFaults = 0

INVARIANT CommittedEntriesAgree
CHECK_DEADLOCK FALSE
