SPECIFICATION FairSpec
CONSTANTS
    p1 = p1
    p2 = p2
    p3 = p3
    Producer = {p1, p2}
    Capacity = 2
    Empty = Empty
    MaxSent = 3
INVARIANTS
    ExactlyOnceInOrder
    LastDrainIsComplete
PROPERTIES
    IsChannel
    CloseReturns
