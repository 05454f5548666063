SPECIFICATION Spec
CONSTANTS
    r1 = r1
    alice = alice
    bob = bob
    w1 = w1
    w2 = w2
    Room = {r1}
    User = {alice, bob}
    Capacity = {0}
    Worker = {w1}
    NoRoom = NoRoom
    MaxChurn = 0
    MaxFrames = 2
    MaxInstances = 1
    MaxBattles = 1
    MaxPending = 1
    MaxLost = 0
CHECK_DEADLOCK FALSE
SYMMETRY Sym
INVARIANT CompletedIsSettled
