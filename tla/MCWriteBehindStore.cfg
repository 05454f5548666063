SPECIFICATION FairSpec
CONSTANTS
    c1 = c1
    c2 = c2
    b1 = b1
    b2 = b2
    Caller = {c1, c2}
    Battle = {b1, b2}
    Owner = owner
    Worker = worker
    MaxWrites = 2
CHECK_DEADLOCK FALSE
INVARIANTS
    WritesAccountedFor
    FlushCovers
    WorkerNeverOversleeps
PROPERTIES
    DocumentsNeverGoBack
    CallsReturn
