SPECIFICATION FairSpec
CONSTANTS
    Channel = {c1, c2, c3}
    Fd = {f1, f2}
    None = None
INVARIANTS
    TypeOK
    SetsMatchList
    WalkIsSafe
    WritesAreWaitedFor
PROPERTIES
    RemovedIsDeleted
