SPECIFICATION FairSpec
CONSTANTS
    Timer = {t1, t2}
    Counts <- SomeCounts
    Delays = {0, 1}
    MaxNow = 2
    MaxCalls = 4
    MaxCalled = 3
INVARIANTS
    TypeOK
    WalkIsSafe
    CallsAreCounted
    NoTimerOversleeps
PROPERTIES
    DueIsCalled
