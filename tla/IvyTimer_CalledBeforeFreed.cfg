SPECIFICATION Spec
CONSTANTS
    Timer = {t1, t2}
    Counts = {1, 2}
    Delays = {0, 1}
    MaxNow = 3
    MaxCalls = 3
    MaxCalled = 3
INVARIANTS
    CalledBeforeFreed
