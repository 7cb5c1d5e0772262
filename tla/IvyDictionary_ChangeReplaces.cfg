SPECIFICATION Spec
CONSTANTS
    Client = {c1, c2}
    Fickle = {c2}
    Regexp = {A, B, F}
    Message = {{A}, {A, B}}
    Filtered = {F}
    MaxCalls = 5
    MaxFlight = 2
INVARIANT ChangeReplaces
CHECK_DEADLOCK FALSE
