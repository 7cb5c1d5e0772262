SPECIFICATION Spec
CONSTANTS
    Byte = {a, b}
    Junk = Junk
    AllocSize = 2
    MaxSize = 6
    MaxWrite = 3
INVARIANTS
    OnlyWrittenGoesOut
