SPECIFICATION Spec
CONSTANTS
    Full = 24
    Limit = 3
    Gains = {1, 2}
    Heading <- MCHeading
    Value = {0, 1, 5, 12, 23, 24}
    Spelling <- MCSpelling
    Pooled = FALSE
INVARIANTS
    TrackIsDefined
PROPERTIES
    TurnsTheShortWay
