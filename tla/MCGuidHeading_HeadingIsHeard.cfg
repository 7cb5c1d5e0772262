SPECIFICATION Spec
CONSTANTS
    Full = 24
    Limit = 3
    Gains = {1}
    Heading = {24}
    Value = {0}
    Spelling <- MCOneSpelling
    Pooled = TRUE
INVARIANTS
    HeadingIsHeard
