SPECIFICATION Spec
CONSTANTS
    MaxTry = 2
    Malformed = {"gs", "heading_aircraft"}
    MaxCount = 4
PROPERTIES
    TwoErrorsStop
