SPECIFICATION Spec
CONSTANTS
    MaxTry = 2
    Malformed = {"gs"}
    MaxCount = 4
PROPERTIES
    PositionLeavesRollAlone
