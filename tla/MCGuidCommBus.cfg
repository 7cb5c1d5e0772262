SPECIFICATION FairBusSpec
CONSTANTS
    MaxTry = 2
    Malformed = {}
    MaxCount = 9
    Together = TRUE
    Cycle <- PositionAndTicks
    MaxSent = 6
    MaxRequests = 1
    MaxQueue = 3
INVARIANTS
    BusTypeOK
    HealthyTrafficRuns
PROPERTIES
    InboxDrains
