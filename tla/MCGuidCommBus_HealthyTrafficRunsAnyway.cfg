SPECIFICATION BusSpec
CONSTANTS
    MaxTry = 1
    Malformed = {}
    MaxCount = 9
    Together = TRUE
    Cycle <- PositionAndTicks
    MaxSent = 6
    MaxRequests = 0
    MaxQueue = 3
INVARIANTS
    HealthyTrafficRunsAnyway
