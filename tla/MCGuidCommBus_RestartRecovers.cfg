SPECIFICATION BusSpec
CONSTANTS
    MaxTry = 4
    Malformed = {}
    MaxCount = 9
    Together = FALSE
    Cycle <- PositionAndTicks
    MaxSent = 16
    MaxRequests = 1
    MaxQueue = 4
INVARIANTS
    RestartRecovers
