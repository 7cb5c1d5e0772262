SPECIFICATION FairSpec
CONSTANTS
    MaxTry = 3
    Malformed = {"gs", "heading_aircraft", "current_time", "heading_objective"}
    MaxCount = 4
INVARIANTS
    TypeOK
    FlagsTellFreshness
    StoppedMeansWarned
PROPERTIES
    ThirdErrorStops
    StaleTickRestarts
    FreshTickSettles
    StopTakesEffect
