SPECIFICATION FairSpec
CONSTANTS
    Reliable = TRUE
    MaxInFlight = 3
    MaxClientFailures = 1
    MaxServerFailures = 0
PROPERTY OpReleased
CHECK_DEADLOCK FALSE
