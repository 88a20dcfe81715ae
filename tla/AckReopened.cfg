SPECIFICATION Spec
CONSTANTS
    Reliable = TRUE
    MaxInFlight = 3
    MaxClientFailures = 0
    MaxServerFailures = 1
PROPERTY AckIsFinal
CHECK_DEADLOCK FALSE
