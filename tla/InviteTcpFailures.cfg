SPECIFICATION Spec
CONSTANTS
    Reliable = TRUE
    MaxInFlight = 3
    MaxClientFailures = 1
    MaxServerFailures = 1
INVARIANT CallInv
INVARIANT SingleFinal
INVARIANT UnwantedCallHungUp
INVARIANT NoStuckClient
INVARIANT NoStuckServer
CHECK_DEADLOCK FALSE
