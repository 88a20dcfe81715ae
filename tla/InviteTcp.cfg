SPECIFICATION FairSpec
CONSTANTS
    Reliable = TRUE
    MaxInFlight = 3
    MaxClientFailures = 0
    MaxServerFailures = 0
INVARIANT NoHalfOpenCall
INVARIANT InFlightInv
PROPERTY ClientSettles
PROPERTY ServerSettles
PROPERTY UncancelledOpReleased
PROPERTY AcceptedCallShared
CHECK_DEADLOCK FALSE
