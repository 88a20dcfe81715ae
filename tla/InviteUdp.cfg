SPECIFICATION Spec
CONSTANTS
    Reliable = FALSE
    MaxInFlight = 3
    MaxClientFailures = 0
    MaxServerFailures = 0
INVARIANT OutcomeAgreement
INVARIANT NoGhostCall
INVARIANT AckAwaited
PROPERTY ImplementsHandshake
CHECK_DEADLOCK FALSE
