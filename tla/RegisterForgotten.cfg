SPECIFICATION Spec
CONSTANTS
    MaxRequests = 3
    Alternates = 1
    Methods = {"REGISTER", "PUBLISH"}
INVARIANT TimeoutReported
CHECK_DEADLOCK FALSE
