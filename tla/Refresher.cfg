SPECIFICATION FairSpec
CONSTANTS
    MaxRequests = 3
    Alternates = 1
    Methods = {"REGISTER", "PUBLISH"}
INVARIANT TypeOK
INVARIANT NoSilentStop
INVARIANT RetryXorRequest
INVARIANT PromisedRetry
INVARIANT AskedExpiry
PROPERTY LostConnectionRetried
PROPERTY StoppedStaysQuiet
PROPERTY RequestSettles
CHECK_DEADLOCK FALSE
