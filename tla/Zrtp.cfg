SPECIFICATION Spec
CONSTANTS
    Peers = {alice, bob}
    MaxSessions = 3
    HelloMax = 1
    MessageMax = 1
    MaxLosses = 2
INVARIANT TypeOK
INVARIANT RoleAgreement
INVARIANT SameS0
INVARIANT SenderNeedsReceiver
INVARIANT MismatchTakesTwo
INVARIANT NoStuckSession
CHECK_DEADLOCK FALSE
