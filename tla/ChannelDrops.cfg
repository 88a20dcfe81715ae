SPECIFICATION Spec
CONSTANTS
    Messages = {m1, m2, m3}
    Large = {m2}
    NoMessage = NoMessage
    Addresses = 1
    MaxResolutions = 1
    MaxBlocks = 1
INVARIANT NoSilentLoss
CHECK_DEADLOCK FALSE
