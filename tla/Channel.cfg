SPECIFICATION FairSpec
CONSTANTS
    Messages = {m1, m2}
    Large = {m2}
    NoMessage = NoMessage
    Addresses = 2
    MaxResolutions = 2
    MaxBlocks = 2
INVARIANT TypeOK
INVARIANT InOrder
INVARIANT NoStuckChannel
INVARIANT NothingRepeated
INVARIANT BlockedIsWatched
PROPERTY QueuedSettles
CHECK_DEADLOCK FALSE
