SPECIFICATION Spec
CONSTANTS
    Messages = {m1, m2, m3, m4}
    WithBody = {m1, m3}
    Malformed = {m3}
    NoMessage = NoMessage
    BodyLength = 2
    Capacity = 14
    MaxKeepAlives = 2
INVARIANT TypeOK
INVARIANT DeliveredAsSent
INVARIANT ArrivedIsDelivered
INVARIANT ClosedByPeerOnly
CHECK_DEADLOCK FALSE
