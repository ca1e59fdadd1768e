CONSTANTS
    Peers = {"client", "server"}
    MaxUnacked = 4
    AckThreshold = 3
    DefaultFrame = 1
    BigFrame = 2
    AckSize = 1
    SendBuffer = 2
    Shapes <- LongUrgentAndOneBack
    Replies <- LongFromServer
    MaxRequests <- ThreeAndOne
    Closers = {}
    Unreliable = FALSE
    Throwing = FALSE
SPECIFICATION Spec
INVARIANTS
    FrozenHasCredit
    NoProtocolError
    NoLostWakeup
CHECK_DEADLOCK FALSE
