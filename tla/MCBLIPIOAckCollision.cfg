CONSTANTS
    Peers = {"client", "server"}
    MaxUnacked = 4
    AckThreshold = 3
    DefaultFrame = 1
    BigFrame = 2
    AckSize = 1
    SendBuffer = 2
    Shapes <- OneShort
    Replies <- LongReply
    MaxRequests <- TwoAndOne
    Closers = {}
    Unreliable = FALSE
    Throwing = FALSE
SPECIFICATION Spec
INVARIANTS
    FrozenHasCredit
CHECK_DEADLOCK FALSE
