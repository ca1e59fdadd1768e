CONSTANTS
    Peers = {"client", "server"}
    MaxUnacked = 4
    AckThreshold = 3
    DefaultFrame = 1
    BigFrame = 2
    AckSize = 1
    SendBuffer = 2
    Shapes <- LongAndShort
    Replies <- ShortReply
    MaxRequests <- TwoOneWay
    Closers = {"client"}
    Unreliable = TRUE
    Throwing = TRUE
SPECIFICATION FairSpec

    
PROPERTY
    EveryRequestEnds
CHECK_DEADLOCK FALSE
