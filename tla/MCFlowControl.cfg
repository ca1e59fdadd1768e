CONSTANTS
    MaxUnacked = 6
    AckThreshold = 3
    MaxFrame = 2
    MaxMessage = 20
    Modulus = 64
SPECIFICATION FairSpec
INVARIANTS
    FrozenHasCredit
    WindowBounded
    FlowIInv
PROPERTY
    Delivered
CHECK_DEADLOCK FALSE
