CONSTANTS
    Delayed = TRUE
    Capacity = 2
    MaxItems = 5
    MaxUnasked = 3
SPECIFICATION BatcherFairSpec
INVARIANTS
    NoItemStranded
    
PROPERTY
    AllProcessed
CHECK_DEADLOCK FALSE
