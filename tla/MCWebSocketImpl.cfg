\* A delegate that sends a message and may close, one heartbeat, a peer that sends
\* a frame before or behind its CLOSE or a bad one, and a network that may fail.
SPECIFICATION FairSpec
CONSTANTS
    Timers <- BothTimers
    PeerFrames <- Closing
    SendBuffer = 0
    MaxSends = 1
    MaxPings = 1
    Unreliable = TRUE
INVARIANTS
    DestroyedIsQuiet
    NearlyLast
    
PROPERTIES
    KeepsContract
    CloseEnds
    WriteableComes
\* A connection ends.
CHECK_DEADLOCK FALSE
