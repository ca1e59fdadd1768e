\* The client sends two messages into a buffer for one, and both ends start,
\* close and terminate at any time.
SPECIFICATION FairSpec
CONSTANTS
    client = client
    server = server
    Peers <- TwoPeers
    MaxSends <- ClientSends
    MaxCloses <- OnceEach
    SendBuffer = 1
    Codes = {"normal", "error"}
INVARIANTS
    
    
    StateSettles
PROPERTIES
    KeepsContract
    BothAreTold
\* Connections end.
CHECK_DEADLOCK FALSE
