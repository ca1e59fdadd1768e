CONSTANTS
    Actors = {a1, a2}
    Workers = {w1, w2}
    Callers = {c1, c2}
    NoActor = NoActor
    MaxEvents = 3
    MayStop = TRUE
SPECIFICATION FairSpec
INVARIANTS
    NotReentrant
    HandledInOrder
    NoneForgotten
PROPERTY
    AllHandled
CHECK_DEADLOCK FALSE
