\* Two actors and one more thread; callback and method are called from anywhere.
SPECIFICATION Spec
CONSTANTS
    A = A
    B = B
    main = main
    p = p
    q = q
    r = r
    callback = callback
    method = method
    own = own
    others = others
    free = free
    None = None
    Actors = {A, B}
    Outside = {main}
    Providers = {p, q, r}
    Functions = {callback, method, own, others, free}
    Roots = {callback, method}
    Calls <- TheCalls
    ActorOf <- TheActors
INVARIANTS
    ResumesOnItsActor
    LostOnlyAcrossThreads

    
\* Everything has returned, or is lost.
CHECK_DEADLOCK FALSE
