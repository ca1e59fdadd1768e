------------------------------- MODULE Async -------------------------------
(***************************************************************************)
(* Async functions: each runs on some thread up to an asyncCall whose      *)
(* value is not ready, returns, and is resumed by whoever provides that    *)
(* value; on its actor's thread, if it was an actor's when it returned.    *)
(*                                                                         *)
(* An AsyncContext is a provider, whose result somebody sets, or an async  *)
(* function.  Async::wait(callback) is a function with one call.  There is *)
(* no lock: a step reads or writes the fields that threads share once, and *)
(* memory is taken to be sequentially consistent.                          *)
(***************************************************************************)
EXTENDS Naturals, Sequences, FiniteSets

CONSTANTS
    Actors,       \* each runs its mailbox on a thread of its own
    Outside,      \* other threads
    Providers,    \* AsyncProviders made by create()
    Functions,    \* runs of async functions
    Calls,        \* the contexts each function awaits, in order
    ActorOf,      \* the actor whose method a function is, or None
    Roots,        \* the functions not called by another
    None

Threads == Actors \union Outside
Contexts == Providers \union Functions

\* "assert(!_observer)" in setObserver: a value is awaited by one function.
ASSUME AsyncAssumption ==
    /\ Providers \intersect Functions = {} /\ Actors \intersect Outside = {}
    /\ None \notin Contexts \union Threads
    /\ ActorOf \in [Functions -> Actors \union {None}]
    /\ Calls \in [Functions -> Seq(Contexts)]
    /\ Roots \subseteq Functions
    /\ \A f, g \in Functions : \A i \in DOMAIN Calls[f], j \in DOMAIN Calls[g] :
            Calls[f][i] = Calls[g][j] => f = g /\ i = j

VARIABLES
    ready,          \* _ready
    observer,       \* _observer
    calling,        \* _calling
    waitingActor,   \* _waitingActor
    pos,            \* how many calls of a function have returned: _continueAt
    started,        \* the functions that have been called
    stack,          \* the contexts each thread is in, and where, innermost last
    mailbox,        \* the functions each actor is to resume or start
    setBy,          \* history: the thread on which a context got its result ...
    waitedOn        \* history: ... and on which a function last waited

vars == <<ready, observer, calling, waitingActor, pos, started, stack, mailbox, setBy, waitedOn>>

Init ==
    /\ ready = [c \in Contexts |-> FALSE]
    /\ observer = [c \in Contexts |-> None]
    /\ calling = [f \in Functions |-> None]
    /\ waitingActor = [f \in Functions |-> None]
    /\ pos = [f \in Functions |-> 0]
    /\ started = {}
    /\ stack = [th \in Threads |-> <<>>]
    /\ mailbox = [a \in Actors |-> <<>>]
    /\ setBy = [c \in Contexts |-> None]
    /\ waitedOn = [f \in Functions |-> None]

currentActor(th) == IF th \in Actors THEN th ELSE None

In(c, where) == [ctx |-> c, at |-> where]
Idle(th) == stack[th] = <<>>
Top(th) == stack[th][Len(stack[th])]
Callers(th) == SubSeq(stack[th], 1, Len(stack[th]) - 1)
AtTop(th, where) == ~Idle(th) /\ Top(th).at = where
Goes(th, frames) == stack' = [stack EXCEPT ![th] = Callers(th) \o frames]
-----------------------------------------------------------------------------
StartsInline_Always(th, f) == TRUE

\* start: does the function begin at once, or by way of its actor's mailbox?
StartsInline(th, f) == ActorOf[f] \in {None, currentActor(th)}

\* A thread, or an actor in some event, calls an async function ...
Start(th, f) ==
    /\ Idle(th) /\ f \in Roots \ started
    /\ started' = started \union {f}
    /\ IF StartsInline(th, f)
       THEN /\ stack' = [stack EXCEPT ![th] = <<In(f, "body")>>]
            /\ UNCHANGED mailbox
       ELSE /\ mailbox' = [mailbox EXCEPT ![ActorOf[f]] = Append(@, In(f, "body"))]
            /\ UNCHANGED stack
    /\ UNCHANGED <<ready, observer, calling, waitingActor, pos, setBy, waitedOn>>

\* ... or sets the result of a provider.
SetResult(th, p) ==
    /\ Idle(th) /\ ~ready[p] /\ \A t \in Threads : \A i \in DOMAIN stack[t] : stack[t][i].ctx # p
    /\ stack' = [stack EXCEPT ![th] = <<In(p, "result")>>]
    /\ UNCHANGED <<ready, observer, calling, waitingActor, pos, started, mailbox, setBy, waitedOn>>

\* An actor performs the next event of its mailbox: next() of a context.
Perform(a) ==
    /\ Idle(a) /\ mailbox[a] # <<>>
    /\ stack' = [stack EXCEPT ![a] = <<Head(mailbox[a])>>]
    /\ mailbox' = [mailbox EXCEPT ![a] = Tail(@)]
    /\ UNCHANGED <<ready, observer, calling, waitingActor, pos, started, setBy, waitedOn>>

AtEnd(f) == pos[f] = Len(Calls[f])
Callee(f) == Calls[f][pos[f] + 1]

Body_ChecksFirst(th) ==
    LET f == Top(th).ctx
        c == Callee(f)
    IN  /\ AtTop(th, "body") /\ ~AtEnd(f)
        /\ calling' = [calling EXCEPT ![f] = c]
        /\ started' = started \union ({c} \intersect Functions)
        /\ IF c \in Providers \union started
           THEN Goes(th, <<In(f, "check")>>) /\ UNCHANGED mailbox
           ELSE IF StartsInline(th, c)
           THEN Goes(th, <<In(f, "wait"), In(c, "body")>>) /\ UNCHANGED mailbox
           ELSE /\ mailbox' = [mailbox EXCEPT ![ActorOf[c]] = Append(@, In(c, "body"))]
                /\ Goes(th, <<In(f, "wait")>>)
        /\ UNCHANGED <<ready, observer, waitingActor, pos, setBy, waitedOn>>

\* The body of a function, up to its next asyncCall: the call itself comes first,
\* and starts the function that is called.
Body(th) ==
    LET f == Top(th).ctx
        c == Callee(f)
    IN  /\ AtTop(th, "body") /\ ~AtEnd(f)
        /\ started' = started \union ({c} \intersect Functions)
        /\ IF c \in Providers \union started
           THEN Goes(th, <<In(f, "check")>>) /\ UNCHANGED mailbox
           ELSE IF StartsInline(th, c)
           THEN Goes(th, <<In(f, "check"), In(c, "body")>>) /\ UNCHANGED mailbox
           ELSE /\ mailbox' = [mailbox EXCEPT ![ActorOf[c]] = Append(@, In(c, "body"))]
                /\ Goes(th, <<In(f, "check")>>)
        /\ UNCHANGED <<ready, observer, calling, waitingActor, pos, setBy, waitedOn>>

\* _asyncCall: if the value is ready, the body goes on with it.
AsyncCall(th) ==
    LET f == Top(th).ctx
        c == Callee(f)
    IN  /\ AtTop(th, "check")
        /\ IF ready[c]
           THEN /\ pos' = [pos EXCEPT ![f] = @ + 1]
                /\ Goes(th, <<In(f, "body")>>)
                /\ UNCHANGED calling
           ELSE /\ calling' = [calling EXCEPT ![f] = c]
                /\ Goes(th, <<In(f, "wait")>>)
                /\ UNCHANGED pos
        /\ UNCHANGED <<ready, observer, waitingActor, started, mailbox, setBy, waitedOn>>

\* Otherwise it has returned: next() calls _wait, and returns too.
Wait(th) ==
    LET f == Top(th).ctx
    IN  /\ AtTop(th, "wait")
        /\ waitingActor' = [waitingActor EXCEPT ![f] = currentActor(th)]
        /\ observer' = [observer EXCEPT ![calling[f]] = f]
        /\ waitedOn' = [waitedOn EXCEPT ![f] = th]
        /\ Goes(th, <<>>)
        /\ UNCHANGED <<ready, calling, pos, started, mailbox, setBy>>

\* next() of a function that waited: asyncResult, which asserts that it is ready.
Resume(th) ==
    LET f == Top(th).ctx
    IN  /\ AtTop(th, "resume")
        /\ pos' = [pos EXCEPT ![f] = @ + 1]
        /\ calling' = [calling EXCEPT ![f] = None]
        /\ Goes(th, <<In(f, "body")>>)
        /\ UNCHANGED <<ready, observer, waitingActor, started, mailbox, setBy, waitedOn>>

\* The body returns a value.
Return(th) ==
    LET f == Top(th).ctx
    IN  /\ AtTop(th, "body") /\ AtEnd(f)
        /\ Goes(th, <<In(f, "result")>>)
        /\ UNCHANGED <<ready, observer, calling, waitingActor, pos, started, mailbox, setBy, waitedOn>>

\* setResult and _gotResult: the value is ready ...
GotResult(th) ==
    LET c == Top(th).ctx
    IN  /\ AtTop(th, "result")
        /\ ready' = [ready EXCEPT ![c] = TRUE]
        /\ setBy' = [setBy EXCEPT ![c] = th]
        /\ Goes(th, <<In(c, "notify")>>)
        /\ UNCHANGED <<observer, calling, waitingActor, pos, started, mailbox, waitedOn>>

Notify_ClearsFirst(th) ==
    LET c == Top(th).ctx
    IN  /\ AtTop(th, "notify") /\ observer[c] # None
        /\ observer' = [observer EXCEPT ![c] = None]
        /\ Goes(th, <<>>)
        /\ UNCHANGED <<ready, calling, waitingActor, pos, started, mailbox, setBy, waitedOn>>

\* ... and the observer is woken up: in its actor's mailbox or here and now.
Notify(th) ==
    LET c == Top(th).ctx
        f == observer[c]
    IN  /\ AtTop(th, "notify") /\ f # None
        /\ observer' = [observer EXCEPT ![c] = None]
        /\ waitingActor' = [waitingActor EXCEPT ![f] = None]
        /\ IF waitingActor[f] # None
           THEN /\ mailbox' = [mailbox EXCEPT ![waitingActor[f]] = Append(@, In(f, "resume"))]
                /\ Goes(th, <<>>)
           ELSE /\ Goes(th, <<In(f, "resume")>>)
                /\ UNCHANGED mailbox
        /\ UNCHANGED <<ready, calling, pos, started, setBy, waitedOn>>

NobodyWaits(th) ==
    /\ AtTop(th, "notify") /\ observer[Top(th).ctx] = None
    /\ Goes(th, <<>>)
    /\ UNCHANGED <<ready, observer, calling, waitingActor, pos, started, mailbox, setBy, waitedOn>>

Runs(th) ==
    \/ Body(th) \/ AsyncCall(th) \/ Wait(th) \/ Resume(th) \/ Return(th)
    \/ GotResult(th) \/ Notify(th) \/ NobodyWaits(th)

Provides(p) == \E th \in Threads : SetResult(th, p)

Next ==
    \/ \E th \in Threads : Runs(th) \/ \E f \in Functions : Start(th, f)
    \/ \E p \in Providers : Provides(p)
    \/ \E a \in Actors : Perform(a)

\* Threads run, and every provider is given its result in the end.
Spec ==
    /\ Init /\ [][Next]_vars
    /\ \A th \in Threads : WF_vars(Runs(th))
    /\ \A a \in Actors : WF_vars(Perform(a))
    /\ \A p \in Providers : WF_vars(Provides(p))
-----------------------------------------------------------------------------
Places == {"body", "check", "wait", "resume", "result", "notify"}
Frames == [ctx : Functions, at : Places] \union [ctx : Providers, at : {"result", "notify"}]
Events == [ctx : Functions, at : {"body", "resume"}]

TypeOK ==
    /\ ready \in [Contexts -> BOOLEAN]
    /\ observer \in [Contexts -> Functions \union {None}]
    /\ calling \in [Functions -> Contexts \union {None}]
    /\ waitingActor \in [Functions -> Actors \union {None}]
    /\ pos \in [Functions -> Nat] /\ \A f \in Functions : pos[f] <= Len(Calls[f])
    /\ started \subseteq Functions
    /\ stack \in [Threads -> Seq(Frames)]
    /\ mailbox \in [Actors -> Seq(Events)]
    /\ setBy \in [Contexts -> Threads \union {None}]
    /\ waitedOn \in [Functions -> Threads \union {None}]

\* Where a context is being run, or is about to be.
RunningOn(c) == {th \in Threads : \E i \in DOMAIN stack[th] : stack[th][i].ctx = c}
QueuedOn(c) == {a \in Actors : \E i \in DOMAIN mailbox[a] : mailbox[a][i].ctx = c}

(***************************************************************************)
(* "if an async Actor method waits, it will be resumed on that Actor's     *)
(* execution context" (Async.hh:128), whoever provides what it waits for:  *)
(* a method runs on its actor only, no function runs twice at once, and    *)
(* when it is resumed, perhaps after some time in a mailbox, it finds the  *)
(* value that extractResult asserts.                                       *)
(***************************************************************************)
ResumesOnItsActor ==
    /\ \A f \in Functions :
          /\ ActorOf[f] # None => RunningOn(f) \union QueuedOn(f) \subseteq {ActorOf[f]}
          /\ Cardinality(RunningOn(f)) + Cardinality(QueuedOn(f)) <= 1
    /\ \A th \in Threads : \A i \in DOMAIN stack[th] :
          stack[th][i].at = "resume" => ready[calling[stack[th][i].ctx]]

\* A function that waits for a value which has been provided; nobody will look
\* at the value's _observer again.
Lost(f) ==
    /\ calling[f] # None
    /\ observer[calling[f]] = f /\ ready[calling[f]]
    /\ RunningOn(calling[f]) = {}

(***************************************************************************)
(* A function that waits is resumed, unless its value was provided on      *)
(* another thread between the test of ready() and setObserver.             *)
(***************************************************************************)
LostOnlyAcrossThreads ==
    \A f \in Functions : Lost(f) => waitedOn[f] # setBy[calling[f]]

(***************************************************************************)
(* Every function that is called comes to its end, through any number of   *)
(* calls, threads and actors, if none is lost in this way.                 *)
(***************************************************************************)
AllReturn ==
    \A f \in Functions : (f \in started) ~> (ready[f] \/ \E g \in Functions : Lost(g))

(***************************************************************************)
(* "when its result does become available, the enclosing function resumes  *)
(* right where it left off" (Async.hh:89): no function is lost.            *)
(***************************************************************************)
NoneLost == \A f \in Functions : ~Lost(f)
=============================================================================
