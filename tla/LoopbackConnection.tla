------------------------- MODULE LoopbackConnection -------------------------
(***************************************************************************)
(* The life of two BLIP Connections joined by LoopbackWebSockets: on each  *)
(* side the application, the BLIPIO actor and the Driver actor of the      *)
(* socket, each handling its mailbox one event at a time.  A message is    *)
(* one byte; what BLIPIO does with it is the business of module BLIPIO.    *)
(*                                                                         *)
(* An exception thrown in an event, such as that of a failed Assert, is    *)
(* caught by the mailbox: the rest of the event does not happen.           *)
(***************************************************************************)
EXTENDS Naturals, Sequences, FiniteSets

CONSTANTS
    Peers,         \* the two ends
    SendBuffer,    \* kSendBufferSize of LoopbackProvider
    MaxSends,      \* bound: messages each peer sends
    MaxCloses,     \* bound: how often each peer's application calls close()
    Codes          \* bound: the codes it closes with

ASSUME LoopbackAssumption ==
    /\ \E p, q \in Peers : p # q /\ Peers = {p, q}
    /\ SendBuffer \in Nat
    /\ {MaxSends[p] : p \in Peers} \union {MaxCloses[p] : p \in Peers} \subseteq Nat
    /\ Codes \subseteq {"normal", "error"}

VARIABLES
    \* Connection and its application
    state,        \* _state
    started,      \* _connectedWebSocket: has BLIPIO been started or terminated?
    terminated,   \* has terminate() dropped the BLIPIO?
    closes,       \* how often close() was called
    \* BLIPIO
    io,           \* its mailbox
    hasSocket,    \* _webSocket is not null
    writeable,    \* _writeable
    sends,        \* how many messages it has sent
    held,         \* messages received and not yet released
    \* the Driver
    inbox,        \* its mailbox
    driver,       \* its _state
    buffered,     \* _bufferedBytes
    transit,      \* events on their way to it, delayed by the latency
    \* history
    phase,        \* what its delegate has been told of the connection
    heard,        \* how many calls its delegate has had
    asserted,     \* the methods whose Asserts have failed
    lateClose     \* was close() called after the end?

appVars == <<state, started, terminated, closes>>
ioVars  == <<io, hasSocket, writeable, sends, held>>
wsVars  == <<inbox, driver, buffered, transit>>
history == <<phase, heard, asserted, lateClose>>
vars == <<appVars, ioVars, wsVars, history>>

Other(p) == CHOOSE q \in Peers : q # p
Everywhere(x) == [p \in Peers |-> x]
Set(f, p, x) == [f EXCEPT ![p] = x]
Push(f, p, x) == [f EXCEPT ![p] = Append(@, x)]
Pop(f, p) == [f EXCEPT ![p] = Tail(@)]
Next1(f, p, name) == f[p] # <<>> /\ Head(f[p]).name = name

\* An event, with the code of a close.
Event(name) == [name |-> name, code |-> "none"]
CloseEvent(name, code) == [name |-> name, code |-> code]

\* bind() has joined the two sockets; nobody has connected yet.
Init ==
    /\ state = Everywhere("kClosed") /\ started = Everywhere(FALSE)
    /\ terminated = Everywhere(FALSE) /\ closes = Everywhere(0)
    /\ io = Everywhere(<<>>) /\ hasSocket = Everywhere(TRUE) /\ writeable = Everywhere(FALSE)
    /\ sends = Everywhere(0) /\ held = Everywhere(0)
    /\ inbox = Everywhere(<<>>) /\ driver = Everywhere("unconnected")
    /\ buffered = Everywhere(0) /\ transit = Everywhere(<<>>)
    /\ phase = Everywhere("unopened") /\ heard = Everywhere(0)
    /\ asserted = Everywhere({}) /\ lateClose = Everywhere(FALSE)
------------------------------------------------------------------------------
(***************************************************************************)
(* The application's calls of Connection.                                  *)
(***************************************************************************)
Start(p) ==
    /\ ~started[p] /\ state[p] = "kClosed"
    /\ state' = Set(state, p, "kConnecting")
    /\ started' = Set(started, p, TRUE)
    /\ inbox' = Push(inbox, p, Event("_connect"))
    /\ UNCHANGED <<terminated, closes, ioVars, driver, buffered, transit, history>>

\* close() assigns _state on the caller's thread, at any time after start().
Close(p, code) ==
    /\ started[p] /\ ~terminated[p] /\ closes[p] < MaxCloses[p]
    /\ closes' = [closes EXCEPT ![p] = @ + 1]
    /\ state' = Set(state, p, "kClosing")
    /\ io' = Push(io, p, CloseEvent("_close", code))
    /\ lateClose' = Set(lateClose, p, lateClose[p] \/ state[p] \in {"kClosed", "kDisconnected"})
    /\ UNCHANGED <<started, terminated, hasSocket, writeable, sends, held, wsVars,
                   phase, heard, asserted>>

\* terminate() of a Connection that was never started, or has stopped.
Terminate(p) ==
    /\ ~terminated[p] /\ state[p] \in {"kClosed", "kDisconnected"}
    /\ IF state[p] = "kClosed"
       THEN /\ terminated' = Set(terminated, p, TRUE)
            /\ started' = Set(started, p, TRUE)
            /\ hasSocket' = Set(hasSocket, p, hasSocket[p] /\ started[p])
            /\ inbox' = IF started[p] THEN inbox ELSE Push(inbox, p, CloseEvent("_close", "normal"))
            /\ UNCHANGED asserted
       ELSE /\ asserted' = [asserted EXCEPT ![p] = @ \union {"terminate"}]
            /\ UNCHANGED <<terminated, started, hasSocket, inbox>>
    /\ UNCHANGED <<state, closes, io, writeable, sends, held, driver, buffered, transit,
                   phase, heard, lateClose>>
------------------------------------------------------------------------------
(***************************************************************************)
(* The BLIPIO actor.                                                       *)
(***************************************************************************)
\* LoopbackWebSocket::send counts the bytes at once; the Driver sends them later.
Send(p) ==
    /\ hasSocket[p] /\ writeable[p] /\ sends[p] < MaxSends[p]
    /\ sends' = [sends EXCEPT ![p] = @ + 1]
    /\ buffered' = [buffered EXCEPT ![p] = @ + 1]
    /\ writeable' = Set(writeable, p, buffered'[p] <= SendBuffer)
    /\ inbox' = Push(inbox, p, Event("_send"))
    /\ UNCHANGED <<appVars, io, hasSocket, held, driver, transit, history>>

\* A message is done with: its destructor tells the sender's Driver.
Release(p) ==
    /\ held[p] > 0
    /\ held' = [held EXCEPT ![p] = @ - 1]
    /\ inbox' = Push(inbox, Other(p), Event("_ack"))
    /\ UNCHANGED <<appVars, io, hasSocket, writeable, sends, driver, buffered, transit, history>>

OnWriteable(p) ==
    /\ Next1(io, p, "_onWebSocketWriteable")
    /\ io' = Pop(io, p)
    /\ writeable' = Set(writeable, p, TRUE)
    /\ UNCHANGED <<appVars, hasSocket, sends, held, wsVars, history>>

OnClose(p) ==
    /\ Next1(io, p, "_close")
    /\ io' = Pop(io, p)
    /\ inbox' = IF hasSocket[p]
                THEN Push(inbox, p, CloseEvent("_close", Head(io[p]).code))
                ELSE inbox
    /\ UNCHANGED <<appVars, hasSocket, writeable, sends, held, driver, buffered, transit, history>>

FinalState_UnlessClosing(p, code) == IF state[p] = "kClosing" THEN "kClosing" ELSE "kDisconnected"

FinalState(p, code) == IF code = "normal" THEN "kClosed" ELSE "kDisconnected"

\* _closed, with Connection::closed; messages still held are handled first.
OnClosed(p) ==
    /\ Next1(io, p, "_closed") /\ held[p] = 0
    /\ io' = Pop(io, p)
    /\ hasSocket' = Set(hasSocket, p, FALSE)
    /\ state' = Set(state, p, FinalState(p, Head(io[p]).code))
    /\ UNCHANGED <<started, terminated, closes, writeable, sends, held, wsVars, history>>
------------------------------------------------------------------------------
(***************************************************************************)
(* The Driver actor.                                                       *)
(***************************************************************************)
Driven(p, name) == Next1(inbox, p, name)

\* The event at hand fails an Assert.
Fails(p, name) ==
    /\ asserted' = [asserted EXCEPT ![p] = @ \union {name}]
    /\ inbox' = Pop(inbox, p)
    /\ UNCHANGED <<appVars, ioVars, driver, buffered, transit, phase, heard, lateClose>>

\* connectCompleted: onWebSocketConnect runs here, and Connection::connected in it.
ConnectCompleted(p) ==
    /\ driver' = Set(driver, p, "connected")
    /\ state' = Set(state, p, "kConnected")
    /\ phase' = Set(phase, p, "open")
    /\ heard' = [heard EXCEPT ![p] = @ + 1]
    /\ io' = Push(io, p, Event("_onWebSocketWriteable"))

Connects_AtOnce(p) == TRUE

\* Does _connect complete the handshake?
Connects(p) == driver[p] = "peerConnecting"

_connect(p) ==
    /\ Driven(p, "_connect")
    /\ IF driver[p] \in {"unconnected", "peerConnecting"}
       THEN /\ inbox' = Pop(inbox, p)
            /\ transit' = Push(transit, Other(p), Event("_peerIsConnecting"))
            /\ IF Connects(p)
               THEN ConnectCompleted(p)
               ELSE /\ driver' = Set(driver, p, "connecting")
                    /\ UNCHANGED <<state, phase, heard, io>>
            /\ UNCHANGED <<started, terminated, closes, hasSocket, writeable, sends, held,
                           buffered, asserted, lateClose>>
       ELSE Fails(p, "_connect")

_peerIsConnecting(p) ==
    /\ Driven(p, "_peerIsConnecting")
    /\ CASE driver[p] = "unconnected" ->
              /\ driver' = Set(driver, p, "peerConnecting")
              /\ inbox' = Pop(inbox, p)
              /\ UNCHANGED <<appVars, ioVars, buffered, transit, history>>
         [] driver[p] = "connecting" ->
              /\ ConnectCompleted(p)
              /\ inbox' = Pop(inbox, p)
              /\ UNCHANGED <<started, terminated, closes, hasSocket, writeable, sends, held,
                             buffered, transit, asserted, lateClose>>
         [] driver[p] = "closed" ->
              inbox' = Pop(inbox, p) /\ UNCHANGED <<appVars, ioVars, driver, buffered, transit, history>>
         [] OTHER -> Fails(p, "_peerIsConnecting")

\* The peer is forgotten when the Driver is closed.
_send(p) ==
    /\ Driven(p, "_send")
    /\ IF driver[p] \in {"connected", "closed"}
       THEN /\ inbox' = Pop(inbox, p)
            /\ transit' = IF driver[p] = "closed" THEN transit
                          ELSE Push(transit, Other(p), Event("_received"))
            /\ UNCHANGED <<appVars, ioVars, driver, buffered, history>>
       ELSE Fails(p, "_send")

\* A message that is not delivered is destroyed, which is acknowledged too.
_received(p) ==
    /\ Driven(p, "_received")
    /\ IF driver[p] = "connected"
       THEN /\ held' = [held EXCEPT ![p] = @ + 1]
            /\ heard' = [heard EXCEPT ![p] = @ + 1]
            /\ inbox' = Pop(inbox, p)
       ELSE /\ inbox' = Push(Pop(inbox, p), Other(p), Event("_ack"))
            /\ UNCHANGED <<held, heard>>
    /\ UNCHANGED <<appVars, io, hasSocket, writeable, sends, driver, buffered, transit,
                   phase, asserted, lateClose>>

Crosses_Below(before, after) == after < SendBuffer /\ before >= SendBuffer

Crosses(before, after) == after <= SendBuffer /\ before > SendBuffer

_ack(p) ==
    /\ Driven(p, "_ack")
    /\ inbox' = Pop(inbox, p)
    /\ IF driver[p] = "connected"
       THEN /\ buffered' = [buffered EXCEPT ![p] = @ - 1]
            /\ IF Crosses(buffered[p], buffered[p] - 1)
               THEN /\ io' = Push(io, p, Event("_onWebSocketWriteable"))
                    /\ heard' = [heard EXCEPT ![p] = @ + 1]
               ELSE UNCHANGED <<io, heard>>
       ELSE UNCHANGED <<buffered, io, heard>>
    /\ UNCHANGED <<appVars, hasSocket, writeable, sends, held, driver, transit, phase,
                   asserted, lateClose>>

\* Driver::_closed.  A delegate that is not connecting is not told.
Closed(p, code) ==
    /\ driver' = Set(driver, p, "closed")
    /\ IF driver[p] \notin {"unconnected", "peerConnecting"}
       THEN /\ phase' = Set(phase, p, "closed")
            /\ heard' = [heard EXCEPT ![p] = @ + 1]
            /\ io' = Push(io, p, CloseEvent("_closed", code))
       ELSE UNCHANGED <<phase, heard, io>>
    /\ UNCHANGED <<appVars, hasSocket, writeable, sends, held, buffered, asserted, lateClose>>

TellsPeer_IfConnected(p) == driver[p] = "connected"

\* Is the peer told that this end has closed?
TellsPeer(p) == driver[p] # "unconnected"

_close(p) ==
    /\ Driven(p, "_close")
    /\ IF driver[p] \in {"unconnected", "connecting", "connected"}
       THEN LET code == Head(inbox[p]).code
            IN  /\ inbox' = Pop(inbox, p)
                /\ transit' = IF TellsPeer(p)
                              THEN Push(transit, Other(p), CloseEvent("_closed", code))
                              ELSE transit
                /\ Closed(p, code)
       ELSE Fails(p, "_close")

Ignores_Nothing(p) == FALSE

\* A Driver is closed once.
Ignores(p) == driver[p] = "closed"

_closed(p) ==
    /\ Driven(p, "_closed")
    /\ inbox' = Pop(inbox, p)
    /\ IF Ignores(p)
       THEN UNCHANGED <<appVars, ioVars, driver, buffered, history>>
       ELSE Closed(p, Head(inbox[p]).code)
    /\ UNCHANGED transit

\* An event has been delayed enough; events from one sender stay in order.
Arrive(p) ==
    /\ transit[p] # <<>>
    /\ inbox' = Push(inbox, p, Head(transit[p]))
    /\ transit' = Pop(transit, p)
    /\ UNCHANGED <<appVars, ioVars, driver, buffered, history>>

IoSteps(p) == Release(p) \/ OnWriteable(p) \/ OnClose(p) \/ OnClosed(p)

DriverSteps(p) ==
    \/ _connect(p) \/ _peerIsConnecting(p) \/ _send(p) \/ _received(p)
    \/ _ack(p) \/ _close(p) \/ _closed(p)

Next ==
    \E p \in Peers :
        \/ Start(p) \/ Terminate(p)
        \/ \E code \in Codes : Close(p, code)
        \/ Send(p)
        \/ IoSteps(p)
        \/ DriverSteps(p)
        \/ Arrive(p)

Spec == Init /\ [][Next]_vars

\* Actors handle their mailboxes and delayed events arrive.  The application
\* may do nothing.
FairSpec ==
    /\ Spec
    /\ \A p \in Peers : WF_vars(IoSteps(p)) /\ WF_vars(DriverSteps(p)) /\ WF_vars(Arrive(p))
------------------------------------------------------------------------------
Events(names) == [name : names, code : Codes \union {"none", "normal"}]
IoEvents == Events({"_close", "_closed", "_onWebSocketWriteable"})
Sent == Events({"_peerIsConnecting", "_received", "_closed"})
Driving == Sent \union Events({"_connect", "_send", "_ack", "_close"})

TypeOK ==
    /\ state \in [Peers -> {"kDisconnected", "kClosed", "kConnecting", "kConnected", "kClosing"}]
    /\ started \in [Peers -> BOOLEAN] /\ terminated \in [Peers -> BOOLEAN]
    /\ closes \in [Peers -> Nat] /\ sends \in [Peers -> Nat] /\ held \in [Peers -> Nat]
    /\ hasSocket \in [Peers -> BOOLEAN] /\ writeable \in [Peers -> BOOLEAN]
    /\ driver \in [Peers -> {"unconnected", "peerConnecting", "connecting", "connected", "closed"}]
    /\ buffered \in [Peers -> Nat]
    /\ io \in [Peers -> Seq(IoEvents)]
    /\ inbox \in [Peers -> Seq(Driving)]
    /\ transit \in [Peers -> Seq(Sent)]
    /\ phase \in [Peers -> {"unopened", "open", "closed"}] /\ heard \in [Peers -> Nat]
    /\ asserted \in [Peers -> SUBSET {"_connect", "_peerIsConnecting", "_send", "_close", "terminate"}]
    /\ lateClose \in [Peers -> BOOLEAN]

(***************************************************************************)
(* The Asserts of the Driver's methods hold, with three exceptions: both   *)
(* ends close at once (_close, after the peer's _closed); the peer closes  *)
(* before this end has connected at all (_connect); this end is terminated *)
(* unstarted while the peer is connecting (_close).  And Connection's      *)
(* terminate asserts after an abnormal end.  The handshake does "prevent   *)
(* one side from receiving a message from the peer before it's ready"      *)
(* (LoopbackProvider.hh:183), whoever starts first.                        *)
(***************************************************************************)
OnlyKnownAsserts ==
    \A p \in Peers :
        /\ asserted[p] \subseteq {"_close", "_connect", "terminate"}
        /\ "_connect" \in asserted[p] => driver[p] = "closed"
        /\ "_close" \in asserted[p] => driver[p] = "closed" \/ terminated[p]
        /\ Driven(p, "_received") => driver[p] \in {"connected", "closed"}

Count(events, name) == Cardinality({i \in 1..Len(events) : events[i].name = name})

\* What p has sent and the other has not released: in a mailbox, on its way, held
\* by the receiver, or on its way back as an _ack.
Unacknowledged(p) == LET q == Other(p) IN
    Count(inbox[p], "_send") + Count(transit[q], "_received")
    + Count(inbox[q], "_received") + held[q] + Count(inbox[p], "_ack")

(***************************************************************************)
(* A BLIPIO that has been told to stop sending will be told to go on,      *)
(* although _bufferedBytes is changed by two actors at once: the call is   *)
(* in its mailbox, or the buffer is too full, and all that is counted in   *)
(* it is still to be released.                                             *)
(***************************************************************************)
WakeupComes ==
    \A p \in Peers : driver[p] = "connected" =>
        /\ buffered[p] = Unacknowledged(p)
        /\ ~writeable[p] =>
               buffered[p] > SendBuffer \/ Count(io[p], "_onWebSocketWriteable") > 0

Contract(p) == INSTANCE WebSocketContract WITH phase <- phase[p], heard <- heard[p]

(***************************************************************************)
(* Each LoopbackWebSocket keeps the contract with its delegate: the        *)
(* ContractSpec of both at once.                                           *)
(***************************************************************************)
KeepsContract ==
    /\ \A p \in Peers : Contract(p)!ContractInit
    /\ [][\A p \in Peers : Contract(p)!ContractNext \/ UNCHANGED Contract(p)!cvars]_vars

AtRest(p) == io[p] = <<>> /\ inbox[p] = <<>> /\ transit[p] = <<>> /\ held[p] = 0

(***************************************************************************)
(* _state is assigned by the application's thread (close), the Driver's    *)
(* (connected) and BLIPIO's (closed), and yet settles: when a connection   *)
(* that has been told of its end is at rest, its _state says so, unless    *)
(* close() was called afterwards.                                          *)
(***************************************************************************)
StateSettles ==
    \A p \in Peers :
        (phase[p] = "closed" /\ AtRest(p) /\ ~lateClose[p]) =>
            state[p] \in {"kClosed", "kDisconnected"}

(***************************************************************************)
(* "When one closes, the other will receive a close event"                 *)
(* (LoopbackProvider.hh:55), and so will the one that closes: unless the   *)
(* event came before the other had connected, or it never starts.          *)
(***************************************************************************)
BothAreTold ==
    \A p, q \in Peers :
        (closes[p] > 0 /\ started[q]) ~>
            (phase[q] = "closed" \/ "_connect" \in asserted[q] \/ terminated[q] \/ lateClose[p])
==============================================================================
