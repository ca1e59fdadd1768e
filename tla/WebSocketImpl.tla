---------------------------- MODULE WebSocketImpl ----------------------------
(***************************************************************************)
(* One WebSocketImpl and the three threads that use it: the socket's (it   *)
(* calls onConnect, onReceive, onWriteComplete and onClose, one at a time),*)
(* the delegate's actor (send, close) and the Timer's (sendPing, timedOut).*)
(* `mutex' is _mutex; what a thread does while it holds it is one step,    *)
(* unless it waits in there.  A frame counts as one byte; the socket       *)
(* itself, and the peer, are external.                                     *)
(***************************************************************************)
EXTENDS Timer, SequencesExt

CONSTANTS
    SendBuffer,      \* kSendBufferSize
    MaxSends,        \* bound: messages the delegate sends
    MaxPings,        \* bound: firings of the ping timer
    PeerFrames,      \* bound: the sequences of frames the peer sends of its own
                     \* accord; it may stop anywhere in them.  It repeats a
                     \* CLOSE at most once: two would fill the protocol's
                     \* stack of opcodes for good
    Unreliable       \* whether the network may fail

ASSUME WebSocketImplAssumption ==
    /\ {SendBuffer, MaxSends, MaxPings} \subseteq Nat
    /\ \A frames \in PeerFrames : frames \in Seq({"BINARY", "PING", "CLOSE", "BAD"})
    /\ Timers = {"ping", "response"}
    /\ Unreliable \in BOOLEAN

Threads == {"socket", "actor", "timer"}

VARIABLES
    framing,    \* _framing
    mutex,      \* the thread that holds _mutex while it waits, or "none"
    pc,         \* where each thread is
    op,         \* the opcode each thread is passing to sendOp
    timers,     \* the Timers that exist: the unique_ptrs that are not null
    ws,         \* the other fields of the WebSocketImpl
    chunk,      \* the frames onReceive has still to consume
    app,        \* the delegate: what it has been told and what its actor does
    net,        \* the socket and the peer
    sent,       \* history: CLOSE frames given to sendBytes, frames behind them
    mishaps     \* history: what has gone wrong in a way known to happen

vars == <<framing, mutex, pc, op, timers, schedule, triggered, ws, chunk, app, net, sent, mishaps>>

Init ==
    /\ framing \in BOOLEAN
    /\ mutex = "none"
    /\ pc = [th \in Threads |-> "idle"]
    /\ op = [th \in Threads |-> "none"]
    /\ timers = {"response"}
    /\ TimerInit
    /\ ws = [closeSent |-> FALSE, closeReceived |-> FALSE, closed |-> FALSE,
             timedOut |-> FALSE, protocolError |-> FALSE,
             buffered |-> 0,            \* _bufferedBytes
             msgToSend |-> "none"]      \* _opToSend while _msgToSend is not null
    /\ chunk = <<>>
    /\ app = [phase |-> "unopened",     \* has it been told "open", "closed"?
              heard |-> 0,              \* how many calls the delegate has had
              status |-> "none",        \* what onWebSocketClose said
              mailbox |-> <<>>,         \* calls the actor has still to handle
              writeable |-> FALSE,      \* its own _writeable
              sends |-> 0]
    /\ net = [socket |-> "new",         \* then "connecting", "open", "ended"
              closeAsked |-> FALSE,     \* was closeSocket or requestClose called?
              failed |-> FALSE,         \* did the network fail?
              outgoing |-> <<>>,        \* given to sendBytes and not yet written
              pings |-> 0,              \* how often the ping timer has fired
              incoming |-> <<>>,        \* sent by the peer and not yet received
              peerSent |-> <<>>,
              pongsOwed |-> 0]          \* PINGs the peer has and has not answered
    /\ sent = [closes |-> 0, behind |-> 0]
    /\ mishaps = {}

Goes(th, where) == pc' = [pc EXCEPT ![th] = where]
At(th, where) == pc[th] = where
Unlocked == mutex = "none"
Calling(th, o) == Goes(th, "sendOp") /\ op' = [op EXCEPT ![th] = o]

\* A call of the delegate's; its actor has no use here for a message.
TellDelegate(call) ==
    app' = [app EXCEPT
        !.heard = @ + 1,
        !.phase = CASE call = "connect" -> "open" [] call = "close" -> "closed" [] OTHER -> @,
        !.mailbox = IF call = "message" THEN @ ELSE Append(@, call)]

Happens(mishap, condition) == mishaps' = mishaps \union {m \in {mishap} : condition}

\* closeSocket and requestClose return at once; onClose follows on the socket's
\* own thread.
CloseSocket == net' = [net EXCEPT !.closeAsked = TRUE]
------------------------------------------------------------------------------
(***************************************************************************)
(* Sending, on any thread.                                                 *)
(***************************************************************************)
\* sendOp returns; the result of send is the delegate's new _writeable.
SendReturns(th, result) ==
    /\ Goes(th, IF th = "timer" THEN "return" ELSE "idle")
    /\ op' = [op EXCEPT ![th] = "none"]
    /\ app' = [app EXCEPT !.writeable = IF op[th] = "BINARY" THEN result ELSE @]

Refused_Never(o) == FALSE

Refused(o) == ws.closeSent /\ o # "CLOSE"

\* sendOp, while it holds the mutex ...
SendOp(th) ==
    /\ At(th, "sendOp") /\ Unlocked
    /\ IF Refused(op[th])
       THEN SendReturns(th, FALSE) /\ UNCHANGED ws
       ELSE /\ ws' = [ws EXCEPT !.buffered = @ + 1]
            /\ Goes(th, IF ws'.buffered <= SendBuffer THEN "sendBytes" ELSE "sendBytesFull")
            /\ UNCHANGED <<op, app>>
    /\ UNCHANGED <<framing, mutex, timers, timerVars, chunk, net, sent, mishaps>>

\* ... and afterwards: the lock is released before sendBytes is called.
SendBytes(th) ==
    /\ pc[th] \in {"sendBytes", "sendBytesFull"}
    /\ net' = [net EXCEPT !.outgoing = IF net.socket = "ended" THEN @ ELSE Append(@, op[th])]
    /\ sent' = [closes |-> sent.closes + (IF op[th] = "CLOSE" THEN 1 ELSE 0),
                behind |-> sent.behind + (IF sent.closes > 0 THEN 1 ELSE 0)]
    /\ SendReturns(th, At(th, "sendBytes"))
    /\ UNCHANGED <<framing, mutex, timers, timerVars, ws, chunk, mishaps>>
------------------------------------------------------------------------------
(***************************************************************************)
(* The delegate's actor.                                                   *)
(***************************************************************************)
\* startResponseTimer looks whether the timer exists.
StartResponseTimer ==
    IF "response" \in timers THEN FireAfter("response") ELSE UNCHANGED timerVars

\* WebSocket::connect, by whoever starts the Connection.
Connect ==
    /\ net.socket = "new"
    /\ net' = [net EXCEPT !.socket = "connecting"]
    /\ StartResponseTimer
    /\ UNCHANGED <<framing, mutex, pc, op, timers, ws, chunk, app, sent, mishaps>>

\* The actor handles the next call that its delegate methods have queued.
HandleCall ==
    /\ At("actor", "idle") /\ app.mailbox # <<>>
    /\ app' = [app EXCEPT !.mailbox = Tail(@),
                          !.writeable = Head(app.mailbox) # "close"]
    /\ UNCHANGED <<framing, mutex, pc, op, timers, timerVars, ws, chunk, net, sent, mishaps>>

Send ==
    /\ At("actor", "idle") /\ app.writeable /\ app.sends < MaxSends
    /\ app' = [app EXCEPT !.sends = @ + 1]
    /\ Calling("actor", "BINARY")
    /\ UNCHANGED <<framing, mutex, timers, timerVars, ws, chunk, net, sent, mishaps>>

Close_NoTimeout ==
    /\ At("actor", "idle") /\ framing /\ net.socket \in {"connecting", "open"}
    /\ Unlocked
    /\ ~ws.closeSent /\ ~ws.closeReceived
    /\ ws' = [ws EXCEPT !.closeSent = TRUE]
    /\ Calling("actor", "CLOSE")
    /\ UNCHANGED <<framing, mutex, timers, timerVars, chunk, app, net, sent, mishaps>>

\* WebSocketImpl::close, with framing, up to the call of sendOp.  BLIPIO may call
\* it before the socket is connected.
Close ==
    /\ At("actor", "idle") /\ framing /\ net.socket \in {"connecting", "open"}
    /\ Unlocked
    /\ ~ws.closeSent /\ ~ws.closeReceived      \* otherwise it returns
    /\ ws' = [ws EXCEPT !.closeSent = TRUE]
    /\ StartResponseTimer
    /\ Calling("actor", "CLOSE")
    /\ UNCHANGED <<framing, mutex, timers, chunk, app, net, sent, mishaps>>

\* Without framing, closing is the socket's business: close, onCloseRequested.
RequestClose ==
    /\ ~framing /\ net.socket \in {"connecting", "open"} /\ ~net.closeAsked
    /\ CloseSocket
    /\ UNCHANGED <<framing, mutex, pc, op, timers, timerVars, ws, chunk, app, sent, mishaps>>
------------------------------------------------------------------------------
(***************************************************************************)
(* The Timer's thread.                                                     *)
(***************************************************************************)
\* A timer fires: its callback, sendPing or timedOut, begins.
TimerFires(t) ==
    /\ At("timer", "idle")
    /\ Fire(t)
    /\ t = "ping" => net.pings < MaxPings
    /\ net' = [net EXCEPT !.pings = IF t = "ping" THEN @ + 1 ELSE @]
    /\ Goes("timer", IF t = "ping" THEN "sendPing" ELSE "timedOut")
    /\ UNCHANGED <<framing, mutex, op, timers, ws, chunk, app, sent, mishaps>>

\* sendPing: schedulePing and startResponseTimer under the lock, then sendOp.
SendPing ==
    /\ At("timer", "sendPing") /\ Unlocked
    /\ IF "ping" \in timers
       THEN /\ schedule' = schedule \union (IF ws.closeSent THEN {} ELSE {"ping"})
                                    \union (timers \intersect {"response"})
            /\ Calling("timer", "PING")
       ELSE Goes("timer", "return") /\ UNCHANGED <<op, schedule>>
    /\ UNCHANGED <<framing, mutex, timers, triggered, ws, chunk, app, net, sent, mishaps>>

\* timedOut takes no lock.
TimedOut ==
    /\ At("timer", "timedOut")
    /\ ws' = [ws EXCEPT !.timedOut = TRUE]
    /\ CloseSocket
    /\ Goes("timer", "return")
    /\ UNCHANGED <<framing, mutex, op, timers, timerVars, chunk, app, sent, mishaps>>

TimerReturns ==
    /\ At("timer", "return")
    /\ CallbackReturns
    /\ Goes("timer", "idle")
    /\ UNCHANGED <<framing, mutex, op, timers, ws, chunk, app, net, sent, mishaps>>
------------------------------------------------------------------------------
(***************************************************************************)
(* The socket's thread: connecting and receiving.                          *)
(***************************************************************************)
SocketIdle == At("socket", "idle") /\ net.socket \in {"connecting", "open"}

\* onConnect tells the delegate before it has made the ping timer.  The timeout
\* it stops may be that of a close().
OnConnect ==
    /\ SocketIdle /\ net.socket = "connecting"
    /\ net' = [net EXCEPT !.socket = "open"]
    /\ Stop("response")
    /\ Happens("closeTimeoutStopped", ws.closeSent)
    /\ TellDelegate("connect")
    /\ Goes("socket", IF framing THEN "makePing" ELSE "idle")
    /\ UNCHANGED <<framing, mutex, op, timers, ws, chunk, sent>>

MakePingTimer ==
    /\ At("socket", "makePing")
    /\ timers' = timers \union {"ping"}
    /\ IF ws.closeSent THEN UNCHANGED timerVars ELSE FireAfter("ping")
    /\ Goes("socket", "idle")
    /\ UNCHANGED <<framing, mutex, op, ws, chunk, app, net, sent, mishaps>>

\* onReceive, with any number of the frames that have arrived: it holds the
\* mutex to the end of `consume' ...
OnReceive ==
    /\ SocketIdle /\ framing /\ net.socket = "open" /\ Unlocked
    /\ mutex' = "socket"
    /\ \E n \in 1..Len(net.incoming) :
         /\ chunk' = SubSeq(net.incoming, 1, n)
         /\ net' = [net EXCEPT !.incoming = SubSeq(@, n + 1, Len(@))]
    /\ Goes("socket", "consume")
    /\ UNCHANGED <<framing, op, timers, timerVars, ws, app, sent, mishaps>>

\* ... and without framing, data is a message.
OnReceiveMessage ==
    /\ SocketIdle /\ ~framing /\ net.incoming # <<>>
    /\ TellDelegate("message")
    /\ net' = [net EXCEPT !.incoming = Tail(@)]
    /\ UNCHANGED <<framing, mutex, pc, op, timers, timerVars, ws, chunk, sent, mishaps>>

\* handleFragment and receivedMessage take the next frame.
Consume(frame) ==
    /\ At("socket", "consume") /\ chunk # <<>> /\ Head(chunk) = frame
    /\ chunk' = Tail(chunk)
    /\ UNCHANGED <<framing, mutex, op, sent>>

ReceivedBinary ==
    /\ Consume("BINARY")
    /\ TellDelegate("message")
    /\ UNCHANGED <<pc, timers, timerVars, ws, net, mishaps>>

\* Only the last reply is remembered, so that of a PING may displace a CLOSE.
ReceivedPing ==
    /\ Consume("PING")
    /\ ws' = [ws EXCEPT !.msgToSend = "PONG"]
    /\ Happens("echoOverwritten", ws.msgToSend = "CLOSE")
    /\ UNCHANGED <<pc, timers, timerVars, app, net>>

\* receivedPong stops the response timer, whatever it was started for; it does
\* not look whether the timer still exists.
ReceivedPong ==
    /\ Consume("PONG")
    /\ IF "response" \in timers
       THEN /\ Stop("response")
            /\ Happens("closeTimeoutStopped", ws.closeSent)
            /\ UNCHANGED pc
       ELSE /\ Goes("socket", "crashed")
            /\ Happens("nullTimer", TRUE)
            /\ UNCHANGED timerVars
    /\ UNCHANGED <<timers, ws, app, net>>

\* The reset() of the first of two Timers: its pointer is null, it is stopped;
\* then the destructor waits.
DestroyTimers ==
    /\ timers' = timers \ {"ping"}
    /\ Stop("ping")
    /\ Goes("socket", "waitPing")

\* receivedClose of the peer's first CLOSE: an answer, or to be echoed ...
ReceivedClose ==
    /\ ~ws.closeReceived
    /\ Consume("CLOSE")
    /\ ws' = [ws EXCEPT !.closeReceived = TRUE, !.closeSent = TRUE,
                        !.msgToSend = IF ws.closeSent THEN @ ELSE "CLOSE"]
    /\ net' = [net EXCEPT !.closeAsked = @ \/ ws.closeSent]
    /\ DestroyTimers
    /\ UNCHANGED <<app, mishaps>>

\* ... and of a repeated one: it returns false, so consume drops the rest of the
\* data.
ReceivedCloseAgain ==
    /\ ws.closeReceived
    /\ At("socket", "consume") /\ chunk # <<>> /\ Head(chunk) = "CLOSE"
    /\ chunk' = <<>>
    /\ UNCHANGED <<framing, mutex, pc, op, timers, timerVars, ws, app, net, sent, mishaps>>

\* consume calls protocolError, and drops the rest of the data.
ReceivedBad ==
    /\ At("socket", "consume") /\ chunk # <<>> /\ Head(chunk) = "BAD"
    /\ chunk' = <<>>
    /\ ws' = [ws EXCEPT !.protocolError = TRUE]
    /\ CloseSocket
    /\ UNCHANGED <<framing, mutex, pc, op, timers, timerVars, app, sent, mishaps>>

\* The end of onReceive: unlocks, and sends the reply if there is one.
ReceiveDone ==
    /\ At("socket", "consume") /\ chunk = <<>>
    /\ mutex' = "none"
    /\ ws' = [ws EXCEPT !.msgToSend = "none"]
    /\ IF ws.msgToSend = "none"
       THEN Goes("socket", "idle") /\ UNCHANGED op
       ELSE Calling("socket", ws.msgToSend)
    /\ UNCHANGED <<framing, timers, timerVars, chunk, app, net, sent, mishaps>>
------------------------------------------------------------------------------
(***************************************************************************)
(* The socket's thread: the destructors, writing and closing.              *)
(***************************************************************************)
\* The destructor of the ping timer returns; the other timer is next ...
PingTimerGone ==
    /\ At("socket", "waitPing") /\ HasFired("ping")
    /\ timers' = timers \ {"response"}
    /\ Stop("response")
    /\ Goes("socket", "waitResponse")
    /\ UNCHANGED <<framing, mutex, op, ws, chunk, app, net, sent, mishaps>>

\* ... and then the caller, receivedClose or onClose, goes on.
ResponseTimerGone ==
    /\ At("socket", "waitResponse") /\ HasFired("response")
    /\ Goes("socket", IF net.socket = "ended" THEN "onClose" ELSE "consume")
    /\ UNCHANGED <<framing, mutex, op, timers, timerVars, ws, chunk, app, net, sent, mishaps>>

Notifies_Below(before, after) == before >= SendBuffer /\ after < SendBuffer

Notifies(before, after) == before > SendBuffer /\ after <= SendBuffer

Disconnects_OneSided(after) == ws.closeSent /\ after = 0

Disconnects(after) == ws.closeSent /\ ws.closeReceived /\ after = 0

\* onWriteComplete, when the peer has a frame.
OnWriteComplete ==
    /\ SocketIdle /\ net.socket = "open" /\ net.outgoing # <<>> /\ Unlocked
    /\ ws' = [ws EXCEPT !.buffered = @ - 1]
    /\ net' = [net EXCEPT !.outgoing = Tail(@),
                          !.pongsOwed = IF Head(net.outgoing) = "PING" THEN @ + 1 ELSE @]
    /\ Goes("socket", IF Disconnects(ws.buffered - 1) THEN "disconnect"
                      ELSE IF Notifies(ws.buffered, ws.buffered - 1) THEN "notify"
                      ELSE "idle")
    /\ UNCHANGED <<framing, mutex, op, timers, timerVars, chunk, app, sent, mishaps>>

\* What onWriteComplete does when it has released the lock.
AfterWrite ==
    /\ \/ At("socket", "disconnect") /\ CloseSocket /\ UNCHANGED app
       \/ At("socket", "notify") /\ TellDelegate("writeable") /\ UNCHANGED net
    /\ Goes("socket", "idle")
    /\ UNCHANGED <<framing, mutex, op, timers, timerVars, ws, chunk, sent, mishaps>>

\* Whatever was on its way is lost.
SocketEnds ==
    net' = [net EXCEPT !.socket = "ended", !.failed = ~net.closeAsked,
                       !.outgoing = <<>>, !.incoming = <<>>, !.pongsOwed = 0]

OnClose_Again ==
    /\ At("socket", "idle") /\ Unlocked
    /\ net.socket # "new" /\ (net.closeAsked \/ Unreliable)
    /\ SocketEnds
    /\ mutex' = "socket"
    /\ DestroyTimers
    /\ UNCHANGED <<framing, op, ws, chunk, app, sent, mishaps>>

\* onClose is called, perhaps more than once, when the socket has closed because
\* it was asked to or because the network failed: it locks, and destroys the
\* timers.
OnClose ==
    /\ At("socket", "idle") /\ Unlocked
    /\ net.socket # "new" /\ (net.closeAsked \/ Unreliable)
    /\ ~ws.closed                          \* otherwise it returns
    /\ SocketEnds
    /\ mutex' = "socket"
    /\ DestroyTimers
    /\ UNCHANGED <<framing, op, ws, chunk, app, sent, mishaps>>

\* The status the delegate is given, from what the socket reports: an errno, or
\* a plain end, as kWebSocketClose or as errno 0.
Status(report) ==
    CASE report = "errno" -> "error"
      [] report = "closed" /\ ws.timedOut -> "timeout"
      [] report = "closed" /\ ~ws.timedOut /\ ws.protocolError -> "protocolError"
      [] OTHER -> IF ~framing \/ (ws.closeSent /\ ws.closeReceived) THEN "clean" ELSE "abnormal"

\* The rest of onClose: the flag that keeps it from being repeated, and the call.
OnCloseEnds ==
    /\ At("socket", "onClose")
    /\ \E report \in IF net.failed THEN {"errno", "eof"} ELSE {"closed"} :
         app' = [app EXCEPT !.heard = @ + 1, !.phase = "closed", !.status = Status(report),
                            !.mailbox = Append(@, "close")]
    /\ ws' = [ws EXCEPT !.closed = TRUE]
    /\ mutex' = "none"
    /\ Goes("socket", "idle")
    /\ UNCHANGED <<framing, op, timers, timerVars, chunk, net, sent, mishaps>>
------------------------------------------------------------------------------
(***************************************************************************)
(* The peer, which may run this code too: like SendBytes, it may have a    *)
(* PING or a PONG follow its CLOSE.                                        *)
(***************************************************************************)
PeerSends(frame) ==
    /\ net.socket = "open" /\ (framing \/ frame = "BINARY")
    /\ \E frames \in PeerFrames : IsPrefix(Append(net.peerSent, frame), frames)
    /\ net' = [net EXCEPT !.peerSent = Append(@, frame), !.incoming = Append(@, frame)]
    /\ UNCHANGED <<framing, mutex, pc, op, timers, timerVars, ws, chunk, app, sent, mishaps>>

PeerPongs ==
    /\ net.socket = "open" /\ net.pongsOwed > 0
    /\ net' = [net EXCEPT !.pongsOwed = @ - 1, !.incoming = Append(@, "PONG")]
    /\ UNCHANGED <<framing, mutex, pc, op, timers, timerVars, ws, chunk, app, sent, mishaps>>

ActorSteps == HandleCall \/ SendOp("actor") \/ SendBytes("actor")

TimerSteps == SendPing \/ SendOp("timer") \/ SendBytes("timer") \/ TimedOut \/ TimerReturns

ReceiveSteps ==
    \/ OnReceive \/ OnReceiveMessage
    \/ ReceivedBinary \/ ReceivedPing \/ ReceivedPong
    \/ ReceivedClose \/ ReceivedCloseAgain \/ ReceivedBad
    \/ ReceiveDone
    \/ SendOp("socket") \/ SendBytes("socket")

SocketSteps ==
    \/ MakePingTimer
    \/ ReceiveSteps
    \/ PingTimerGone \/ ResponseTimerGone
    \/ OnWriteComplete \/ AfterWrite
    \/ OnClose \/ OnCloseEnds

Next ==
    \/ Connect \/ Send \/ Close \/ RequestClose
    \/ ActorSteps
    \/ \E t \in Timers : TimerFires(t)
    \/ TimerSteps
    \/ OnConnect
    \/ SocketSteps
    \/ \E frame \in {"BINARY", "PING", "CLOSE", "BAD"} : PeerSends(frame)
    \/ PeerPongs

Spec == Init /\ [][Next]_vars

(***************************************************************************)
(* Threads keep running, and a scheduled timer fires in the end.  The      *)
(* socket writes what it is given and reports its end; nothing is assumed  *)
(* of the peer, of the application, or of the connection being made.       *)
(***************************************************************************)
FairSpec ==
    /\ Spec
    /\ WF_vars(ActorSteps)
    /\ WF_vars(TimerFires("response"))
    /\ WF_vars(TimerSteps)
    /\ WF_vars(MakePingTimer \/ ReceiveSteps)
    /\ WF_vars(PingTimerGone \/ ResponseTimerGone)
    /\ WF_vars(OnWriteComplete \/ AfterWrite)
    /\ WF_vars((net.closeAsked /\ OnClose) \/ OnCloseEnds)
------------------------------------------------------------------------------
Frames == {"BINARY", "PING", "PONG", "CLOSE", "BAD"}
Calls == {"connect", "writeable", "close"}
Mishaps == {"closeTimeoutStopped", "echoOverwritten", "nullTimer"}
FieldsType ==
    [closeSent : BOOLEAN, closeReceived : BOOLEAN, closed : BOOLEAN, timedOut : BOOLEAN,
     protocolError : BOOLEAN, buffered : Nat, msgToSend : {"none", "PONG", "CLOSE"}]
AppType ==
    [phase : {"unopened", "open", "closed"}, heard : Nat,
     status : {"none", "clean", "abnormal", "timeout", "protocolError", "error"},
     mailbox : Seq(Calls), writeable : BOOLEAN, sends : Nat]
NetType ==
    [socket : {"new", "connecting", "open", "ended"}, closeAsked : BOOLEAN, failed : BOOLEAN,
     outgoing : Seq(Frames), pings : Nat, incoming : Seq(Frames), peerSent : Seq(Frames),
     pongsOwed : Nat]

TypeOK ==
    /\ framing \in BOOLEAN
    /\ mutex \in {"none", "socket"}
    /\ pc \in [Threads -> {"idle", "sendOp", "sendBytes", "sendBytesFull", "sendPing",
                           "timedOut", "return", "makePing", "consume", "crashed", "waitPing",
                           "waitResponse", "disconnect", "notify", "onClose"}]
    /\ op \in [Threads -> {"none", "BINARY", "PING", "PONG", "CLOSE"}]
    /\ timers \subseteq Timers
    /\ TimerTypeOK
    /\ ws \in FieldsType
    /\ chunk \in Seq(Frames)
    /\ app \in AppType
    /\ net \in NetType
    /\ sent \in [closes : Nat, behind : Nat]
    /\ mishaps \subseteq Mishaps

(***************************************************************************)
(* ~Timer's promise, "the destructor will not return until after the       *)
(* callback completes", holds in spite of the race with a callback that    *)
(* reschedules its own timer: a timer that is gone is not in the schedule, *)
(* and its callback is not running unless the destructor is still waiting. *)
(***************************************************************************)
DestroyedIsQuiet ==
    \A t \in Timers \ timers :
        /\ t \notin schedule
        /\ t \in triggered => At("socket", IF t = "ping" THEN "waitPing" ELSE "waitResponse")

(***************************************************************************)
(* sendOp writes after it has released the lock, so frames may follow a    *)
(* CLOSE; but there is only ever one CLOSE, although both ends and two     *)
(* threads may ask for it, and at most one frame of each other thread, the *)
(* one it was already sending, comes behind it.                            *)
(***************************************************************************)
NearlyLast == sent.closes <= 1 /\ sent.behind <= Cardinality(Threads) - 1

(***************************************************************************)
(* A connection whose network has not failed never ends "abnormally":      *)
(* whoever closed it, whichever thread had the socket closed, the delegate *)
(* is told that it was clean, or that it timed out, or of a bad frame.     *)
(***************************************************************************)
AbnormalOnlyIfFailed == app.status = "abnormal" => net.failed

Contract == INSTANCE WebSocketContract WITH phase <- app.phase, heard <- app.heard

(***************************************************************************)
(* The calls of the delegate, which come from four handlers that race with *)
(* closing, timing out and the network's failure, keep the contract.       *)
(***************************************************************************)
KeepsContract == Contract!ContractSpec

(***************************************************************************)
(* The socket's thread holds the mutex and waits in ~Timer for a callback, *)
(* sendPing, that is waiting for the mutex.  Neither will ever go on.      *)
(***************************************************************************)
Deadlocked ==
    /\ mutex = "socket" /\ At("socket", "waitPing")
    /\ "ping" \in triggered /\ (At("timer", "sendPing") \/ At("timer", "sendOp"))

(***************************************************************************)
(* Once a CLOSE is under way the delegate is told of the end, though the   *)
(* peer falls silent, crosses it with a CLOSE of its own, or the network   *)
(* fails: unless the threads are deadlocked or one of the known mishaps    *)
(* has taken the timeout, the echo or the timer away.                      *)
(***************************************************************************)
CloseEnds == (framing /\ ws.closeSent) ~> (ws.closed \/ Deadlocked \/ mishaps # {})

(***************************************************************************)
(* "Timeout for disconnecting if no CLOSE response received"               *)
(* (WebSocketImpl.cc:45): as CloseEnds, without exceptions.                *)
(***************************************************************************)
CloseTimesOut == (framing /\ ws.closeSent) ~> ws.closed

(***************************************************************************)
(* A delegate whose send() returned false is told when there is room       *)
(* again, although the call may come before send() has returned, and       *)
(* PINGs and PONGs fill the same buffer: unless the connection is closing. *)
(***************************************************************************)
WriteableComes ==
    (app.phase = "open" /\ ~app.writeable) ~>
        (app.writeable \/ ws.closeSent \/ net.socket = "ended")
==============================================================================
