------------------------------- MODULE BLIPIO -------------------------------
(***************************************************************************)
(* Two BLIP connections joined by a WebSocket.  Each peer is a BLIPIO      *)
(* actor: events wait in its mailbox and are handled one at a time, to the *)
(* end, while the application, the WebSocket and the other peer go on.     *)
(*                                                                         *)
(* Sizes are counted in units (a frame or a message is a number of them);  *)
(* what a message says is left out, except for its type, number and flags. *)
(***************************************************************************)
EXTENDS MessageQueue

CONSTANTS
    Peers,          \* the two ends of the connection
    MaxUnacked,     \* kMaxUnackedBytes
    AckThreshold,   \* kIncomingAckThreshold
    DefaultFrame,   \* kDefaultFrameSize
    BigFrame,       \* kBigFrameSize
    AckSize,        \* the size of an ACK's frame
    SendBuffer,     \* kSendBufferSize of the WebSocket
    Shapes,         \* bound: the requests each peer's application makes
    Replies,        \* bound: the responses each peer's application makes
    MaxRequests,    \* bound: how many requests each peer makes
    Closers,        \* the peers whose application may close the connection
    Unreliable,     \* whether the network may fail at any time
    Throwing        \* whether handling a frame may throw an exception

ASSUME BLIPIOAssumption ==
    /\ \E a, b \in Peers : a # b /\ Peers = {a, b}
    /\ {MaxUnacked, AckThreshold, DefaultFrame, BigFrame, AckSize} \subseteq Nat \ {0}
    /\ SendBuffer \in Nat
    /\ AckThreshold <= MaxUnacked
    /\ DefaultFrame <= BigFrame
    /\ \A p \in Peers :
          /\ Shapes[p] \subseteq [size : Nat \ {0}, urgent : BOOLEAN, noReply : BOOLEAN]
          /\ Replies[p] \subseteq [type : {"RES", "ERR"}, size : Nat \ {0}, urgent : BOOLEAN]
    /\ Throwing \in BOOLEAN

VARIABLES
    \* the application's view
    progress,         \* per request sent: does it want a reply, how did it end
    toRespond,        \* numbers of requests delivered and not yet responded to
    \* the actor
    mailbox,          \* events waiting
    running,          \* the method going through `batch', or "idle"
    batch,            \* frames popped from the Batcher, being handled
    writing,          \* is the actor inside the loop of writeToWebSocket?
    outbox, icebox,   \* _outbox, _icebox
    writeable,        \* _writeable
    pendingRequests,  \* _pendingRequests: number -> MessageIn
    pendingResponses, \* _pendingResponses: number -> MessageIn
    lastMessageNo,    \* _lastMessageNo
    numReceived,      \* _numRequestsReceived
    closingWithError, \* _closingWithError: "none" or why
    \* the WebSocket
    incoming,         \* frames delivered, held by the Batcher _incomingFrames
    wire,             \* frames sent and not yet delivered to the other peer
    buffered,         \* _bufferedBytes: how much that is
    closeSent,        \* has this end sent a CLOSE?
    socket            \* "open", "closed", or "gone": _webSocket is null

appVars  == <<progress, toRespond>>
sendVars == <<outbox, icebox, writeable, writing, lastMessageNo>>
recvVars == <<pendingRequests, pendingResponses, numReceived>>
loopVars == <<running, batch>>
sockVars == <<incoming, wire, buffered, closeSent, socket>>
vars == <<appVars, sendVars, recvVars, loopVars, sockVars, mailbox, closingWithError>>

Other(p) == CHOOSE q \in Peers : q # p

SmallerOf(a, b) == IF a <= b THEN a ELSE b

\* unordered_map::emplace, or the assignment to what is there already ...
With(map, key, value) == [k \in DOMAIN map \union {key} |-> IF k = key THEN value ELSE map[k]]

\* ... and unordered_map::erase.
Without(map, key) == [k \in DOMAIN map \ {key} |-> map[k]]
------------------------------------------------------------------------------
(***************************************************************************)
(* Messages and frames.                                                    *)
(***************************************************************************)
NewRequest(shape, id) ==
    [type |-> "REQ", number |-> 0, id |-> id, urgent |-> shape.urgent,
     noReply |-> shape.noReply, left |-> shape.size, bytesSent |-> 0,
     unacked |-> 0, count |-> 0]

NewResponse(reply, msgNo) ==
    [type |-> reply.type, number |-> msgNo, id |-> 0, urgent |-> reply.urgent,
     noReply |-> FALSE, left |-> reply.size, bytesSent |-> 0,
     unacked |-> 0, count |-> 0]

\* The ACK that MessageIn::acknowledge makes.
NewAck(type, msgNo, count) ==
    [type |-> type, number |-> msgNo, id |-> 0, urgent |-> TRUE,
     noReply |-> TRUE, left |-> AckSize, bytesSent |-> 0,
     unacked |-> 0, count |-> count]

\* A MessageIn nothing has been received of yet; `id' is its _onProgress.
NewIncoming(id, noReply) == [raw |-> 0, unacked |-> 0, id |-> id, noReply |-> noReply]

needsAck(m) == m.unacked >= MaxUnacked

\* MessageOut::createResponse makes an object for these messages only, and
\* MessageOut::disconnected tells only these that they were given up.
wantsReply(m) == m.type = "REQ" /\ ~m.noReply

\* The terminal calls of the _onProgress callbacks of the requests `ids'.
Ended(p, ids, how) ==
    [i \in DOMAIN progress[p] |->
        IF i \in ids THEN [progress[p][i] EXCEPT !.ends = Append(@, how)]
                     ELSE progress[p][i]]

SetProgress(p, ids, how) == progress' = [progress EXCEPT ![p] = Ended(p, ids, how)]

Post(p, events) == mailbox' = [mailbox EXCEPT ![p] = @ \o events]

Queued(m) == [ev |-> "queueMessage", msg |-> m]
Event(name) == [ev |-> name]

\* The actor takes its next event once it is done with the one before.
Idle(p) == running[p] = "idle" /\ ~writing[p]

Takes(p, name) ==
    /\ Idle(p)
    /\ mailbox[p] # <<>>
    /\ Head(mailbox[p]).ev = name
    /\ mailbox' = [mailbox EXCEPT ![p] = Tail(@)]

\* The loop of writeToWebSocket runs while the socket is writeable and there is
\* a message; an iteration is a step of WriteFrame.
writeToWebSocket(p) ==
    writing' = [writing EXCEPT ![p] = writeable'[p] /\ outbox'[p] # <<>>]
------------------------------------------------------------------------------
\* The WebSocket is connected: onWebSocketConnect has asked for data.
Init ==
    /\ progress = [p \in Peers |-> <<>>]
    /\ toRespond = [p \in Peers |-> {}]
    /\ mailbox = [p \in Peers |-> <<Event("onWebSocketWriteable")>>]
    /\ running = [p \in Peers |-> "idle"]
    /\ batch = [p \in Peers |-> <<>>]
    /\ writing = [p \in Peers |-> FALSE]
    /\ outbox = [p \in Peers |-> <<>>]
    /\ icebox = [p \in Peers |-> <<>>]
    /\ writeable = [p \in Peers |-> TRUE]
    /\ pendingRequests = [p \in Peers |-> <<>>]
    /\ pendingResponses = [p \in Peers |-> <<>>]
    /\ lastMessageNo = [p \in Peers |-> 0]
    /\ numReceived = [p \in Peers |-> 0]
    /\ closingWithError = [p \in Peers |-> "none"]
    /\ incoming = [p \in Peers |-> <<>>]
    /\ wire = [p \in Peers |-> <<>>]
    /\ buffered = [p \in Peers |-> 0]
    /\ closeSent = [p \in Peers |-> FALSE]
    /\ socket = [p \in Peers |-> "open"]
------------------------------------------------------------------------------
(***************************************************************************)
(* The application, on any thread and at any time.                         *)
(***************************************************************************)

\* Connection::sendRequest
SendRequest(p, shape) ==
    /\ Len(progress[p]) < MaxRequests[p]
    /\ progress' = [progress EXCEPT ![p] =
                        Append(@, [noReply |-> shape.noReply, ends |-> <<>>])]
    /\ Post(p, <<Queued(NewRequest(shape, Len(progress[p]) + 1))>>)
    /\ UNCHANGED <<toRespond, sendVars, recvVars, loopVars, sockVars, closingWithError>>

\* MessageIn::respond, once per request
Respond(p, msgNo, reply) ==
    /\ msgNo \in toRespond[p]
    /\ toRespond' = [toRespond EXCEPT ![p] = @ \ {msgNo}]
    /\ Post(p, <<Queued(NewResponse(reply, msgNo))>>)
    /\ UNCHANGED <<progress, sendVars, recvVars, loopVars, sockVars, closingWithError>>

\* Connection::close, once; the actor may find the WebSocket closed already.
Close(p) ==
    /\ p \in Closers
    /\ socket[p] = "open" /\ ~closeSent[p]
    /\ \A i \in DOMAIN mailbox[p] : mailbox[p][i].ev # "close"
    /\ Post(p, <<Event("close")>>)
    /\ UNCHANGED <<appVars, sendVars, recvVars, loopVars, sockVars, closingWithError>>
------------------------------------------------------------------------------
(***************************************************************************)
(* The actor: outgoing messages.                                           *)
(***************************************************************************)

\* _queueMessage: refuse the message, or number it, queue it and write.
QueueMessage(p) ==
    /\ Takes(p, "queueMessage")
    /\ LET m == Head(mailbox[p]).msg
           number == IF m.number = 0 THEN lastMessageNo[p] + 1 ELSE m.number
       IN  IF socket[p] = "gone" \/ closingWithError[p] # "none"
           THEN /\ SetProgress(p, IF wantsReply(m) THEN {m.id} ELSE {}, "disconnected")
                /\ UNCHANGED sendVars
           ELSE /\ lastMessageNo' = [lastMessageNo EXCEPT ![p] =
                                        IF m.number = 0 THEN number ELSE @]
                /\ outbox' = [outbox EXCEPT ![p] =
                                 requeue(@, [m EXCEPT !.number = number])]
                /\ UNCHANGED <<icebox, writeable, progress>>
                /\ writeToWebSocket(p)
    /\ UNCHANGED <<toRespond, recvVars, loopVars, sockVars, closingWithError>>

\* _onWebSocketWriteable
OnWriteable(p) ==
    /\ Takes(p, "onWebSocketWriteable")
    /\ writeable' = [writeable EXCEPT ![p] = TRUE]
    /\ UNCHANGED <<outbox, icebox, lastMessageNo>>
    /\ writeToWebSocket(p)
    /\ UNCHANGED <<appVars, recvVars, loopVars, sockVars, closingWithError>>

(***************************************************************************)
(* One iteration of writeToWebSocket: pop a message, give it room for one  *)
(* frame, hand the frame to the WebSocket (which drops it once a CLOSE was *)
(* sent), then freeze the message, requeue it or be done with it.          *)
(***************************************************************************)
FrameRoom(m, rest) ==
    IF m.urgent \/ rest = <<>> \/ ~Head(rest).urgent THEN BigFrame ELSE DefaultFrame

\* MessageOut::nextFrameToSend: the message after a frame of `size'.
Sent(m, size) ==
    IF isAck(m) THEN [m EXCEPT !.left = 0, !.bytesSent = @ + size]
    ELSE [m EXCEPT !.left = @ - size, !.bytesSent = @ + size, !.unacked = @ + size]

FrameOf(m, size) ==
    [type |-> m.type, number |-> m.number, more |-> m.left > size,
     noReply |-> m.noReply, size |-> size, count |-> m.count]

WriteFrame(p) ==
    /\ writing[p]
    /\ LET m    == Head(outbox[p])
           rest == Tail(outbox[p])
           size == SmallerOf(m.left, FrameRoom(m, rest))
           sent == Sent(m, size)
           more == sent.left > 0
       IN  /\ wire' = IF closeSent[p] THEN wire
                      ELSE [wire EXCEPT ![p] = Append(@, FrameOf(m, size))]
           /\ buffered' = IF closeSent[p] THEN buffered ELSE [buffered EXCEPT ![p] = @ + size]
           /\ writeable' = [writeable EXCEPT ![p] =
                               ~closeSent[p] /\ buffered'[p] <= SendBuffer]
           /\ outbox' = [outbox EXCEPT ![p] =
                            IF more /\ ~needsAck(sent) THEN requeue(rest, sent) ELSE rest]
           /\ icebox' = [icebox EXCEPT ![p] =
                            IF more /\ needsAck(sent) THEN Append(@, sent) ELSE @]
           /\ pendingResponses' = [pendingResponses EXCEPT ![p] =
                 IF ~more /\ wantsReply(m)
                 THEN With(@, m.number, NewIncoming(m.id, FALSE)) ELSE @]
           /\ SetProgress(p, IF ~more /\ m.type = "REQ" /\ m.noReply THEN {m.id} ELSE {},
                          "complete")
    /\ writeToWebSocket(p)
    /\ UNCHANGED <<toRespond, lastMessageNo, pendingRequests, numReceived, loopVars,
                   incoming, closeSent, socket, mailbox, closingWithError>>
------------------------------------------------------------------------------
(***************************************************************************)
(* The actor: incoming frames.                                             *)
(***************************************************************************)

\* _onWebSocketMessages: pop the batch, unless an error made frames moot.
OnMessages(p) ==
    /\ Takes(p, "onWebSocketMessages")
    /\ incoming' = [incoming EXCEPT ![p] = <<>>]
    /\ IF incoming[p] = <<>> \/ closingWithError[p] # "none"
       THEN UNCHANGED loopVars
       ELSE /\ batch' = [batch EXCEPT ![p] = incoming[p]]
            /\ running' = [running EXCEPT ![p] = "onWebSocketMessages"]
    /\ UNCHANGED <<appVars, sendVars, recvVars, wire, buffered, closeSent, socket,
                   closingWithError>>

Handles(p, types) ==
    /\ batch[p] # <<>>
    /\ ~writing[p]
    /\ Head(batch[p]).type \in types

\* The batch shrinks to `frames'; _closed goes on after its last frame.
LoopOn(p, frames) ==
    /\ batch' = [batch EXCEPT ![p] = frames]
    /\ running' = [running EXCEPT ![p] =
                      IF frames = <<>> /\ @ = "onWebSocketMessages" THEN "idle" ELSE @]

\* The frame after which the loop ends with an exception: _closeWithError.
CloseWithError(p, why) ==
    /\ closingWithError' = [closingWithError EXCEPT ![p] = why]
    /\ closeSent' = [closeSent EXCEPT ![p] = TRUE]
    /\ LoopOn(p, <<>>)
    /\ UNCHANGED <<incoming, wire, buffered, socket>>

\* MessageIn::acknowledge: what the MessageIn counts, and the ACK it sends.
AckDue(in, frame) == in.unacked + frame.size >= AckThreshold

\* Mutant: acknowledge that tells requests and responses apart the wrong way.
Acknowledgement_SwappedType(in, frame, type) ==
    IF AckDue(in, frame)
    THEN <<Queued(NewAck(IF type = "ACKREQ" THEN "ACKRES" ELSE "ACKREQ", frame.number,
                         in.raw + frame.size))>>
    ELSE <<>>

Counted(in, frame) ==
    [in EXCEPT !.raw = @ + frame.size,
               !.unacked = IF AckDue(in, frame) THEN 0 ELSE @ + frame.size]

Acknowledgement(in, frame, type) ==
    IF AckDue(in, frame)
    THEN <<Queued(NewAck(type, frame.number, in.raw + frame.size))>>
    ELSE <<>>

(***************************************************************************)
(* A REQ frame: pendingRequest finds its message, makes one if it is the   *)
(* next new request, or throws; receivedFrame adds the frame to it; the    *)
(* last frame hands the request to the application.                        *)
(***************************************************************************)
IncomingRequest(p, frame) ==
    IF frame.number \in DOMAIN pendingRequests[p]
    THEN pendingRequests[p][frame.number] ELSE NewIncoming(0, frame.noReply)

IsExpected(p, msgNo) ==
    msgNo \in DOMAIN pendingRequests[p] \/ msgNo = numReceived[p] + 1

BeginRequest(p, msgNo) ==
    numReceived' = [numReceived EXCEPT ![p] =
                       IF msgNo \in DOMAIN pendingRequests[p] THEN @ ELSE msgNo]

\* handleRequestReceived: a complete request is the application's to answer.
handleRequestReceived(p, frame, in) ==
    toRespond' = [toRespond EXCEPT ![p] =
                     IF frame.more \/ in.noReply THEN @ ELSE @ \union {frame.number}]

RequestFrame(p) ==
    /\ Handles(p, {"REQ"})
    /\ LET frame == Head(batch[p])
           msgNo == frame.number
           in    == IncomingRequest(p, frame)
       IN  IF ~IsExpected(p, msgNo)
           THEN /\ CloseWithError(p, "bad REQ")
                /\ UNCHANGED <<pendingRequests, numReceived, mailbox, toRespond>>
           ELSE /\ BeginRequest(p, msgNo)
                /\ pendingRequests' = [pendingRequests EXCEPT ![p] =
                      IF frame.more THEN With(@, msgNo, Counted(in, frame))
                                    ELSE Without(@, msgNo)]
                /\ Post(p, Acknowledgement(in, frame, "ACKREQ"))
                /\ handleRequestReceived(p, frame, in)
                /\ LoopOn(p, Tail(batch[p]))
                /\ UNCHANGED <<sockVars, closingWithError>>
    /\ UNCHANGED <<progress, sendVars, pendingResponses>>

\* receivedFrame throws: the message goes back to _pendingRequests.
RequestFrameThrows(p) ==
    /\ Throwing
    /\ Handles(p, {"REQ"})
    /\ LET frame == Head(batch[p])
           in    == IncomingRequest(p, frame)
       IN  /\ IsExpected(p, frame.number)
           /\ BeginRequest(p, frame.number)
           /\ pendingRequests' = [pendingRequests EXCEPT ![p] =
                                     With(@, frame.number, Counted(in, frame))]
           /\ Post(p, Acknowledgement(in, frame, "ACKREQ"))
    /\ CloseWithError(p, "exception")
    /\ UNCHANGED <<appVars, sendVars, pendingResponses>>

(***************************************************************************)
(* A RES or ERR frame: pendingResponse finds the message or throws; the    *)
(* last frame ends the request with its reply.                             *)
(***************************************************************************)
IsAwaited(p, msgNo) == msgNo \in DOMAIN pendingResponses[p]

ResponseFrame(p) ==
    /\ Handles(p, {"RES", "ERR"})
    /\ LET frame == Head(batch[p])
           msgNo == frame.number
           in    == pendingResponses[p][msgNo]
       IN  IF ~IsAwaited(p, msgNo)
           THEN /\ CloseWithError(p, "bad RES")
                /\ UNCHANGED <<pendingResponses, mailbox, progress>>
           ELSE /\ pendingResponses' = [pendingResponses EXCEPT ![p] =
                      IF frame.more THEN With(@, msgNo, Counted(in, frame))
                                    ELSE Without(@, msgNo)]
                /\ Post(p, Acknowledgement(in, frame, "ACKRES"))
                /\ SetProgress(p, IF frame.more THEN {} ELSE {in.id}, "complete")
                /\ LoopOn(p, Tail(batch[p]))
                /\ UNCHANGED <<sockVars, closingWithError>>
    /\ UNCHANGED <<toRespond, sendVars, pendingRequests, numReceived>>

\* receivedFrame throws: only a message of type RES goes back to the list that
\* pendingResponse took it from with its last frame.
ResponseFrameThrows(p) ==
    /\ Throwing
    /\ Handles(p, {"RES", "ERR"})
    /\ LET frame == Head(batch[p])
           in    == pendingResponses[p][frame.number]
       IN  /\ IsAwaited(p, frame.number)
           /\ pendingResponses' = [pendingResponses EXCEPT ![p] =
                 IF frame.more \/ frame.type = "RES"
                 THEN With(@, frame.number, Counted(in, frame))
                 ELSE Without(@, frame.number)]
           /\ Post(p, Acknowledgement(in, frame, "ACKRES"))
    /\ CloseWithError(p, "exception")
    /\ UNCHANGED <<appVars, sendVars, pendingRequests, numReceived>>

(***************************************************************************)
(* receivedAck: look in the outbox, then in the icebox; count the ACK, and *)
(* thaw a frozen message that no longer needs one.                         *)
(***************************************************************************)
Acked(m, count) ==
    IF count <= m.bytesSent
    THEN [m EXCEPT !.unacked = SmallerOf(@, m.bytesSent - count)] ELSE m

AckFrame(p) ==
    /\ Handles(p, {"ACKREQ", "ACKRES"})
    /\ UNCHANGED writeable
    /\ LET frame  == Head(batch[p])
           onResponse == frame.type = "ACKRES"
           i == findMessage(outbox[p], frame.number, onResponse)
           j == findMessage(icebox[p], frame.number, onResponse)
           thawed == Acked(icebox[p][j], frame.count)
       IN  IF i > 0
           THEN /\ outbox' = [outbox EXCEPT ![p][i] = Acked(@, frame.count)]
                /\ UNCHANGED <<icebox, writing>>
           ELSE IF j = 0 THEN UNCHANGED <<outbox, icebox, writing>>
           ELSE IF needsAck(thawed)
           THEN /\ icebox' = [icebox EXCEPT ![p][j] = thawed]
                /\ UNCHANGED <<outbox, writing>>
           ELSE /\ icebox' = [icebox EXCEPT ![p] = RemoveAt(@, j)]
                /\ outbox' = [outbox EXCEPT ![p] = requeue(@, thawed)]
                /\ writeToWebSocket(p)
    /\ LoopOn(p, Tail(batch[p]))
    /\ UNCHANGED <<appVars, lastMessageNo, recvVars, sockVars, mailbox,
                   closingWithError>>
------------------------------------------------------------------------------
(***************************************************************************)
(* The actor: closing.                                                     *)
(***************************************************************************)

\* _close
OnClose(p) ==
    /\ Takes(p, "close")
    /\ closeSent' = [closeSent EXCEPT ![p] =
          @ \/ (socket[p] # "gone" /\ closingWithError[p] = "none")]
    /\ UNCHANGED <<appVars, sendVars, recvVars, loopVars, incoming, wire, buffered, socket,
                   closingWithError>>

\* _closed, up to the end of the frames it handles first.
OnClosed(p) ==
    /\ Takes(p, "closed")
    /\ incoming' = [incoming EXCEPT ![p] = <<>>]
    /\ batch' = [batch EXCEPT ![p] =
                    IF closingWithError[p] = "none" THEN incoming[p] ELSE <<>>]
    /\ running' = [running EXCEPT ![p] = "closed"]
    /\ UNCHANGED <<appVars, sendVars, recvVars, wire, buffered, closeSent, socket,
                   closingWithError>>

\* Mutant: _closed without cancelAll(_icebox).
Cancelled_NoIcebox(p) ==
    {m.id : m \in {m \in ToSet(outbox[p]) : wantsReply(m)}}
        \union {pendingResponses[p][n].id : n \in DOMAIN pendingResponses[p]}

\* The rest of _closed: everything unfinished is told it is disconnected.
Cancelled(p) ==
    {m.id : m \in {m \in ToSet(outbox[p]) \union ToSet(icebox[p]) : wantsReply(m)}}
        \union {pendingResponses[p][n].id : n \in DOMAIN pendingResponses[p]}

FinishClosed(p) ==
    /\ running[p] = "closed"
    /\ batch[p] = <<>>
    /\ ~writing[p]
    /\ running' = [running EXCEPT ![p] = "idle"]
    /\ socket' = [socket EXCEPT ![p] = "gone"]
    /\ SetProgress(p, Cancelled(p), "disconnected")
    /\ outbox' = [outbox EXCEPT ![p] = <<>>]
    /\ icebox' = [icebox EXCEPT ![p] = <<>>]
    /\ pendingRequests' = [pendingRequests EXCEPT ![p] = <<>>]
    /\ pendingResponses' = [pendingResponses EXCEPT ![p] = <<>>]
    /\ UNCHANGED <<toRespond, writeable, writing, lastMessageNo, numReceived, batch,
                   incoming, wire, buffered, closeSent, mailbox, closingWithError>>
------------------------------------------------------------------------------
(***************************************************************************)
(* The WebSocket.  A frame stays in its sender's buffer until delivered;   *)
(* once the sender's socket has closed it may still arrive, or be lost.    *)
(***************************************************************************)

\* Mutant: onWriteComplete that waits until the buffer is below its limit.
Drains_Below(p) ==
    buffered[p] > SendBuffer /\ buffered[p] - Head(wire[p]).size < SendBuffer

\* onWriteComplete: does the first frame's leaving bring the buffer to its limit?
Drains(p) ==
    buffered[p] > SendBuffer /\ buffered[p] - Head(wire[p]).size <= SendBuffer

\* onReceive at the other end pushes the frame into its Batcher, which posts
\* one event per batch; onWriteComplete at this end asks for more data when
\* the buffer falls to its limit.
Deliver(p) ==
    LET q == Other(p) IN
    /\ wire[p] # <<>>
    /\ socket[q] = "open"
    /\ wire' = [wire EXCEPT ![p] = Tail(@)]
    /\ buffered' = [buffered EXCEPT ![p] = @ - Head(wire[p]).size]
    /\ incoming' = [incoming EXCEPT ![q] = Append(@, Head(wire[p]))]
    /\ mailbox' = [mailbox EXCEPT
          ![p] = IF Drains(p) /\ socket[p] = "open"
                 THEN Append(@, Event("onWebSocketWriteable")) ELSE @,
          ![q] = IF incoming[q] = <<>> THEN Append(@, Event("onWebSocketMessages"))
                                       ELSE @]
    /\ UNCHANGED <<appVars, sendVars, recvVars, loopVars, closeSent, socket,
                   closingWithError>>

\* receivedClose: the other end's CLOSE comes after all its frames, and is
\* echoed; from then on send() drops frames.
ReceivedClose(p) ==
    LET q == Other(p) IN
    /\ socket[p] = "open"
    /\ closeSent[q] /\ wire[q] = <<>>
    /\ ~closeSent[p]
    /\ closeSent' = [closeSent EXCEPT ![p] = TRUE]
    /\ UNCHANGED <<appVars, sendVars, recvVars, loopVars, incoming, wire, buffered, socket, mailbox,
                   closingWithError>>

\* WebSocketImpl::onClose: the last callback to the delegate.
SocketClosed(p) ==
    /\ socket[p] = "open"
    /\ socket' = [socket EXCEPT ![p] = "closed"]
    /\ Post(p, <<Event("closed")>>)
    /\ UNCHANGED <<appVars, sendVars, recvVars, loopVars, incoming, wire, buffered, closeSent,
                   closingWithError>>

\* The handshake completes or times out, or the other end's loss is noticed.
CloseCompletes(p) == (closeSent[p] \/ socket[Other(p)] # "open") /\ SocketClosed(p)

NetworkFails(p) == Unreliable /\ SocketClosed(p)
------------------------------------------------------------------------------
ActorStep(p) ==
    \/ QueueMessage(p)
    \/ OnWriteable(p)
    \/ WriteFrame(p)
    \/ OnMessages(p)
    \/ RequestFrame(p)
    \/ ResponseFrame(p)
    \/ AckFrame(p)
    \/ OnClose(p)
    \/ OnClosed(p)
    \/ FinishClosed(p)

Application(p) ==
    \/ \E shape \in Shapes[p] : SendRequest(p, shape)
    \/ \E msgNo \in toRespond[p], reply \in Replies[p] : Respond(p, msgNo, reply)
    \/ Close(p)

Network(p) ==
    \/ Deliver(p)
    \/ ReceivedClose(p)
    \/ CloseCompletes(p)
    \/ NetworkFails(p)

Next ==
    \E p \in Peers :
        \/ ActorStep(p)
        \/ RequestFrameThrows(p)
        \/ ResponseFrameThrows(p)
        \/ Application(p)
        \/ Network(p)

Spec == Init /\ [][Next]_vars

(***************************************************************************)
(* Fairness: the Scheduler keeps running an actor that has events, an open *)
(* WebSocket keeps delivering, the closing handshake ends (by its timeout  *)
(* if not otherwise), and the application answers the requests it gets.    *)
(***************************************************************************)
Fairness ==
    \A p \in Peers :
        /\ WF_vars(ActorStep(p))
        /\ WF_vars(socket[p] = "open" /\ Deliver(p))
        /\ WF_vars(CloseCompletes(p))
        /\ WF_vars(\E msgNo \in toRespond[p], reply \in Replies[p] : Respond(p, msgNo, reply))

FairSpec == Spec /\ Fairness
------------------------------------------------------------------------------
Messages ==
    [type : MessageTypes, number : Nat, id : Nat, urgent : BOOLEAN, noReply : BOOLEAN,
     left : Nat \ {0}, bytesSent : Nat, unacked : Nat, count : Nat]

Frames ==
    [type : MessageTypes, number : Nat \ {0}, more : BOOLEAN, noReply : BOOLEAN,
     size : Nat \ {0}, count : Nat]

Requests == [noReply : BOOLEAN, ends : Seq({"complete", "disconnected"})]

Incomings == [raw : Nat, unacked : 0..AckThreshold-1, id : Nat, noReply : BOOLEAN]

Events ==
    [ev : {"queueMessage"}, msg : Messages]
        \union [ev : {"onWebSocketWriteable", "onWebSocketMessages", "close", "closed"}]

IsPending(map) == DOMAIN map \subseteq Nat \ {0} /\ \A n \in DOMAIN map : map[n] \in Incomings

TypeOK ==
    /\ progress \in [Peers -> Seq(Requests)]
    /\ toRespond \in [Peers -> SUBSET (Nat \ {0})]
    /\ mailbox \in [Peers -> Seq(Events)]
    /\ running \in [Peers -> {"idle", "onWebSocketMessages", "closed"}]
    /\ batch \in [Peers -> Seq(Frames)]
    /\ writing \in [Peers -> BOOLEAN]
    /\ outbox \in [Peers -> Seq(Messages)]
    /\ icebox \in [Peers -> Seq(Messages)]
    /\ writeable \in [Peers -> BOOLEAN]
    /\ DOMAIN pendingRequests = Peers /\ \A p \in Peers : IsPending(pendingRequests[p])
    /\ DOMAIN pendingResponses = Peers /\ \A p \in Peers : IsPending(pendingResponses[p])
    /\ lastMessageNo \in [Peers -> Nat]
    /\ numReceived \in [Peers -> Nat]
    /\ closingWithError \in [Peers -> {"none", "bad REQ", "bad RES", "exception"}]
    /\ incoming \in [Peers -> Seq(Frames)]
    /\ wire \in [Peers -> Seq(Frames)]
    /\ buffered \in [Peers -> Int]
    /\ closeSent \in [Peers -> BOOLEAN]
    /\ socket \in [Peers -> {"open", "closed", "gone"}]
------------------------------------------------------------------------------
(***************************************************************************)
(* The two ends never see each other break the protocol, whatever is sent, *)
(* requeued, frozen and thawed: every request begins after the one before  *)
(* it (pendingRequest never throws "too high" or "already finished"), and  *)
(* every response finds its request waiting (pendingResponse never throws).*)
(***************************************************************************)
NoProtocolError == \A p \in Peers : closingWithError[p] \notin {"bad REQ", "bad RES"}

(***************************************************************************)
(* Every request that wants a reply has exactly one future: it waits in    *)
(* exactly one of the mailbox, the outbox, the icebox and _pendingResponses*)
(* or its progress handler was called with a final state exactly once.  So *)
(* it is never lost, not even when the connection closes between any two   *)
(* steps, and never ends twice.                                            *)
(***************************************************************************)
Futures(p, id) ==
    LET Is(m) == m.type = "REQ" /\ m.id = id
        posted == {i \in DOMAIN mailbox[p] :
                      mailbox[p][i].ev = "queueMessage" /\ Is(mailbox[p][i].msg)}
        awaited == {n \in DOMAIN pendingResponses[p] : pendingResponses[p][n].id = id}
    IN  ({"mailbox"} \X posted)
            \union ({"outbox"} \X {i \in DOMAIN outbox[p] : Is(outbox[p][i])})
            \union ({"icebox"} \X {i \in DOMAIN icebox[p] : Is(icebox[p][i])})
            \union ({"pendingResponses"} \X awaited)
            \union ({"ended"} \X DOMAIN progress[p][id].ends)

OneFuture ==
    \A p \in Peers : \A id \in DOMAIN progress[p] :
        ~progress[p][id].noReply => \E f \in Futures(p, id) : Futures(p, id) = {f}

(***************************************************************************)
(* No lost wakeup: messages wait in the outbox only while the actor is     *)
(* writing, or the WebSocket has said it has room, or will say so because  *)
(* its buffer is over the limit; or the WebSocket is closing.              *)
(***************************************************************************)
NoLostWakeup ==
    \A p \in Peers :
        outbox[p] # <<>> =>
            \/ writing[p]
            \/ \E i \in DOMAIN mailbox[p] : mailbox[p][i].ev = "onWebSocketWriteable"
            \/ buffered[p] > SendBuffer
            \/ closeSent[p] \/ socket[p] # "open"

(***************************************************************************)
(* A frozen message is never abandoned: while both WebSockets are open,    *)
(* frames of it, or an ACK of it, are still on their way.                  *)
(***************************************************************************)
Connected == \A p \in Peers : socket[p] = "open" /\ ~closeSent[p]

\* Frames on their way from p to the actor at the other end.
InFlight(p) ==
    ToSet(wire[p]) \union ToSet(incoming[Other(p)]) \union ToSet(batch[Other(p)])

\* Messages the actor p has yet to put on the wire.
Unsent(p) ==
    ToSet(outbox[p]) \union
        {e.msg : e \in {e \in ToSet(mailbox[p]) : e.ev = "queueMessage"}}

AckTypeOf(m) == IF m.type = "REQ" THEN "ACKREQ" ELSE "ACKRES"

FrozenHasCredit ==
    Connected =>
        \A p \in Peers : \A m \in ToSet(icebox[p]) :
            \/ \E f \in InFlight(p) : f.type = m.type /\ f.number = m.number
            \/ \E f \in InFlight(Other(p)) \union Unsent(Other(p)) :
                  f.type = AckTypeOf(m) /\ f.number = m.number

(***************************************************************************)
(* Every request that wants a reply ends: with the reply, or by being told *)
(* that the connection is gone.                                            *)
(***************************************************************************)
EveryRequestEnds ==
    \A p \in Peers : \A id \in 1..MaxRequests[p] :
        (id \in DOMAIN progress[p] /\ ~progress[p][id].noReply)
            ~> (id \in DOMAIN progress[p] /\ progress[p][id].ends # <<>>)
==============================================================================
