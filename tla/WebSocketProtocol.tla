-------------------------- MODULE WebSocketProtocol --------------------------
(***************************************************************************)
(* WebSocket frames as bytes: formatMessage on one side, and on the other  *)
(* WebSocketProtocol::consume, which sees the bytes in pieces cut anywhere *)
(* and calls WebSocketImpl::handleFragment.  One onReceive is several      *)
(* steps here, one per round of a loop; nothing else runs meanwhile, since *)
(* it holds the mutex.                                                     *)
(*                                                                         *)
(* A byte is <<f, k>>: byte k of frame f.  It stands for the value that    *)
(* formatMessage wrote there: the header's fields, the mask, or a byte of  *)
(* the payload, masked.  Frames are not fragmented: formatMessage never    *)
(* does that, and WebSocketImpl takes a message to be one frame.           *)
(***************************************************************************)
EXTENDS Integers, SequencesExt, FiniteSetsExt

CONSTANTS
    ShortMax,      \* the longest payload with a short header (125)
    MediumMax,     \* the longest payload with a medium header (65535)
    MaxLength,     \* kMaxMessageLength
    Lengths,       \* bound: lengths of payloads
    Opcodes,       \* bound: kinds of frames; "bad" has reserved bits set
    NumFrames      \* bound: how many frames are sent

ASSUME WebSocketProtocolAssumption ==
    /\ ShortMax \in Nat /\ MediumMax \in Nat /\ ShortMax < MediumMax
    /\ MaxLength \in Nat /\ NumFrames \in Nat
    /\ Lengths \subseteq Nat
    /\ Opcodes \subseteq {"BINARY", "PING", "bad"}

VARIABLES
    isServer,     \* the role of the receiver: clients mask what they send
    frames,       \* the frames sent: opcode and length of the payload
    stream,       \* their bytes that have not been received yet
    \* WebSocketProtocol
    state,        \* READ_HEAD or READ_MESSAGE
    spill,        \* the beginning of a header, kept for the next time
    opStack,      \* how many messages are open, less one
    opCode,       \* opCode[0], of the message that is open
    remaining,    \* remainingBytes
    mask,         \* mask, which unmasks the next bytes of the payload
    pc,           \* where consume is
    buf,          \* the bytes _consume works on
    rest,         \* the bytes consume has still to give it
    \* WebSocketImpl
    curMessage,   \* _curMessage: its size, and the bytes so far
    deliveredBytes,   \* _deliveredBytes
    prevLength,       \* prevMessageLength, in onReceive
    chunkSize,        \* data.size, in onReceive
    protocolError,    \* _protocolError
    delivered,    \* the messages given to the delegate
    completed     \* the sum of onReceive's receiveComplete calls

parser == <<state, spill, opStack, opCode, remaining, mask>>
impl   == <<curMessage, deliveredBytes, protocolError, delivered>>
call   == <<prevLength, chunkSize, completed>>
vars   == <<isServer, frames, stream, parser, pc, buf, rest, impl, call>>
------------------------------------------------------------------------------
(***************************************************************************)
(* The format.                                                             *)
(***************************************************************************)
SHORT_MESSAGE_HEADER == IF isServer THEN 6 ELSE 2
MEDIUM_MESSAGE_HEADER == IF isServer THEN 8 ELSE 4
LONG_MESSAGE_HEADER == IF isServer THEN 14 ELSE 10

HeaderLength(length) ==
    CASE length <= ShortMax -> SHORT_MESSAGE_HEADER
      [] length > ShortMax /\ length <= MediumMax -> MEDIUM_MESSAGE_HEADER
      [] OTHER -> LONG_MESSAGE_HEADER

formatMessage(f) == [k \in 1..(HeaderLength(frames[f].length) + frames[f].length) |-> <<f, k>>]

\* Which byte of the mask a byte of the stream is, if it is one: those at the
\* end of the header ...
MaskByte(byte) == <<byte[1], byte[2] - (HeaderLength(frames[byte[1]].length) - 3)>>

\* ... and which one it was masked with, when it is part of the payload.
MaskedWith(byte) == <<byte[1], (byte[2] - HeaderLength(frames[byte[1]].length) - 1) % 4>>

\* The header that starts with this byte; nothing valid, if none does.
FrameAt(byte) == IF byte[2] = 1 THEN frames[byte[1]] ELSE [op |-> "bad", length |-> 0]

Garbage == <<<<0, 0>>>>

NoMask == [j \in 0..3 |-> <<0, j>>]

RotateMask_OtherWay(n, m) == [j \in 0..3 |-> m[(j + 3 * n) % 4]]

\* rotateMask(4 - n % 4): mask[(j + offset) % 4] = originalMask[j].
RotateMask(n, m) == [j \in 0..3 |-> m[(j + n) % 4]]

\* Unmasking puts a byte right if the mask's byte is the one it was masked with.
Unmask(bytes, m) ==
    [k \in 1..Len(bytes) |->
        IF ~isServer \/ m[(k - 1) % 4] = MaskedWith(bytes[k]) THEN bytes[k] ELSE <<0, 0>>]

NoMessage == [size |-> -1, bytes |-> <<>>, op |-> "none"]

Init ==
    /\ isServer \in BOOLEAN
    /\ frames \in [1..NumFrames -> [op : Opcodes, length : Lengths]]
    /\ stream = FlattenSeq([f \in 1..NumFrames |-> formatMessage(f)])
    /\ state = "READ_HEAD" /\ spill = <<>> /\ opStack = -1 /\ opCode = "none"
    /\ remaining = 0 /\ mask = NoMask
    /\ pc = "idle" /\ buf = <<>> /\ rest = <<>>
    /\ curMessage = NoMessage /\ deliveredBytes = 0 /\ protocolError = FALSE /\ delivered = <<>>
    /\ prevLength = 0 /\ chunkSize = 0 /\ completed = 0
------------------------------------------------------------------------------
(***************************************************************************)
(* WebSocketImpl.                                                          *)
(***************************************************************************)

\* onReceive is called with the next n bytes.
OnReceive(n) ==
    /\ pc = "idle" /\ ~protocolError
    /\ rest' = SubSeq(stream, 1, n)
    /\ stream' = SubSeq(stream, n + 1, Len(stream))
    /\ chunkSize' = n
    /\ prevLength' = Len(curMessage.bytes)
    /\ deliveredBytes' = 0
    /\ pc' = "consume"
    /\ UNCHANGED <<isServer, frames, parser, buf, curMessage, protocolError, delivered, completed>>

\* handleFragment and receivedMessage: the message grows and, at its end, is
\* delivered; a control message is handled elsewhere.
handleFragment(data, missing, op) ==
    LET whole == IF curMessage = NoMessage
                 THEN [size |-> Len(data) + missing, bytes |-> data, op |-> op]
                 ELSE [curMessage EXCEPT !.bytes = @ \o data]
    IN  /\ UNCHANGED protocolError
        /\ IF missing > 0
           THEN /\ curMessage' = whole
                /\ UNCHANGED <<deliveredBytes, delivered>>
           ELSE /\ curMessage' = NoMessage
                /\ IF whole.op = "BINARY"
                   THEN /\ delivered' = Append(delivered, whole.bytes)
                        /\ deliveredBytes' = deliveredBytes + Len(whole.bytes)
                   ELSE UNCHANGED <<delivered, deliveredBytes>>

CompletedBytes_NoPartial == chunkSize - Len(curMessage.bytes) - deliveredBytes

CompletedBytes == chunkSize + prevLength - Len(curMessage.bytes) - deliveredBytes

\* The end of onReceive.  What is delivered is returned when it is destroyed.
ReceiveDone ==
    /\ pc = "done"
    /\ completed' = completed + (IF CompletedBytes > 0 THEN CompletedBytes ELSE 0)
    /\ pc' = "idle"
    /\ UNCHANGED <<isServer, frames, stream, parser, buf, rest, impl, prevLength, chunkSize>>
------------------------------------------------------------------------------
(***************************************************************************)
(* consume: the rounds of its loop.                                        *)
(***************************************************************************)
\* _consume returns: to the loop of consume, which returns when all is used.
Return == pc' = (IF rest = <<>> THEN "done" ELSE "consume") /\ buf' = <<>>

\* A header that was cut is completed in a buffer of its own.
Refill == Min({Len(spill) + Len(rest), LONG_MESSAGE_HEADER})

consume ==
    /\ pc = "consume" /\ ~protocolError
    /\ IF spill # <<>>
       THEN LET used == Refill - Len(spill) IN
            /\ buf' = spill \o SubSeq(rest, 1, used)
            /\ rest' = SubSeq(rest, used + 1, Len(rest))
       ELSE /\ buf' = rest
            /\ rest' = <<>>
    /\ spill' = <<>>
    /\ pc' = IF state = "READ_HEAD" THEN "head" ELSE "continuation"
    /\ UNCHANGED <<isServer, frames, stream, state, opStack, opCode, remaining, mask, impl, call>>

\* A header that is invalid by itself, its reserved bits set for example; control
\* frames must be short.
BadHeader(frame) == frame.op = "bad" \/ (frame.op = "PING" /\ frame.length > ShortMax)

\* forceClose and WebSocketImpl::protocolError: the bytes in the buffer are
\* dropped.  The socket is closed, so that onReceive is not called again.
forceClose ==
    /\ protocolError' = TRUE
    /\ Return
    /\ UNCHANGED <<curMessage, deliveredBytes, delivered>>

\* But consume goes on with the bytes that were not in the buffer: the parser has
\* lost its place, and may take any of them for messages.
consumeAfterError ==
    /\ pc = "consume" /\ protocolError
    /\ \E n \in 0..(Len(rest) \div SHORT_MESSAGE_HEADER) :
            delivered' = delivered \o [i \in 1..n |-> Garbage]
    /\ rest' = <<>>
    /\ pc' = "done"
    /\ UNCHANGED <<isServer, frames, stream, parser, buf, curMessage, deliveredBytes,
                   protocolError, call>>

Frame == FrameAt(buf[1])

\* Is the header complete?  Its first bytes say how long it is.
HeaderRead ==
    /\ Len(buf) >= SHORT_MESSAGE_HEADER
    /\ BadHeader(Frame) \/ Len(buf) >= HeaderLength(Frame.length)

SpillHeader ==
    /\ pc = "head" /\ ~HeaderRead
    /\ spill' = buf
    /\ Return
    /\ UNCHANGED <<isServer, frames, stream, state, opStack, opCode, remaining, mask, rest, impl,
                   call>>

\* The mask in the header at the start of the buffer.
HeaderMask == LET h == HeaderLength(Frame.length)
              IN  IF isServer THEN [j \in 0..3 |-> MaskByte(buf[h - 3 + j])] ELSE NoMask

\* Neither the header nor opStack nor refusePayloadLength forbids the message.
Accepts == ~BadHeader(Frame) /\ opStack < 1 /\ Frame.length <= MaxLength

BadFrame ==
    /\ pc = "head" /\ HeaderRead /\ ~Accepts
    /\ forceClose
    /\ IF BadHeader(Frame) \/ opStack = 1
       THEN UNCHANGED <<opStack, opCode>>
       ELSE opStack' = opStack + 1 /\ opCode' = Frame.op
    /\ UNCHANGED <<isServer, frames, stream, state, spill, remaining, mask, rest, call>>

\* consumeMessage, of a frame that is in the buffer to its end ...
WholeMessage ==
    LET h == HeaderLength(Frame.length)
        end == h + Frame.length
    IN  /\ pc = "head" /\ HeaderRead /\ Accepts
        /\ end <= Len(buf)
        /\ handleFragment(Unmask(SubSeq(buf, h + 1, end), HeaderMask), 0, Frame.op)
        /\ opCode' = Frame.op
        /\ buf' = SubSeq(buf, end + 1, Len(buf))
        /\ UNCHANGED <<isServer, frames, stream, state, spill, opStack, remaining, mask, pc, rest, call>>

remainingBytes == Frame.length + HeaderLength(Frame.length) - Len(buf)

\* ... and of one that is not.
PartialMessage ==
    LET h == HeaderLength(Frame.length)
        n == Len(buf) - h
    IN  /\ pc = "head" /\ HeaderRead /\ Accepts
        /\ n < Frame.length
        /\ handleFragment(Unmask(SubSeq(buf, h + 1, Len(buf)), HeaderMask), remainingBytes, Frame.op)
        /\ state' = "READ_MESSAGE"
        /\ remaining' = remainingBytes
        /\ mask' = RotateMask(n, HeaderMask)
        /\ opStack' = opStack + 1 /\ opCode' = Frame.op
        /\ Return
        /\ UNCHANGED <<isServer, frames, stream, spill, rest, call>>

EndsMessage == remaining <= Len(buf)

\* consumeContinuation: the end of the payload is in the buffer ...
LastContinuation ==
    /\ pc = "continuation" /\ EndsMessage
    /\ handleFragment(Unmask(SubSeq(buf, 1, remaining), mask), 0, opCode)
    /\ buf' = SubSeq(buf, remaining + 1, Len(buf))
    /\ opStack' = opStack - 1
    /\ state' = "READ_HEAD"
    /\ pc' = "head"
    /\ UNCHANGED <<isServer, frames, stream, spill, opCode, remaining, mask, rest, call>>

\* ... or it is not.
MoreContinuation ==
    /\ pc = "continuation" /\ ~EndsMessage
    /\ handleFragment(Unmask(buf, mask), remaining - Len(buf), opCode)
    /\ remaining' = remaining - Len(buf)
    /\ mask' = RotateMask(Len(buf), mask)
    /\ Return
    /\ UNCHANGED <<isServer, frames, stream, state, spill, opStack, opCode, rest, call>>

Next ==
    \/ \E n \in 1..Len(stream) : OnReceive(n)
    \/ ReceiveDone
    \/ consume \/ consumeAfterError
    \/ SpillHeader \/ BadFrame \/ WholeMessage \/ PartialMessage
    \/ LastContinuation \/ MoreContinuation

Spec == Init /\ [][Next]_vars
------------------------------------------------------------------------------
Length(f) == Len(formatMessage(f))
Sum(S) == MapThenSumSet(Length, S)
Received == Sum(1..NumFrames) - Len(stream)

TypeOK ==
    /\ isServer \in BOOLEAN
    /\ state \in {"READ_HEAD", "READ_MESSAGE"}
    /\ opStack \in -1..1
    /\ opCode \in Opcodes \cup {"none"}
    /\ remaining \in Nat
    /\ Len(spill) < LONG_MESSAGE_HEADER       \* the size of the array
    /\ pc \in {"idle", "consume", "head", "continuation", "done"}
    /\ protocolError \in BOOLEAN
    /\ completed \in Nat

\* The frames that have been received to the end.
Complete == {f \in 1..NumFrames : Sum(1..f) <= Received}

\* The payload of a frame, put right.
Payload(f) == LET h == HeaderLength(frames[f].length)
              IN  [k \in 1..frames[f].length |-> <<f, h + k>>]

Acceptable(f) == ~BadHeader(frames[f]) /\ frames[f].length <= MaxLength

(***************************************************************************)
(* However the stream is cut into pieces, inside headers and masks too,    *)
(* the messages delivered are exactly the binary ones that have arrived to *)
(* the end, in order, with every byte unmasked by its own byte of the      *)
(* mask; up to the first frame that is refused, after which anything may   *)
(* follow.  And the connection is given up for a frame that is bad or too  *)
(* long, and for no other: the parser never loses its place.               *)
(***************************************************************************)
DeliveredIntact ==
    LET good == {f \in Complete : frames[f].op = "BINARY" /\ \A g \in 1..f : Acceptable(g)}
        inOrder == SetToSortSeq(good, <)
        expected == [i \in 1..Len(inOrder) |-> Payload(inOrder[i])]
    IN  /\ pc = "idle" =>
               IF protocolError THEN IsPrefix(expected, delivered) ELSE delivered = expected
        /\ protocolError =>
               \E f \in 1..NumFrames : ~Acceptable(f) /\ Sum(1..(f - 1)) < Received

(***************************************************************************)
(* "Compute # of bytes consumed: just the framing data, not any partial or *)
(* delivered messages. (Trust me, the math works.)" (WebSocketImpl.cc:208):*)
(* between calls every byte received has been reported to receiveComplete, *)
(* or is in a delivered message, which reports it when it is destroyed, or *)
(* in the partial message.  So flow control by the socket never stalls.    *)
(***************************************************************************)
BytesReturned ==
    (pc = "idle" /\ ~protocolError) =>
        completed + Len(FlattenSeq(delivered)) + Len(curMessage.bytes) = Received
==============================================================================
