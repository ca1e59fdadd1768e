----------------------------- MODULE FlowControl -----------------------------
(***************************************************************************)
(* Per-message flow control: what the sender of one BLIP message (a        *)
(* MessageOut) and its receiver (a MessageIn) promise each other, with     *)
(* everything else on the connection left out.  The sender freezes the     *)
(* message once kMaxUnackedBytes are unacknowledged; the receiver sends an *)
(* ACK, carrying its running total, every kIncomingAckThreshold bytes.     *)
(*                                                                         *)
(* The module is the abstract specification that BLIPIO implements for     *)
(* each message: `frames' stands for every frame between the two objects   *)
(* and `acks' for every ACK, wherever it is queued on its way back.        *)
(***************************************************************************)
EXTENDS Integers, Sequences

CONSTANTS
    MaxUnacked,     \* kMaxUnackedBytes     (MessageOut.hh)
    AckThreshold,   \* kIncomingAckThreshold (Message.cc)
    MaxFrame,       \* kBigFrameSize        (BLIPConnection.cc)
    MaxMessage,     \* bound: the longest message sent, in wire bytes
    Modulus         \* 2^32: the width of the sender's counters and of an ACK

ASSUME SizesAssumption ==
    /\ MaxUnacked \in Nat \ {0}
    /\ AckThreshold \in Nat \ {0}
    /\ MaxFrame \in Nat \ {0}
    /\ MaxMessage \in Nat \ {0}
    /\ Modulus \in Nat \ {0}

\* 50000 <= 128000: without it the sender could freeze before an ACK is due.
ASSUME ThresholdAssumption == AckThreshold <= MaxUnacked

ASSUME FrameAssumption == MaxFrame < Modulus

VARIABLES
    left,             \* bytes of the message not yet put in a frame
    place,            \* the queue of the sender that holds the message
    bytesSent,        \* MessageOut::_bytesSent, uint32_t
    unackedBytes,     \* MessageOut::_unackedBytes, uint32_t
    frames,           \* bytes of this message on their way to the receiver
    rawBytesReceived, \* MessageIn::_rawBytesReceived, uint64_t
    recvUnacked,      \* MessageIn::_unackedBytes
    acks              \* the byte counts of the ACKs on their way back

vars == <<left, place, bytesSent, unackedBytes, frames, rawBytesReceived,
          recvUnacked, acks>>

Places == {"outbox", "icebox", "done"}

TypeOK ==
    /\ left \in 0..MaxMessage
    /\ place \in Places
    /\ bytesSent \in 0..Modulus-1
    /\ unackedBytes \in 0..Modulus-1
    /\ frames \in 0..MaxMessage
    /\ rawBytesReceived \in 0..MaxMessage
    /\ recvUnacked \in 0..AckThreshold-1
    /\ acks \in Seq(0..MaxMessage)
------------------------------------------------------------------------------
\* The smaller of two byte counts.
MinOf(a, b) == IF a <= b THEN a ELSE b

\* uint32_t addition: both operands are below the modulus.
Add32(a, b) == IF a + b < Modulus THEN a + b ELSE a + b - Modulus

\* MessageOut::needsAck
needsAck(unacked) == unacked >= MaxUnacked

\* A message is built with everything still to send.
Init ==
    /\ left \in 1..MaxMessage
    /\ place = "outbox"
    /\ bytesSent = 0
    /\ unackedBytes = 0
    /\ frames = 0
    /\ rawBytesReceived = 0
    /\ recvUnacked = 0
    /\ acks = <<>>
------------------------------------------------------------------------------
\* Mutants, each the way a slip in the code would change one definition.
SendFrame_NeedsAckReadBeforeCounting(size) ==
    /\ place = "outbox"
    /\ size <= left
    /\ left' = left - size
    /\ bytesSent' = Add32(bytesSent, size)
    /\ unackedBytes' = Add32(unackedBytes, size)
    /\ frames' = frames + size
    /\ place' = IF left' = 0 THEN "done"
                ELSE IF needsAck(unackedBytes) THEN "icebox" ELSE "outbox"
    /\ UNCHANGED <<rawBytesReceived, recvUnacked, acks>>

acknowledge_CountsSinceLastAck(size) ==
    IF recvUnacked + size >= AckThreshold
    THEN /\ acks' = Append(acks, recvUnacked + size)
         /\ recvUnacked' = 0
    ELSE /\ recvUnacked' = recvUnacked + size
         /\ UNCHANGED acks

ReceivedAck_NeverThaws ==
    /\ acks # <<>>
    /\ acks' = Tail(acks)
    /\ unackedBytes' = IF place # "done" /\ Head(acks) <= bytesSent
                       THEN MinOf(unackedBytes, bytesSent - Head(acks))
                       ELSE unackedBytes
    /\ UNCHANGED <<left, place, bytesSent, frames, rawBytesReceived, recvUnacked>>
------------------------------------------------------------------------------
(***************************************************************************)
(* nextFrameToSend writes a frame of `size' bytes and counts it; then      *)
(* writeToWebSocket freezes the message, requeues it or is done with it.   *)
(***************************************************************************)
SendFrame(size) ==
    /\ place = "outbox"
    /\ size <= left
    /\ left' = left - size
    /\ bytesSent' = Add32(bytesSent, size)
    /\ unackedBytes' = Add32(unackedBytes, size)
    /\ frames' = frames + size
    /\ place' = IF left' = 0 THEN "done"
                ELSE IF needsAck(unackedBytes') THEN "icebox" ELSE "outbox"
    /\ UNCHANGED <<rawBytesReceived, recvUnacked, acks>>

\* MessageIn::acknowledge: counts the frame and answers at the threshold.
acknowledge(size) ==
    IF recvUnacked + size >= AckThreshold
    THEN /\ acks' = Append(acks, rawBytesReceived')
         /\ recvUnacked' = 0
    ELSE /\ recvUnacked' = recvUnacked + size
         /\ UNCHANGED acks

\* MessageIn::receivedFrame, as far as its byte counts go.
ReceiveFrame(size) ==
    /\ size <= frames
    /\ frames' = frames - size
    /\ rawBytesReceived' = rawBytesReceived + size
    /\ acknowledge(size)
    /\ UNCHANGED <<left, place, bytesSent, unackedBytes>>

\* MessageOut::receivedAck: the new value of _unackedBytes.
ackedBytes(count) ==
    IF count <= bytesSent THEN MinOf(unackedBytes, bytesSent - count)
                          ELSE unackedBytes

(***************************************************************************)
(* BLIPIO::receivedAck: an ACK of a message in neither queue is ignored,   *)
(* so is one whose count does not parse as 32 bits; any other updates the  *)
(* message and thaws it if it was frozen.                                  *)
(***************************************************************************)
ReceivedAck ==
    /\ acks # <<>>
    /\ acks' = Tail(acks)
    /\ IF place # "done" /\ Head(acks) < Modulus
       THEN /\ unackedBytes' = ackedBytes(Head(acks))
            /\ place' = IF needsAck(unackedBytes') THEN place ELSE "outbox"
       ELSE UNCHANGED <<unackedBytes, place>>
    /\ UNCHANGED <<left, bytesSent, frames, rawBytesReceived, recvUnacked>>

Next ==
    \/ \E size \in 1..MaxFrame : SendFrame(size)
    \/ \E size \in 1..MaxFrame : ReceiveFrame(size)
    \/ ReceivedAck

Spec == Init /\ [][Next]_vars

(***************************************************************************)
(* Fairness: each actor keeps running its mailbox, and an open WebSocket   *)
(* keeps delivering (the transport BLIP requires is reliable).             *)
(***************************************************************************)
Fairness ==
    /\ WF_vars(\E size \in 1..MaxFrame : SendFrame(size))
    /\ WF_vars(\E size \in 1..MaxFrame : ReceiveFrame(size))
    /\ WF_vars(ReceivedAck)

FairSpec == Spec /\ Fairness
------------------------------------------------------------------------------
(***************************************************************************)
(* A frozen message is never abandoned: whenever it sits in the icebox,    *)
(* bytes that will bring an ACK, or an ACK, are still on their way.  The   *)
(* sender relies on this: nothing but receivedAck takes a message out of   *)
(* the icebox, and no timeout does.                                        *)
(***************************************************************************)
FrozenHasCredit == place = "icebox" => (frames > 0 \/ acks # <<>>)

(***************************************************************************)
(* The receiver never has to buffer more than the window and one frame     *)
(* beyond it, which is what flow control is for (needsAck is only tested   *)
(* after a whole frame has been sent).                                     *)
(***************************************************************************)
WindowBounded == frames < MaxUnacked + MaxFrame

(***************************************************************************)
(* _unackedBytes never underestimates what the receiver has not seen: an   *)
(* ACK, however late it is applied, gives no more credit than the receiver *)
(* granted.                                                                *)
(***************************************************************************)
CreditIsSound == place # "done" => frames <= unackedBytes

(***************************************************************************)
(* Every message is eventually sent in full and received in full: freezing *)
(* never becomes permanent.                                                *)
(***************************************************************************)
Delivered == <>(left = 0 /\ place = "done" /\ frames = 0)
------------------------------------------------------------------------------
(***************************************************************************)
(* The inductive invariant, for messages whose length fits the counters.   *)
(* bytesSent - unackedBytes is the highest count the sender has applied;   *)
(* the counts under way continue it upwards, and the last of them is what  *)
(* the receiver has acknowledged so far.                                   *)
(***************************************************************************)
FitsCounter == MaxMessage < Modulus

\* No byte is lost or counted twice.
BytesConserved ==
    /\ bytesSent = frames + rawBytesReceived
    /\ bytesSent + left <= MaxMessage

\* The highest count the sender has applied.
Applied == bytesSent - unackedBytes

AcksInOrder ==
    /\ \A i \in 1..Len(acks) : Applied < acks[i] /\ acks[i] <= rawBytesReceived
    /\ \A i, j \in 1..Len(acks) : i < j => acks[i] < acks[j]

AcksAreCurrent ==
    IF acks = <<>> THEN Applied = rawBytesReceived - recvUnacked
                   ELSE acks[Len(acks)] = rawBytesReceived - recvUnacked

FreezeState ==
    /\ place = "icebox" => needsAck(unackedBytes)
    /\ place = "outbox" => ~needsAck(unackedBytes)

\* Once the message is done its counters are no longer maintained.
FlowInv ==
    /\ BytesConserved
    /\ unackedBytes <= bytesSent
    /\ unackedBytes < MaxUnacked + MaxFrame
    /\ place # "done" => AcksInOrder /\ AcksAreCurrent /\ FreezeState
    /\ frames <= unackedBytes

FlowIInv == TypeOK /\ FlowInv
==============================================================================
