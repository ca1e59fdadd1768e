------------------------- MODULE FlowControl_proofs -------------------------
(***************************************************************************)
(* Proofs about FlowControl, for every window, threshold and frame size    *)
(* (with the threshold at most the window) and every message length that   *)
(* fits the sender's counters.                                             *)
(***************************************************************************)
EXTENDS FlowControl, SequenceTheorems, TLAPS

(***************************************************************************)
(* Appending to the ACKs under way leaves the earlier ones in place.       *)
(***************************************************************************)
LEMMA AppendedAck ==
    ASSUME NEW S, NEW s \in Seq(S), NEW x \in S
    PROVE  /\ Append(s, x) \in Seq(S)
           /\ Append(s, x) # <<>>
           /\ Len(Append(s, x)) = Len(s) + 1
           /\ Append(s, x)[Len(s) + 1] = x
           /\ \A i \in 1..Len(s) : Append(s, x)[i] = s[i]
    OBVIOUS

(***************************************************************************)
(* Applying the first ACK leaves the rest, one place further forward.      *)
(***************************************************************************)
LEMMA RemainingAcks ==
    ASSUME NEW S, NEW s \in Seq(S), s # <<>>
    PROVE  /\ Head(s) = s[1] /\ Head(s) \in S
           /\ Len(s) \in Nat /\ Len(s) >= 1
           /\ Tail(s) \in Seq(S)
           /\ Len(Tail(s)) = Len(s) - 1
           /\ \A i \in 1..Len(s) - 1 : Tail(s)[i] = s[i + 1]
           /\ Tail(s) = <<>> <=> Len(s) = 1
    <1>1. Len(s) \in Nat /\ Len(s) >= 1
      BY EmptySeq, LenProperties
    <1>2. /\ Head(s) = s[1] /\ Head(s) \in S
          /\ Tail(s) \in Seq(S)
          /\ Len(Tail(s)) = Len(s) - 1
          /\ \A i \in 1..Len(s) - 1 : Tail(s)[i] = s[i + 1]
      BY <1>1
    <1>3. Tail(s) = <<>> <=> Len(Tail(s)) = 0
      BY <1>2, EmptySeq
    <1> QED
      BY <1>1, <1>2, <1>3

-----------------------------------------------------------------------------
(***************************************************************************)
(* The initial states satisfy the inductive invariant.                     *)
(***************************************************************************)
LEMMA FlowInit ==
    ASSUME FitsCounter, Init
    PROVE  FlowIInv
    <1> USE SizesAssumption, ThresholdAssumption, FrameAssumption
    <1>1. TypeOK
      BY DEF Init, TypeOK, Places, FitsCounter
    <1>2. FlowInv
      BY DEF Init, FlowInv, BytesConserved, Applied, AcksInOrder,
             AcksAreCurrent, FreezeState, needsAck, FitsCounter
    <1> QED  BY <1>1, <1>2 DEF FlowIInv

(***************************************************************************)
(* Sending a frame: the counters do not wrap, and the message is frozen    *)
(* exactly when the window is used up.                                     *)
(***************************************************************************)
LEMMA FlowSendFrame ==
    ASSUME FitsCounter, FlowIInv, NEW size \in 1..MaxFrame, SendFrame(size)
    PROVE  FlowIInv'
    <1> USE SizesAssumption, ThresholdAssumption, FrameAssumption
    <1>t. TypeOK /\ FlowInv
      BY DEF FlowIInv
    <1>1. /\ bytesSent' = bytesSent + size
          /\ unackedBytes' = unackedBytes + size
          /\ frames' = frames + size
          /\ left' = left - size
          /\ size <= left
      BY <1>t DEF SendFrame, Add32, TypeOK, FlowInv, BytesConserved, FitsCounter
    <1>2. UNCHANGED <<rawBytesReceived, recvUnacked, acks>>
      BY DEF SendFrame
    <1>3. BytesConserved'
      BY <1>t, <1>1, <1>2 DEF TypeOK, FlowInv, BytesConserved
    <1>4. place' \in Places /\ FreezeState'
      BY <1>t, <1>1 DEF SendFrame, FreezeState, needsAck, Places, TypeOK
    <1>5. Applied' = Applied
      BY <1>t, <1>1 DEF Applied, TypeOK
    <1>6. place' # "done" => AcksInOrder' /\ AcksAreCurrent'
      <2>1. AcksInOrder /\ AcksAreCurrent
        BY <1>t DEF SendFrame, FlowInv
      <2> QED
        BY <2>1, <1>2, <1>5 DEF AcksInOrder, AcksAreCurrent
    <1>7. unackedBytes < MaxUnacked
      BY <1>t DEF SendFrame, FlowInv, FreezeState, needsAck, TypeOK
    <1>8. TypeOK'
      BY <1>t, <1>1, <1>2, <1>3, <1>4
      DEF TypeOK, FlowInv, BytesConserved, FitsCounter
    <1>9. /\ unackedBytes' <= bytesSent'
          /\ unackedBytes' < MaxUnacked + MaxFrame
          /\ frames' <= unackedBytes'
      BY <1>t, <1>1, <1>7 DEF TypeOK, FlowInv
    <1> QED
      BY <1>3, <1>4, <1>6, <1>8, <1>9 DEF FlowIInv, FlowInv

(***************************************************************************)
(* Receiving a frame: an ACK that is sent has the highest count of all.    *)
(***************************************************************************)
LEMMA FlowReceiveFrame ==
    ASSUME FitsCounter, FlowIInv, NEW size \in 1..MaxFrame, ReceiveFrame(size)
    PROVE  FlowIInv'
    <1> USE SizesAssumption, ThresholdAssumption, FrameAssumption
    <1>t. TypeOK /\ FlowInv
      BY DEF FlowIInv
    <1>1. /\ frames' = frames - size
          /\ size <= frames
          /\ rawBytesReceived' = rawBytesReceived + size
          /\ UNCHANGED <<left, place, bytesSent, unackedBytes>>
      BY DEF ReceiveFrame
    <1>2. BytesConserved'
      BY <1>t, <1>1 DEF TypeOK, FlowInv, BytesConserved
    <1>3. rawBytesReceived' \in 0..MaxMessage
      BY <1>t, <1>1, <1>2 DEF TypeOK, BytesConserved
    <1>4. FreezeState <=> FreezeState'
      BY <1>1 DEF FreezeState
    <1>5. Applied' = Applied
      BY <1>1 DEF Applied
    <1>6. /\ unackedBytes' <= bytesSent'
          /\ unackedBytes' < MaxUnacked + MaxFrame
          /\ frames' <= unackedBytes'
      BY <1>t, <1>1 DEF TypeOK, FlowInv
    <1>7. CASE recvUnacked + size >= AckThreshold
      <2>1. acks' = Append(acks, rawBytesReceived') /\ recvUnacked' = 0
        BY <1>7 DEF ReceiveFrame, acknowledge
      <2>2. /\ acks' \in Seq(0..MaxMessage)
            /\ acks' # <<>>
            /\ Len(acks) \in Nat
            /\ Len(acks') = Len(acks) + 1
            /\ acks'[Len(acks) + 1] = rawBytesReceived'
            /\ \A i \in 1..Len(acks) : acks'[i] = acks[i]
        BY <2>1, <1>3, <1>t, AppendedAck, LenProperties DEF TypeOK
      <2>3. TypeOK'
        BY <2>1, <2>2, <1>t, <1>1, <1>3 DEF TypeOK
      <2>4. place # "done" => AcksInOrder'
        <3> SUFFICES ASSUME place # "done"
                     PROVE  AcksInOrder'
          OBVIOUS
        <3>1. AcksInOrder
          BY <1>t DEF FlowInv
        <3>2. Applied \in Int /\ Applied <= rawBytesReceived
          BY <1>t DEF TypeOK, FlowInv, BytesConserved, Applied
        <3>3. \A i \in 1..Len(acks) : acks[i] \in Nat
          BY <1>t DEF TypeOK
        <3>4. \A i \in 1..Len(acks') : i \in 1..Len(acks) \/ i = Len(acks) + 1
          BY <2>2
        <3>5. rawBytesReceived \in Nat /\ rawBytesReceived < rawBytesReceived'
          BY <1>1, <1>t DEF TypeOK
        <3>6. \A i \in 1..Len(acks) : Applied < acks[i] /\ acks[i] <= rawBytesReceived
          BY <3>1 DEF AcksInOrder
        <3>7. \A i \in 1..Len(acks') :
                 Applied' < acks'[i] /\ acks'[i] <= rawBytesReceived'
          <4> SUFFICES ASSUME NEW i \in 1..Len(acks')
                       PROVE  Applied < acks'[i] /\ acks'[i] <= rawBytesReceived'
            BY <1>5
          <4>1. CASE i \in 1..Len(acks)
            BY <4>1, <3>3, <3>5, <3>6, <2>2, <1>3
          <4>2. CASE i = Len(acks) + 1
            BY <4>2, <3>2, <3>5, <2>2, <1>3
          <4> QED  BY <4>1, <4>2, <3>4
        <3>8. \A i, j \in 1..Len(acks') : i < j => acks'[i] < acks'[j]
          <4> SUFFICES ASSUME NEW i \in 1..Len(acks'), NEW j \in 1..Len(acks'),
                              i < j
                       PROVE  acks'[i] < acks'[j]
            OBVIOUS
          <4>0. i \in 1..Len(acks) /\ acks'[i] = acks[i]
            BY <2>2, <3>4
          <4>1. CASE j \in 1..Len(acks)
            BY <4>0, <4>1, <3>1, <2>2 DEF AcksInOrder
          <4>2. CASE j = Len(acks) + 1
            BY <4>0, <4>2, <3>3, <3>5, <3>6, <2>2, <1>3
          <4> QED  BY <4>1, <4>2, <3>4
        <3> QED  BY <3>7, <3>8 DEF AcksInOrder
      <2>5. AcksAreCurrent'
        <3>1. acks'[Len(acks')] = rawBytesReceived'
          BY <2>2
        <3>2. rawBytesReceived' \in Int /\ recvUnacked' = 0
          <4>1. recvUnacked' = 0
            BY <2>1
          <4>2. rawBytesReceived' \in Int
            BY <1>3
          <4> QED  BY <4>1, <4>2
        <3>3. \A n \in Int : n - 0 = n
          OBVIOUS
        <3>4. rawBytesReceived' - recvUnacked' = rawBytesReceived'
          BY <3>2, <3>3, Zenon
        <3> QED  BY <3>1, <3>4, <2>2 DEF AcksAreCurrent
      <2> QED
        BY <2>3, <2>4, <2>5, <1>1, <1>2, <1>4, <1>6, <1>t DEF FlowIInv, FlowInv
    <1>8. CASE ~(recvUnacked + size >= AckThreshold)
      <2>1. acks' = acks /\ recvUnacked' = recvUnacked + size
        BY <1>8 DEF ReceiveFrame, acknowledge
      <2>2. TypeOK'
        BY <2>1, <1>8, <1>t, <1>1, <1>3 DEF TypeOK
      <2>3. place # "done" => AcksInOrder' /\ AcksAreCurrent'
        <3>1. \A i \in 1..Len(acks) : acks[i] \in Nat
          BY <1>t DEF TypeOK
        <3>2. place # "done" => AcksInOrder'
          BY <3>1, <2>1, <1>1, <1>5, <1>t DEF FlowInv, AcksInOrder, TypeOK
        <3>3. place # "done" => AcksAreCurrent'
          BY <2>1, <1>1, <1>5, <1>t DEF FlowInv, AcksAreCurrent, TypeOK
        <3> QED  BY <3>2, <3>3
      <2> QED
        BY <2>2, <2>3, <1>1, <1>2, <1>4, <1>6, <1>t DEF FlowIInv, FlowInv
    <1> QED  BY <1>7, <1>8

(***************************************************************************)
(* Applying an ACK: its count is higher than any applied before and lower  *)
(* than those behind it, so the credit moves up to it and no further.      *)
(***************************************************************************)
LEMMA FlowReceivedAck ==
    ASSUME FitsCounter, FlowIInv, ReceivedAck
    PROVE  FlowIInv'
    <1> USE SizesAssumption, ThresholdAssumption, FrameAssumption
    <1>t. TypeOK /\ FlowInv
      BY DEF FlowIInv
    <1>1. /\ acks # <<>> /\ acks' = Tail(acks)
          /\ UNCHANGED <<left, bytesSent, frames, rawBytesReceived, recvUnacked>>
      BY DEF ReceivedAck
    <1>2. /\ Head(acks) = acks[1] /\ Head(acks) \in 0..MaxMessage
          /\ Len(acks) \in Nat /\ Len(acks) >= 1
          /\ acks' \in Seq(0..MaxMessage)
          /\ Len(acks') = Len(acks) - 1
          /\ \A i \in 1..Len(acks) - 1 : acks'[i] = acks[i + 1]
          /\ acks' = <<>> <=> Len(acks) = 1
      BY <1>1, <1>t, RemainingAcks DEF TypeOK
    <1>3. BytesConserved'
      BY <1>t, <1>1 DEF FlowInv, BytesConserved
    <1>4. Head(acks) < Modulus
      BY <1>2 DEF FitsCounter
    <1>5. CASE place = "done"
      <2>1. UNCHANGED <<unackedBytes, place>>
        BY <1>5 DEF ReceivedAck
      <2> QED
        BY <2>1, <1>5, <1>1, <1>2, <1>3, <1>t DEF FlowIInv, FlowInv, TypeOK
    <1>6. CASE place # "done"
      <2>1. /\ unackedBytes' = ackedBytes(Head(acks))
            /\ place' = IF needsAck(unackedBytes') THEN place ELSE "outbox"
        BY <1>4, <1>6 DEF ReceivedAck
      <2>2. AcksInOrder /\ AcksAreCurrent /\ FreezeState
        BY <1>6, <1>t DEF FlowInv
      <2>3. Applied < acks[1] /\ acks[1] <= rawBytesReceived
        BY <2>2, <1>2 DEF AcksInOrder
      <2>4. unackedBytes' = bytesSent - acks[1]
        BY <2>1, <2>3, <1>2, <1>t
        DEF ackedBytes, MinOf, Applied, TypeOK, FlowInv, BytesConserved
      <2>5. Applied' = acks[1]
        BY <2>4, <1>1, <1>2, <1>t DEF Applied, TypeOK
      <2>6. /\ unackedBytes' \in 0..Modulus-1
            /\ unackedBytes' <= unackedBytes
            /\ unackedBytes' <= bytesSent'
            /\ frames' <= unackedBytes'
        <3>1. acks[1] \in Nat
          BY <1>2
        <3>2. bytesSent = frames + rawBytesReceived /\ UNCHANGED <<bytesSent, frames>>
          BY <1>1, <1>t DEF FlowInv, BytesConserved
        <3>3. /\ bytesSent \in 0..Modulus-1 /\ unackedBytes \in 0..Modulus-1
              /\ frames \in Nat /\ rawBytesReceived \in Nat
          BY <1>t DEF TypeOK
        <3>4. bytesSent - unackedBytes < acks[1] /\ acks[1] <= rawBytesReceived
          BY <2>3 DEF Applied
        <3> QED  BY <2>4, <3>1, <3>2, <3>3, <3>4
      <2>7. unackedBytes' < MaxUnacked + MaxFrame
        BY <2>6, <1>t DEF TypeOK, FlowInv
      <2>8. place' \in Places /\ FreezeState'
        BY <2>1, <2>2, <2>6, <1>6, <1>t DEF FreezeState, needsAck, Places, TypeOK
      <2>9. \A i \in 1..Len(acks) : acks[i] \in Nat
        BY <1>t DEF TypeOK
      <2>10. AcksInOrder'
        <3>1. \A i \in 1..Len(acks') :
                 Applied' < acks'[i] /\ acks'[i] <= rawBytesReceived'
          <4> SUFFICES ASSUME NEW i \in 1..Len(acks')
                       PROVE  acks[1] < acks'[i] /\ acks'[i] <= rawBytesReceived
            BY <2>5, <1>1
          <4>1. i + 1 \in 1..Len(acks) /\ 1 \in 1..Len(acks) /\ 1 < i + 1
            BY <1>2
          <4>2. acks'[i] = acks[i + 1]
            BY <1>2
          <4> QED  BY <4>1, <4>2, <2>2 DEF AcksInOrder
        <3>2. \A i, j \in 1..Len(acks') : i < j => acks'[i] < acks'[j]
          <4> SUFFICES ASSUME NEW i \in 1..Len(acks'), NEW j \in 1..Len(acks'),
                              i < j
                       PROVE  acks'[i] < acks'[j]
            OBVIOUS
          <4>1. i + 1 \in 1..Len(acks) /\ j + 1 \in 1..Len(acks) /\ i + 1 < j + 1
            BY <1>2
          <4>2. acks'[i] = acks[i + 1] /\ acks'[j] = acks[j + 1]
            BY <1>2
          <4> QED  BY <4>1, <4>2, <2>2 DEF AcksInOrder
        <3> QED  BY <3>1, <3>2 DEF AcksInOrder
      <2>11. AcksAreCurrent'
        <3>1. acks[Len(acks)] = rawBytesReceived - recvUnacked
          BY <2>2, <1>1 DEF AcksAreCurrent
        <3>2. CASE Len(acks) = 1
          BY <3>1, <3>2, <2>5, <1>1, <1>2 DEF AcksAreCurrent
        <3>3. CASE Len(acks) # 1
          <4>1. acks' # <<>> /\ Len(acks') \in 1..Len(acks) - 1
            BY <3>3, <1>2
          <4>2. acks'[Len(acks')] = acks[Len(acks)]
            BY <4>1, <1>2
          <4> QED  BY <4>1, <4>2, <3>1, <1>1 DEF AcksAreCurrent
        <3> QED  BY <3>2, <3>3
      <2>12. TypeOK'
        BY <2>6, <2>8, <1>1, <1>2, <1>t DEF TypeOK
      <2> QED
        BY <2>6, <2>7, <2>8, <2>10, <2>11, <2>12, <1>3 DEF FlowIInv, FlowInv
    <1> QED  BY <1>5, <1>6

(***************************************************************************)
(* Steps that change nothing keep the invariant.                           *)
(***************************************************************************)
LEMMA FlowStutter ==
    ASSUME FlowIInv, UNCHANGED vars
    PROVE  FlowIInv'
    BY DEF vars, FlowIInv, TypeOK, FlowInv, BytesConserved, Applied, AcksInOrder,
           AcksAreCurrent, FreezeState

-----------------------------------------------------------------------------
(***************************************************************************)
(* The inductive invariant holds in every reachable state: no byte is lost *)
(* or counted twice, ACKs are applied in the order they were sent, and the *)
(* newest of them is the receiver's own account.                           *)
(***************************************************************************)
THEOREM FlowInvariant == FitsCounter => (Spec => []FlowIInv)
    <1> SUFFICES ASSUME FitsCounter PROVE Spec => []FlowIInv
      OBVIOUS
    <1>1. Init => FlowIInv
      BY FlowInit
    <1>2. FlowIInv /\ [Next]_vars => FlowIInv'
      BY FlowSendFrame, FlowReceiveFrame, FlowReceivedAck, FlowStutter DEF Next
    <1> QED  BY <1>1, <1>2, PTL DEF Spec

(***************************************************************************)
(* Type correctness: among other things the 32-bit counters stay in range  *)
(* and the receiver never holds back a whole threshold of bytes.           *)
(***************************************************************************)
THEOREM FlowTypeCorrect == FitsCounter => (Spec => []TypeOK)
    <1>1. FlowIInv => TypeOK
      BY DEF FlowIInv
    <1> QED  BY <1>1, FlowInvariant, PTL

(***************************************************************************)
(* A frozen message always has bytes or an ACK under way: if neither were, *)
(* the newest ACK would have been applied, so fewer than kIncomingAck-     *)
(* Threshold bytes would be unacknowledged, too few for it to be frozen.   *)
(***************************************************************************)
THEOREM FlowFrozenHasCredit == FitsCounter => (Spec => []FrozenHasCredit)
    <1>1. FlowIInv => FrozenHasCredit
      <2> SUFFICES ASSUME FlowIInv, place = "icebox", ~(frames > 0), acks = <<>>
                   PROVE  FALSE
        BY DEF FrozenHasCredit
      <2>1. frames = 0 /\ bytesSent = rawBytesReceived
        BY DEF FlowIInv, TypeOK, FlowInv, BytesConserved
      <2>2. Applied = rawBytesReceived - recvUnacked
        BY DEF FlowIInv, FlowInv, AcksAreCurrent
      <2>3. unackedBytes = recvUnacked
        BY <2>1, <2>2 DEF Applied, FlowIInv, TypeOK
      <2>4. unackedBytes < AckThreshold
        BY <2>3, SizesAssumption DEF FlowIInv, TypeOK
      <2>5. unackedBytes >= MaxUnacked
        BY DEF FlowIInv, FlowInv, FreezeState, needsAck
      <2> QED
        BY <2>4, <2>5, SizesAssumption, ThresholdAssumption DEF FlowIInv, TypeOK
    <1> QED  BY <1>1, FlowInvariant, PTL

(***************************************************************************)
(* The receiver never has more than the window plus a frame to buffer, and *)
(* the sender's account never falls below what is really outstanding.      *)
(***************************************************************************)
THEOREM FlowWindowBounded ==
    FitsCounter => (Spec => [](WindowBounded /\ CreditIsSound))
    <1>1. FlowIInv => WindowBounded /\ CreditIsSound
      BY SizesAssumption
      DEF FlowIInv, TypeOK, FlowInv, WindowBounded, CreditIsSound
    <1> QED  BY <1>1, FlowInvariant, PTL
=============================================================================
