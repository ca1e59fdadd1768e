------------------------------ MODULE Messages ------------------------------
(***************************************************************************)
(* Messages as bytes: a MessageBuilder encodes properties and body,        *)
(* MessageOut cuts them into frames, Codec compresses and checksums those, *)
(* and MessageIn puts the message together and tells who waits for it.     *)
(* The frames of several messages share the two codecs and are mixed in    *)
(* any order; BLIPIO has the rules of that order, and the ACKs.            *)
(*                                                                         *)
(* A byte is <<where, m, i>>: byte i of the properties, the body or the    *)
(* data source of message m.  A property, name and value, has one byte,    *)
(* and so has the length of the properties, at the start of an encoded     *)
(* message.  zlib is external: a block of its output stands for the bytes  *)
(* that were put in, and has any size.                                     *)
(***************************************************************************)
EXTENDS Integers, SequencesExt, FiniteSetsExt

CONSTANTS
    FrameSize,     \* room in a frame, its checksum not counted
    MinRoom,       \* a frame with less room than this is not filled up (1024)
    BufferSize,    \* kDataBufferSize
    NumMessages,   \* bound: messages sent
    MaxProperties, \* bound: properties of a message
    MaxWrites,     \* bound: bytes written into the body
    SourceSizes    \* bound: how much a data source may give

ASSUME MessagesAssumption ==
    /\ FrameSize \in Nat /\ MinRoom \in Nat /\ 0 < MinRoom /\ MinRoom < FrameSize
    /\ BufferSize \in Nat /\ 0 < BufferSize
    /\ NumMessages \in Nat /\ MaxProperties \in Nat /\ MaxWrites \in Nat
    /\ SourceSizes \subseteq Nat

VARIABLES
    builder,     \* the MessageBuilder in use
    meant,       \* what the application has put into it since it was made or reset
    outgoing,    \* MessageOut, by number
    cur,         \* the message nextFrameToSend is busy with, 0 for none
    frame,       \* the frame it is writing: its data, and the room left
    sentSum,     \* _outputCodec's checksum, by the number of bytes it is of
    wire,        \* frames sent and not received
    incoming,    \* MessageIn, by number
    readSum,     \* _inputCodec's checksum
    stuck,       \* the inflater has read the beginning of a block that is none
    failed       \* receivedFrame threw an exception

building  == <<builder, meant>>
sending   == <<outgoing, cur, frame, sentSum>>
receiving == <<incoming, readSum, stuck, failed>>
vars      == <<building, sending, wire, receiving>>

Bytes(where, m, n) == [i \in 1..n |-> <<where, m, i>>]

NewBuilder(type) ==
    [type |-> type, properties |-> <<>>, out |-> <<>>, wrote |-> FALSE, source |-> -1,
     finished |-> FALSE, reused |-> FALSE]

Nothing == [properties |-> <<>>, body |-> <<>>, source |-> -1]

NewIncoming ==
    [started |-> FALSE, size |-> 0, properties |-> <<>>, body |-> <<>>, complete |-> FALSE,
     calls |-> <<>>, early |-> FALSE]

Init ==
    /\ builder \in {NewBuilder("request"), NewBuilder("response")}
    /\ meant = Nothing
    /\ outgoing = <<>> /\ cur = 0 /\ frame = [data |-> <<>>, room |-> 0] /\ sentSum = 0
    /\ wire = <<>>
    /\ incoming = <<>> /\ readSum = 0 /\ stuck = FALSE /\ failed = FALSE
------------------------------------------------------------------------------
(***************************************************************************)
(* MessageBuilder.                                                         *)
(***************************************************************************)
number == Len(outgoing) + 1

\* Building a message has no effect on the sending of others and might be done at
\* any time, so here all are built before the first frame is sent.
CanBuild == cur = 0 /\ sentSum = 0 /\ number <= NumMessages
Building == CanBuild /\ ~builder.finished

AddsProperties(b, bytes) == [b EXCEPT !.properties = @ \o bytes]

finishProperties(b) ==
    IF b.wrote THEN b
    ELSE [b EXCEPT !.out = <<<<"length", Len(b.properties)>>>> \o b.properties, !.wrote = TRUE]

Writes(b, bytes) == LET f == finishProperties(b) IN [f EXCEPT !.out = @ \o bytes]

AddProperty ==
    LET n == Len(meant.properties)
        property == <<<<"property", number, n + 1>>>>
    IN  /\ Building /\ ~builder.wrote /\ n < MaxProperties
        /\ builder' = AddsProperties(builder, property)
        /\ meant' = [meant EXCEPT !.properties = @ \o property]
        /\ UNCHANGED <<sending, wire, receiving>>

Write ==
    LET byte == <<<<"body", number, Len(meant.body) + 1>>>>
    IN  /\ Building /\ Len(meant.body) < MaxWrites
        /\ builder' = Writes(builder, byte)
        /\ meant' = [meant EXCEPT !.body = @ \o byte]
        /\ UNCHANGED <<sending, wire, receiving>>

\* Domain and code become properties, the message becomes the body.
MakeError ==
    LET byte == <<<<"body", number, 1>>>>
        domainAndCode == Bytes("error", number, 2)
    IN  /\ Building /\ builder.type = "response" /\ ~builder.wrote
        /\ builder' = [Writes(AddsProperties(builder, domainAndCode), byte) EXCEPT !.type = "error"]
        /\ meant' = [meant EXCEPT !.properties = @ \o domainAndCode, !.body = byte]
        /\ UNCHANGED <<sending, wire, receiving>>

SetDataSource ==
    /\ Building /\ builder.source = -1
    /\ \E n \in SourceSizes :
            /\ builder' = [builder EXCEPT !.source = n]
            /\ meant' = [meant EXCEPT !.source = n]
    /\ UNCHANGED <<sending, wire, receiving>>

SourceData(n) == Bytes("source", number, IF n = -1 THEN 0 ELSE n)

\* finish(), in the constructor of MessageOut.
Submit(compressed) ==
    LET b == finishProperties(builder)
    IN  /\ Building
        /\ outgoing' = Append(outgoing,
               [type |-> b.type, compressed |-> compressed,
                unsentPayload |-> b.out, unsentData |-> <<>>,
                source |-> SourceData(b.source), open |-> b.source # -1, inOutbox |-> TRUE,
                built |-> b.out \o SourceData(b.source), reused |-> b.reused,
                intended |-> <<<<"length", Len(meant.properties)>>>> \o meant.properties
                             \o meant.body \o SourceData(meant.source)])
        /\ incoming' = Append(incoming, NewIncoming)
        /\ builder' = [b EXCEPT !.finished = TRUE]
        /\ UNCHANGED <<meant, cur, frame, sentSum, wire, readSum, stuck, failed>>

\* A MessageBuilder for the next message ...
MakeBuilder ==
    /\ CanBuild /\ builder.finished
    /\ \E type \in {"request", "response"} : builder' = NewBuilder(type)
    /\ meant' = Nothing
    /\ UNCHANGED <<sending, wire, receiving>>

\* ... or the same one again.  clear() resets the error state of the stringstream
\* _properties, not its contents; type and dataSource are not reset either.
Reset ==
    /\ CanBuild /\ builder.finished
    /\ builder' = [builder EXCEPT !.out = <<>>, !.wrote = FALSE, !.finished = FALSE, !.reused = TRUE]
    /\ meant' = Nothing
    /\ UNCHANGED <<sending, wire, receiving>>
------------------------------------------------------------------------------
(***************************************************************************)
(* MessageOut::nextFrameToSend, one step per round of its loop.            *)
(***************************************************************************)
Refilled_NeverCloses(o) ==
    LET n == Min({Len(o.source), BufferSize})
    IN  IF o.unsentPayload # <<>> \/ o.unsentData # <<>> \/ ~o.open THEN o
        ELSE [o EXCEPT !.unsentData = SubSeq(o.source, 1, n),
                       !.source = SubSeq(o.source, n + 1, Len(o.source)),
                       !.open = n <= BufferSize]

\* dataToSend refills the buffer when all else is sent ...
Refilled(o) ==
    LET n == Min({Len(o.source), BufferSize})
    IN  IF o.unsentPayload # <<>> \/ o.unsentData # <<>> \/ ~o.open THEN o
        ELSE [o EXCEPT !.unsentData = SubSeq(o.source, 1, n),
                       !.source = SubSeq(o.source, n + 1, Len(o.source)),
                       !.open = n = BufferSize]

\* ... and this is what it returns.
dataToSend(o) == IF o.unsentPayload # <<>> THEN o.unsentPayload ELSE o.unsentData

AfterSending(o, n) ==
    IF o.unsentPayload # <<>> THEN [o EXCEPT !.unsentPayload = SubSeq(@, n + 1, Len(@))]
    ELSE [o EXCEPT !.unsentData = SubSeq(@, n + 1, Len(@))]

hasMoreDataToSend_NoPayload(o) == o.unsentData # <<>> \/ o.open

hasMoreDataToSend(o) == o.unsentPayload # <<>> \/ o.unsentData # <<>> \/ o.open

\* Frames may be asked of any message in the outbox.  They arrive in order, so
\* here the last one is read before the next begins.
StartFrame(m) ==
    /\ cur = 0 /\ wire = <<>> /\ ~failed
    /\ outgoing[m].inOutbox
    /\ cur' = m
    /\ frame' = [data |-> <<>>, room |-> FrameSize]
    /\ UNCHANGED <<building, outgoing, sentSum, wire, receiving>>

\* How much of n bytes codec.write takes, and the room it leaves.  Raw bytes are
\* copied; deflated ones fit whole, in any size, or take all the room there is.
Codes(n, compressed) ==
    LET copied == Min({n, frame.room})
    IN  IF ~compressed THEN {[taken |-> copied, room |-> frame.room - copied]}
        ELSE [taken : {n}, room : 0..(frame.room - 1)] \cup [taken : 1..(n - 1), room : {0}]

WriteData ==
    /\ cur # 0 /\ frame.room >= MinRoom
    /\ LET o == Refilled(outgoing[cur])
           data == dataToSend(o)
       IN  /\ data # <<>>
           /\ \E c \in Codes(Len(data), o.compressed) :
                 /\ outgoing' = [outgoing EXCEPT ![cur] = AfterSending(o, c.taken)]
                 /\ frame' = [data |-> frame.data \o SubSeq(data, 1, c.taken), room |-> c.room]
                 /\ sentSum' = sentSum + c.taken
    /\ UNCHANGED <<building, cur, wire, receiving>>

\* The loop ends.  Only a frame with data in it ends in 00 00 FF FF, which is cut
\* off; then the checksum follows.
EndFrame ==
    LET o == IF frame.room < MinRoom THEN outgoing[cur] ELSE Refilled(outgoing[cur])
    IN  /\ cur # 0
        /\ frame.room < MinRoom \/ dataToSend(o) = <<>>
        /\ outgoing' = [outgoing EXCEPT ![cur] = [o EXCEPT !.inOutbox = hasMoreDataToSend(o)]]
        /\ wire' = Append(wire, [msg |-> cur, type |-> o.type, compressed |-> o.compressed,
                                 more |-> hasMoreDataToSend(o), data |-> frame.data,
                                 checksum |-> sentSum])
        /\ cur' = 0
        /\ frame' = [data |-> <<>>, room |-> 0]
        /\ UNCHANGED <<building, sentSum, receiving>>
------------------------------------------------------------------------------
(***************************************************************************)
(* MessageIn::receivedFrame.                                               *)
(***************************************************************************)
\* The first bytes of a message say how long its properties are.
Begun(in, bytes) ==
    IF in.started THEN in ELSE [in EXCEPT !.started = TRUE, !.size = Head(bytes)[2]]

Filled_DropsRest(in, bytes) ==
    LET n == Min({Len(bytes), in.size - Len(in.properties)})
    IN  [in EXCEPT !.properties = @ \o SubSeq(bytes, 1, n),
                   !.body = IF n > 0 THEN @ ELSE @ \o SubSeq(bytes, n + 1, Len(bytes))]

\* What a frame brings goes to the properties, until they are complete, and to
\* the body.
Filled(in, bytes) ==
    LET n == Min({Len(bytes), in.size - Len(in.properties)})
    IN  [in EXCEPT !.properties = @ \o SubSeq(bytes, 1, n),
                   !.body = @ \o SubSeq(bytes, n + 1, Len(bytes))]

HasProperties(in) == in.started /\ Len(in.properties) = in.size

ReceiveState_Again(before, after, f) ==
    CASE ~f.more -> "kEnd"
      [] f.more /\ HasProperties(after) /\ f.type # "error" -> "kBeginning"
      [] OTHER -> "kOther"

ReceiveState(before, after, f) ==
    CASE ~f.more -> "kEnd"
      [] f.more /\ HasProperties(after) /\ ~HasProperties(before) /\ f.type # "error" -> "kBeginning"
      [] OTHER -> "kOther"

\* The progress callback is given the message when it is complete, or has a
\* buffer for its properties and is no error.
IncludesThis(state, f) == state = "kEnd" \/ f.type # "error"

\* zlib's error: the inflater is given 00 00 FF FF with no data before it, waits
\* for the end of the block that seems to begin there, and finds other data.
Throws(f) == f.compressed /\ stuck

Received(f) ==
    LET before == incoming[f.msg]
        begun == Begun(before, f.data)
        after == Filled(begun, IF before.started THEN f.data ELSE Tail(f.data))
        state == ReceiveState(before, after, f)
    IN  [after EXCEPT
            !.complete = ~f.more,
            !.calls = IF state = "kOther" THEN @ ELSE Append(@, state),
            !.early = @ \/ (IncludesThis(state, f) /\ ~HasProperties(after))]

\* The exceptions of receivedFrame: no room for the length, the checksum, the end
\* before the properties are complete.
Corrupt(f) ==
    \/ ~incoming[f.msg].started /\ f.data = <<>>
    \/ f.checksum # readSum + Len(f.data)
    \/ ~f.more /\ ~HasProperties(Received(f))

ReceivedFrame ==
    LET f == Head(wire)
    IN  /\ wire # <<>> /\ ~failed
        /\ ~Throws(f) /\ ~Corrupt(f)
        /\ incoming' = [incoming EXCEPT ![f.msg] = Received(f)]
        /\ readSum' = readSum + Len(f.data)
        /\ stuck' = (stuck \/ (f.compressed /\ f.data = <<>>))
        /\ wire' = Tail(wire)
        /\ UNCHANGED <<building, sending, failed>>

ReceivedFrameThrows ==
    LET f == Head(wire)
    IN  /\ wire # <<>> /\ ~failed
        /\ Throws(f) \/ Corrupt(f)
        /\ failed' = TRUE
        /\ wire' = <<>>
        /\ UNCHANGED <<building, sending, incoming, readSum, stuck>>

Transfer ==
    \/ \E m \in DOMAIN outgoing : StartFrame(m)
    \/ WriteData \/ EndFrame
    \/ ReceivedFrame \/ ReceivedFrameThrows

Next ==
    \/ AddProperty \/ Write \/ MakeError \/ SetDataSource
    \/ Submit(TRUE) \/ Submit(FALSE)
    \/ MakeBuilder \/ Reset
    \/ Transfer

\* BLIPIO goes on writing while there are messages in the outbox and room for them.
Spec == Init /\ [][Next]_vars /\ WF_vars(Transfer)
------------------------------------------------------------------------------
Byte == ({"length"} \X Nat) \cup ({"property", "error", "body", "source"} \X Nat \X Nat)
Text == Seq(Byte)
Kind == {"request", "response", "error"}

Builder ==
    [type : Kind, properties : Text, out : Text, wrote : BOOLEAN, source : SourceSizes \cup {-1},
     finished : BOOLEAN, reused : BOOLEAN]

Contents == [properties : Text, body : Text, source : SourceSizes \cup {-1}]

Outgoing ==
    [type : Kind, compressed : BOOLEAN, unsentPayload : Text, unsentData : Text, source : Text,
     open : BOOLEAN, inOutbox : BOOLEAN, built : Text, reused : BOOLEAN, intended : Text]

Incoming ==
    [started : BOOLEAN, size : Nat, properties : Text, body : Text, complete : BOOLEAN,
     calls : Seq({"kBeginning", "kEnd"}), early : BOOLEAN]

Frame == [msg : Nat, type : Kind, compressed : BOOLEAN, more : BOOLEAN, data : Text, checksum : Nat]

TypeOK ==
    /\ builder \in Builder
    /\ meant \in Contents
    /\ outgoing \in Seq(Outgoing)
    /\ cur \in 0..Len(outgoing)
    /\ frame \in [data : Text, room : 0..FrameSize]
    /\ sentSum \in Nat
    /\ wire \in Seq(Frame) /\ Len(wire) <= 1 /\ \A i \in DOMAIN wire : wire[i].msg \in DOMAIN outgoing
    /\ incoming \in Seq(Incoming) /\ Len(incoming) = Len(outgoing)
    /\ readSum \in Nat
    /\ stuck \in BOOLEAN /\ failed \in BOOLEAN

Encoded(in) == <<<<"length", in.size>>>> \o in.properties \o in.body

(***************************************************************************)
(* However properties, body and data source are cut into frames, packed    *)
(* and mixed with the frames of other messages, a complete message is what *)
(* the application put into its builder.  (A builder that was reset adds   *)
(* what reset leaves in it: BuiltAsMeant.)                                 *)
(***************************************************************************)
ArrivesIntact ==
    \A m \in DOMAIN incoming : incoming[m].complete =>
        Encoded(incoming[m]) = IF outgoing[m].reused THEN outgoing[m].built ELSE outgoing[m].intended

(***************************************************************************)
(* Both codecs stay in step: the checksum of everything sent so far is     *)
(* never found wrong, and receivedFrame throws only when, before, a frame  *)
(* of a compressed message was sent with no data in it.                    *)
(***************************************************************************)
OnlyEmptyFramesFail == failed => stuck

(***************************************************************************)
(* What receivedFrame returns, and handleRequestReceived passes on: that a *)
(* message begins, once, as soon as its properties are complete and unless *)
(* that is at its end; that it ends, once, and after it began.  An error   *)
(* does not begin.                                                         *)
(***************************************************************************)
BeginsOnce ==
    \A m \in DOMAIN incoming :
        LET in == incoming[m]
        IN  \/ in.calls = <<>> /\ ~in.complete /\ (HasProperties(in) => outgoing[m].type = "error")
            \/ in.calls = <<"kBeginning">> /\ ~in.complete /\ HasProperties(in) /\ outgoing[m].type # "error"
            \/ in.calls = <<"kBeginning", "kEnd">> /\ in.complete /\ outgoing[m].type # "error"
            \/ in.calls = <<"kEnd">> /\ in.complete

(***************************************************************************)
(* Every message arrives, unless an exception ends the connection: the end *)
(* of its data source is noticed, and what is left after a full frame, be  *)
(* it nothing, is sent in another one.                                     *)
(***************************************************************************)
AllArrive ==
    []<>(failed \/ \A m \in DOMAIN outgoing : incoming[m].complete)

(***************************************************************************)
(* "SyncFlush always ends the output with the 4 bytes 00 00 FF FF. We can  *)
(* remove those, then add them when reading the data back in."             *)
(* (MessageOut.cc:75): nothing that was sent is refused.                   *)
(***************************************************************************)
NeverFails == ~failed

(***************************************************************************)
(* "Clears the MessageBuilder so it can be used to create another          *)
(* message." (MessageBuilder.hh:75): a message has what was put into its   *)
(* builder since then.                                                     *)
(***************************************************************************)
BuiltAsMeant == \A m \in DOMAIN outgoing : outgoing[m].built = outgoing[m].intended

(***************************************************************************)
(* "Include a pointer to myself when my properties are available"          *)
(* (Message.cc:261): who gets the message may read its properties.         *)
(***************************************************************************)
ReplyHasProperties == \A m \in DOMAIN incoming : ~incoming[m].early
==============================================================================
