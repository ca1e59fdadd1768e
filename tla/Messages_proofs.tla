--------------------------- MODULE Messages_proofs ---------------------------
(***************************************************************************)
(* Proofs about Messages, for any number and size of messages, any room in *)
(* a frame, and any order in which the frames of messages are mixed.       *)
(***************************************************************************)
EXTENDS Messages, SequenceTheorems, TLAPS

------------------------------------------------------------------------------
(***************************************************************************)
(* The invariant.                                                          *)
(***************************************************************************)

\* What has been received of a message, and what has not been put into a frame.
Got(in) == IF in.started THEN Encoded(in) ELSE <<>>
Unsent(o) == (o.unsentPayload \o o.unsentData) \o o.source

\* What is in between, in a frame being written or on the wire.
Flying(m) ==
    IF wire # <<>> /\ wire[1].msg = m THEN wire[1].data
    ELSE IF cur = m THEN frame.data ELSE <<>>

\* No byte is lost, doubled or moved.
Conserved(o, in, fly) == o.built = (Got(in) \o fly) \o Unsent(o)

\* Of a text: its first byte says how long the properties are.
StartsRight(text) ==
    LET k == text[1][2] IN k \in Nat /\ Len(text) > k /\ text[1] = <<"length", k>>

\* The properties come before the body.
Filling(in) ==
    /\ ~in.started => in.properties = <<>> /\ in.body = <<>>
    /\ in.started => /\ Len(in.properties) <= in.size
                     /\ Len(in.properties) < in.size => in.body = <<>>

\* A MessageOut, by itself.
Sound(o) ==
    /\ StartsRight(o.built)
    /\ ~o.reused => o.built = o.intended
    /\ ~o.open => o.source = <<>>
    /\ ~o.inOutbox => ~hasMoreDataToSend(o)

\* A MessageOut and its MessageIn.
Ends(o, in) == in.complete => /\ ~o.inOutbox
                              /\ in.started
                              /\ Got(in) = o.built

Begins(o, in) ==
    \/ in.calls = <<>> /\ ~in.complete /\ (HasProperties(in) => o.type = "error")
    \/ in.calls = <<"kBeginning">> /\ ~in.complete /\ HasProperties(in) /\ o.type # "error"
    \/ in.calls = <<"kBeginning", "kEnd">> /\ in.complete /\ o.type # "error"
    \/ in.calls = <<"kEnd">> /\ in.complete

Message(m) ==
    /\ Sound(outgoing[m])
    /\ Filling(incoming[m])
    /\ Ends(outgoing[m], incoming[m])
    /\ Begins(outgoing[m], incoming[m])
    /\ ~failed => Conserved(outgoing[m], incoming[m], Flying(m))
    /\ ~failed /\ ~incoming[m].started /\ Flying(m) = <<>> => outgoing[m].unsentPayload # <<>>

\* The builder, and what the application has put into it.
Builds(b, put) ==
    /\ ~b.wrote => b.out = <<>> /\ put.body = <<>>
    /\ b.wrote => Len(b.out) > Len(b.properties) /\ b.out[1] = <<"length", Len(b.properties)>>
    /\ ~b.reused => /\ b.properties = put.properties
                    /\ b.source = put.source
                    /\ b.wrote => b.out = (<<<<"length", Len(b.properties)>>>> \o b.properties) \o put.body

\* The frame being written, or the one on the wire.
Writing ==
    /\ cur = 0 => frame.data = <<>>
    /\ cur # 0 => /\ wire = <<>> /\ ~failed
                  /\ outgoing[cur].inOutbox
                  /\ frame.data = <<>> => frame.room = FrameSize

OnWire ==
    wire # <<>> =>
        LET f == wire[1]
            o == outgoing[f.msg]
        IN  /\ ~failed /\ ~incoming[f.msg].complete
            /\ f.type = o.type /\ f.more = o.inOutbox /\ f.more = hasMoreDataToSend(o)
            /\ f.checksum = sentSum
            /\ ~incoming[f.msg].started => f.data # <<>>

\* The codecs.
InStep ==
    /\ ~failed => sentSum = readSum + Len(frame.data) + (IF wire # <<>> THEN Len(wire[1].data) ELSE 0)
    /\ failed => stuck

MessagesInv ==
    /\ TypeOK
    /\ Builds(builder, meant)
    /\ \A m \in DOMAIN outgoing : Message(m)
    /\ Writing /\ OnWire /\ InStep
------------------------------------------------------------------------------
(***************************************************************************)
(* Sequences of bytes.                                                     *)
(***************************************************************************)

\* A text cut in two.
LEMMA Cut ==
    ASSUME NEW s \in Text, NEW n \in 0..Len(s)
    PROVE  /\ SubSeq(s, 1, n) \in Text /\ SubSeq(s, n + 1, Len(s)) \in Text
           /\ Len(SubSeq(s, 1, n)) = n /\ Len(SubSeq(s, n + 1, Len(s))) = Len(s) - n
           /\ SubSeq(s, 1, n) \o SubSeq(s, n + 1, Len(s)) = s
           /\ n = Len(s) => SubSeq(s, n + 1, Len(s)) = <<>>
    <1>1. Len(s) \in Nat /\ \A i \in 1..Len(s) : s[i] \in Byte
      BY LenProperties, ElementOfSeq DEF Text
    <1>2. SubSeq(s, 1, n) \in Text /\ Len(SubSeq(s, 1, n)) = n
      BY <1>1, SubSeqProperties DEF Text
    <1>3. SubSeq(s, n + 1, Len(s)) \in Text /\ Len(SubSeq(s, n + 1, Len(s))) = Len(s) - n
      BY <1>1, SubSeqProperties DEF Text
    <1>4. SubSeq(s, 1, n) \o SubSeq(s, n + 1, Len(s)) = s
      <2>1. SubSeq(s, 1, Len(s)) = s
        BY SubSeqFull DEF Text
      <2>2. s \in Seq(Byte) /\ 1 \in 1..Len(s)+1 /\ n \in 1-1..Len(s) /\ Len(s) \in n..Len(s)
        BY <1>1 DEF Text
      <2>3. SubSeq(s, 1, n) \o SubSeq(s, n + 1, Len(s)) = SubSeq(s, 1, Len(s))
        BY <2>2, ConcatAdjacentSubSeq
      <2> QED  BY <2>1, <2>3
    <1>5. n = Len(s) => SubSeq(s, n + 1, Len(s)) = <<>>
      BY <1>1, SubSeqEmpty
    <1> QED  BY <1>2, <1>3, <1>4, <1>5

\* Two texts put together.
LEMMA Put ==
    ASSUME NEW s \in Text, NEW t \in Text
    PROVE  /\ s \o t \in Text /\ Len(s \o t) = Len(s) + Len(t) /\ Len(s) \in Nat /\ Len(t) \in Nat
           /\ s \o <<>> = s /\ <<>> \o s = s
           /\ (s = <<>>) <=> (Len(s) = 0)
           /\ s # <<>> => (s \o t)[1] = s[1]
    <1>1. s \o t \in Text /\ Len(s \o t) = Len(s) + Len(t) /\ Len(s) \in Nat /\ Len(t) \in Nat
      BY ConcatProperties, LenProperties DEF Text
    <1>2. s \o <<>> = s /\ <<>> \o s = s
      BY ConcatEmptySeq DEF Text
    <1>3. (s = <<>>) <=> (Len(s) = 0)
      BY EmptySeq DEF Text
    <1>4. s # <<>> => (s \o t)[1] = s[1]
      BY <1>1, <1>3, ConcatProperties DEF Text
    <1> QED  BY <1>1, <1>2, <1>3, <1>4

LEMMA Assoc ==
    ASSUME NEW s \in Text, NEW t \in Text, NEW u \in Text
    PROVE  (s \o t) \o u = s \o (t \o u)
    BY ConcatAssociative DEF Text

LEMMA Empty == <<>> \in Text /\ Len(<<>>) = 0
    BY EmptySeq DEF Text

\* A text of one byte, and the rest of a text.
LEMMA First ==
    ASSUME NEW s \in Text, s # <<>>
    PROVE  /\ Head(s) \in Byte /\ Head(s) = s[1] /\ Tail(s) \in Text
           /\ <<Head(s)>> \in Text /\ s = <<Head(s)>> \o Tail(s)
    <1>1. Head(s) \in Byte /\ Head(s) = s[1] /\ Tail(s) \in Text
      BY HeadTailProperties DEF Text
    <1>2. <<Head(s)>> \in Text
      BY <1>1 DEF Text
    <1>3. s = <<Head(s)>> \o Tail(s)
      BY <1>1 DEF Text
    <1> QED  BY <1>1, <1>2, <1>3

LEMMA One ==
    ASSUME NEW b \in Byte
    PROVE  <<b>> \in Text /\ Len(<<b>>) = 1 /\ <<b>> # <<>> /\ <<b>>[1] = b
    BY DEF Text

LEMMA MinOfTwo ==
    ASSUME NEW a \in Int, NEW b \in Int
    PROVE  Min({a, b}) = IF a <= b THEN a ELSE b
    <1>1. CASE a <= b
      <2>1. a \in {a, b} /\ \A y \in {a, b} : a <= y
        BY <1>1
      <2>2. \A x \in {a, b} : (\A y \in {a, b} : x <= y) => x = a
        BY <1>1
      <2> QED  BY <1>1, <2>1, <2>2 DEF Min
    <1>2. CASE ~(a <= b)
      <2>1. b \in {a, b} /\ \A y \in {a, b} : b <= y
        BY <1>2
      <2>2. \A x \in {a, b} : (\A y \in {a, b} : x <= y) => x = b
        BY <1>2
      <2> QED  BY <1>2, <2>1, <2>2 DEF Min
    <1> QED  BY <1>1, <1>2

\* Bytes made by an application.
LEMMA Made ==
    /\ \A k \in Nat : <<"length", k>> \in Byte
    /\ \A k, i \in Nat : <<"property", k, i>> \in Byte /\ <<"body", k, i>> \in Byte
                         /\ <<"error", k, i>> \in Byte /\ <<"source", k, i>> \in Byte
    BY DEF Byte

LEMMA MadeSeq ==
    ASSUME NEW where \in {"error", "source"}, NEW k \in Nat, NEW n \in Nat
    PROVE  Bytes(where, k, n) \in Text /\ (n = 0 => Bytes(where, k, n) = <<>>)
    <1>1. \A i \in 1..n : <<where, k, i>> \in Byte
      BY DEF Byte
    <1>2. Bytes(where, k, n) \in [1..n -> Byte]
      BY <1>1 DEF Bytes
    <1>3. Bytes(where, k, n) \in Text
      BY <1>2 DEF Text
    <1>4. n = 0 => Bytes(where, k, n) = <<>>
      BY <1>2, <1>3 DEF Text
    <1> QED  BY <1>3, <1>4
------------------------------------------------------------------------------
(***************************************************************************)
(* What the parts of nextFrameToSend and receivedFrame do to a message.    *)
(***************************************************************************)

\* The fields that sending leaves alone.
Same(o, p) ==
    /\ p.type = o.type /\ p.compressed = o.compressed /\ p.built = o.built
    /\ p.reused = o.reused /\ p.intended = o.intended /\ p.inOutbox = o.inOutbox

LEMMA UnsentTypes ==
    ASSUME NEW o \in Outgoing
    PROVE  /\ o.unsentPayload \in Text /\ o.unsentData \in Text /\ o.source \in Text
           /\ o.unsentPayload \o o.unsentData \in Text /\ Unsent(o) \in Text
           /\ (Unsent(o) = <<>>) <=> (o.unsentPayload = <<>> /\ o.unsentData = <<>> /\ o.source = <<>>)
    <1>1. o.unsentPayload \in Text /\ o.unsentData \in Text /\ o.source \in Text
      BY DEF Outgoing
    <1>2. o.unsentPayload \o o.unsentData \in Text /\ Unsent(o) \in Text
      BY <1>1, Put DEF Unsent
    <1>3. Len(Unsent(o)) = (Len(o.unsentPayload) + Len(o.unsentData)) + Len(o.source)
      BY <1>1, <1>2, Put DEF Unsent
    <1>4. /\ Len(o.unsentPayload) \in Nat /\ Len(o.unsentData) \in Nat /\ Len(o.source) \in Nat
          /\ (o.unsentPayload = <<>>) <=> (Len(o.unsentPayload) = 0)
          /\ (o.unsentData = <<>>) <=> (Len(o.unsentData) = 0)
          /\ (o.source = <<>>) <=> (Len(o.source) = 0)
          /\ (Unsent(o) = <<>>) <=> (Len(Unsent(o)) = 0)
      BY <1>1, <1>2, Put
    <1>5. (Len(Unsent(o)) = 0) <=>
             (Len(o.unsentPayload) = 0 /\ Len(o.unsentData) = 0 /\ Len(o.source) = 0)
      <2> DEFINE a == Len(o.unsentPayload)
                 b == Len(o.unsentData)
                 c == Len(o.source)
                 u == Len(Unsent(o))
      <2>1. a \in Nat /\ b \in Nat /\ c \in Nat /\ u = (a + b) + c
        BY <1>3, <1>4
      <2> HIDE DEF a, b, c, u
      <2>2. (u = 0) <=> (a = 0 /\ b = 0 /\ c = 0)
        BY <2>1
      <2> QED  BY <2>2 DEF a, b, c, u
    <1>6. (Unsent(o) = <<>>) <=> (o.unsentPayload = <<>> /\ o.unsentData = <<>> /\ o.source = <<>>)
      BY <1>4, <1>5, Zenon
    <1> QED  BY <1>1, <1>2, <1>6

\* dataToSend moves bytes from the data source to the buffer.
LEMMA Refills ==
    ASSUME NEW o \in Outgoing, ~o.open => o.source = <<>>
    PROVE  /\ Refilled(o) \in Outgoing /\ Same(o, Refilled(o))
           /\ Unsent(Refilled(o)) = Unsent(o)
           /\ Refilled(o).unsentPayload = o.unsentPayload
           /\ ~Refilled(o).open => Refilled(o).source = <<>>
    <1>1. CASE o.unsentPayload # <<>> \/ o.unsentData # <<>> \/ ~o.open
      <2>1. Refilled(o) = o
        BY <1>1 DEF Refilled
      <2> QED  BY <2>1 DEF Same
    <1>2. CASE ~(o.unsentPayload # <<>> \/ o.unsentData # <<>> \/ ~o.open)
      <2> DEFINE n == Min({Len(o.source), BufferSize})
                 first == SubSeq(o.source, 1, n)
                 rest == SubSeq(o.source, n + 1, Len(o.source))
      <2>1. BufferSize \in Nat /\ Len(o.source) \in Nat
        BY MessagesAssumption, UnsentTypes, Put
      <2>2. n \in 0..Len(o.source) /\ (n # BufferSize => n = Len(o.source))
        BY <2>1, MinOfTwo
      <2>3. Refilled(o) = [o EXCEPT !.unsentData = first, !.source = rest, !.open = n = BufferSize]
        BY <1>2 DEF Refilled
      <2> HIDE DEF n
      <2>4. /\ first \in Text /\ rest \in Text /\ first \o rest = o.source
            /\ n = Len(o.source) => rest = <<>>
        BY <2>2, UnsentTypes, Cut
      <2> HIDE DEF first, rest
      <2>5. Refilled(o) \in Outgoing /\ Same(o, Refilled(o)) /\ Refilled(o).unsentPayload = o.unsentPayload
        BY <2>3, <2>4 DEF Outgoing, Same
      <2>6. Refilled(o).unsentData = first /\ Refilled(o).source = rest /\ Refilled(o).open = (n = BufferSize)
        BY <2>3 DEF Outgoing
      <2>7. Unsent(Refilled(o)) = Unsent(o)
        <3>1. Unsent(Refilled(o)) = (<<>> \o first) \o rest
          BY <1>2, <2>5, <2>6 DEF Unsent
        <3>2. Unsent(o) = (<<>> \o <<>>) \o o.source
          BY <1>2 DEF Unsent
        <3>3. <<>> \o first = first /\ <<>> \o <<>> = <<>> /\ <<>> \o o.source = o.source
          BY <2>4, Put, Empty, UnsentTypes
        <3> QED  BY <2>4, <3>1, <3>2, <3>3
      <2> QED  BY <2>2, <2>4, <2>5, <2>6, <2>7
    <1> QED  BY <1>1, <1>2

\* What is taken from dataToSend is the beginning of what is unsent.
LEMMA Sends ==
    ASSUME NEW o \in Outgoing, NEW n \in 1..Len(dataToSend(o))
    PROVE  /\ AfterSending(o, n) \in Outgoing /\ Same(o, AfterSending(o, n))
           /\ SubSeq(dataToSend(o), 1, n) \in Text /\ Len(SubSeq(dataToSend(o), 1, n)) = n
           /\ Unsent(o) = SubSeq(dataToSend(o), 1, n) \o Unsent(AfterSending(o, n))
           /\ AfterSending(o, n).open = o.open /\ AfterSending(o, n).source = o.source
    <1> DEFINE d == dataToSend(o)
               first == SubSeq(d, 1, n)
               rest == SubSeq(d, n + 1, Len(d))
               p == AfterSending(o, n)
    <1>1. d \in Text
      BY UnsentTypes DEF dataToSend
    <1>2. /\ first \in Text /\ rest \in Text /\ Len(first) = n /\ first \o rest = d
      <2>1. n \in 0..Len(d)
        BY <1>1, Put
      <2> QED  BY <1>1, <2>1, Cut
    <1>3. CASE o.unsentPayload # <<>>
      <2>1. d = o.unsentPayload
        BY <1>3 DEF dataToSend
      <2>2. p = [o EXCEPT !.unsentPayload = rest]
        BY <1>3, <2>1 DEF AfterSending, Outgoing
      <2> HIDE DEF d, first, rest, p
      <2>3. p \in Outgoing /\ Same(o, p) /\ p.open = o.open /\ p.source = o.source
            /\ p.unsentData = o.unsentData /\ p.unsentPayload = rest
        BY <1>2, <2>2 DEF Outgoing, Same
      <2>4. Unsent(o) = ((first \o rest) \o o.unsentData) \o o.source
        BY <1>2, <2>1 DEF Unsent
      <2>5. Unsent(p) = (rest \o o.unsentData) \o o.source
        BY <2>3 DEF Unsent
      <2>6. (first \o rest) \o o.unsentData = first \o (rest \o o.unsentData) /\ rest \o o.unsentData \in Text
        <3>1. o.unsentData \in Text
          BY UnsentTypes
        <3>2. (first \o rest) \o o.unsentData = first \o (rest \o o.unsentData)
          BY <1>2, <3>1, Assoc
        <3>3. rest \o o.unsentData \in Text
          BY <1>2, <3>1, Put
        <3> QED  BY <3>2, <3>3
      <2>7. (first \o (rest \o o.unsentData)) \o o.source = first \o ((rest \o o.unsentData) \o o.source)
        BY <1>2, <2>6, UnsentTypes, Assoc
      <2>8. Unsent(o) = first \o Unsent(p)
        BY <2>4, <2>5, <2>6, <2>7
      <2> QED  BY <1>2, <2>3, <2>8 DEF d, first, p
    <1>4. CASE o.unsentPayload = <<>>
      <2>1. d = o.unsentData
        BY <1>4 DEF dataToSend
      <2>2. p = [o EXCEPT !.unsentData = rest]
        BY <1>4, <2>1 DEF AfterSending, Outgoing
      <2> HIDE DEF d, first, rest, p
      <2>3. p \in Outgoing /\ Same(o, p) /\ p.open = o.open /\ p.source = o.source
            /\ p.unsentData = rest /\ p.unsentPayload = <<>>
        BY <1>2, <1>4, <2>2 DEF Outgoing, Same
      <2>4. Unsent(o) = (first \o rest) \o o.source
        BY <1>2, <1>4, <2>1, UnsentTypes, Put DEF Unsent
      <2>5. Unsent(p) = rest \o o.source
        BY <1>2, <2>3, Put DEF Unsent
      <2>6. (first \o rest) \o o.source = first \o (rest \o o.source)
        BY <1>2, UnsentTypes, Assoc
      <2>8. Unsent(o) = first \o Unsent(p)
        BY <2>4, <2>5, <2>6
      <2> QED  BY <1>2, <2>3, <2>8 DEF d, first, p
    <1> QED  BY <1>3, <1>4

\* What receivedFrame adds to a message is what the frame brings.
LEMMA Fills ==
    ASSUME NEW in \in Incoming, in.started, Filling(in), NEW d \in Text
    PROVE  /\ Filled(in, d) \in Incoming /\ Filled(in, d).started
           /\ Filled(in, d).size = in.size /\ Filled(in, d).calls = in.calls
           /\ Filling(Filled(in, d))
           /\ Encoded(Filled(in, d)) = Encoded(in) \o d
           /\ HasProperties(in) => HasProperties(Filled(in, d))
    <1> DEFINE n == Min({Len(d), in.size - Len(in.properties)})
               first == SubSeq(d, 1, n)
               rest == SubSeq(d, n + 1, Len(d))
               p == in.properties
               b == in.body
               q == Filled(in, d)
               head == <<<<"length", in.size>>>>
    <1>1. p \in Text /\ b \in Text /\ in.size \in Nat /\ head \in Text
      BY Made, One DEF Incoming
    <1>2. Len(d) \in Nat /\ Len(p) \in Nat /\ in.size - Len(p) \in Nat
      <2>1. Len(d) \in Nat /\ Len(p) \in Nat
        BY <1>1, Put
      <2>2. Len(p) <= in.size
        BY DEF Filling
      <2> QED  BY <1>1, <2>1, <2>2
    <1>3. n \in 0..Len(d) /\ n <= in.size - Len(p) /\ (n = Len(d) \/ n = in.size - Len(p))
      BY <1>2, MinOfTwo
    <1>4. q = [in EXCEPT !.properties = p \o first, !.body = b \o rest]
      BY DEF Filled, Incoming
    <1> HIDE DEF n
    <1>5. /\ first \in Text /\ rest \in Text /\ first \o rest = d /\ Len(first) = n
          /\ n = Len(d) => rest = <<>>
      BY <1>3, Cut
    <1> HIDE DEF first, rest, p, b, q, head
    <1>6. p \o first \in Text /\ b \o rest \in Text /\ Len(p \o first) = Len(p) + n
      BY <1>1, <1>5, Put
    <1>7. /\ q \in Incoming /\ q.started /\ q.size = in.size /\ q.calls = in.calls
          /\ q.properties = p \o first /\ q.body = b \o rest
      BY <1>4, <1>6 DEF Incoming
    <1>8. Len(p) < in.size => b = <<>>
      BY DEF Filling, p, b
    <1>9. Filling(q)
      <2>1. Len(q.properties) <= q.size
        BY <1>1, <1>2, <1>3, <1>6, <1>7
      <2>2. ASSUME Len(q.properties) < q.size PROVE q.body = <<>>
        <3>1. n < in.size - Len(p)
          BY <1>1, <1>2, <1>3, <1>6, <1>7, <2>2
        <3>2. b = <<>> /\ rest = <<>>
          BY <1>1, <1>2, <1>3, <1>5, <1>8, <3>1
        <3> QED  BY <1>1, <1>7, <3>2, Put, Empty
      <2> QED  BY <1>7, <2>1, <2>2 DEF Filling
    <1>10. Encoded(in) = (head \o p) \o b /\ Encoded(q) = (head \o (p \o first)) \o (b \o rest)
      BY <1>7 DEF Encoded, p, b, head
    <1>11. Encoded(q) = Encoded(in) \o d
      <2>1. head \o p \in Text
        BY <1>1, Put
      <2>2. head \o (p \o first) = (head \o p) \o first
        BY <1>1, <1>5, Assoc
      <2>3. CASE b = <<>>
        <3>1. b \o rest = rest /\ (head \o p) \o b = head \o p
          BY <1>5, <2>1, <2>3, Put
        <3>2. ((head \o p) \o first) \o rest = (head \o p) \o (first \o rest)
          BY <1>5, <2>1, Assoc
        <3> QED  BY <1>5, <1>10, <2>2, <3>1, <3>2
      <2>4. CASE b # <<>>
        <3>1. n = 0
          BY <1>1, <1>2, <1>3, <1>8, <2>4 DEF Filling, p
        <3>2. first = <<>>
          BY <1>5, <3>1, Put
        <3>3. (head \o p) \o first = head \o p /\ rest = d
          BY <1>5, <2>1, <3>2, Put
        <3>4. (head \o p) \o (b \o d) = ((head \o p) \o b) \o d
          BY <1>1, <2>1, Assoc
        <3> QED  BY <1>10, <2>2, <3>3, <3>4
      <2> QED  BY <2>3, <2>4
    <1>12. ASSUME HasProperties(in) PROVE HasProperties(q)
      <2>1. Len(p) = in.size
        BY <1>12 DEF HasProperties, p
      <2> QED  BY <1>1, <1>2, <1>3, <1>6, <1>7, <2>1 DEF HasProperties
    <1> QED  BY <1>7, <1>9, <1>11, <1>12 DEF q

\* Its first bytes begin a message.
LEMMA Starts ==
    ASSUME NEW in \in Incoming, ~in.started, Filling(in),
           NEW d \in Text, d # <<>>, NEW k \in Nat, d[1] = <<"length", k>>
    PROVE  /\ Begun(in, d) \in Incoming /\ Begun(in, d).started /\ Filling(Begun(in, d))
           /\ Begun(in, d).calls = in.calls
           /\ Encoded(Begun(in, d)) \o Tail(d) = d
    <1> DEFINE q == Begun(in, d)
    <1>1. Head(d) = <<"length", k>> /\ Tail(d) \in Text /\ d = <<Head(d)>> \o Tail(d) /\ <<Head(d)>> \in Text
      BY First
    <1>2. q = [in EXCEPT !.started = TRUE, !.size = k]
      <2>1. Head(d)[2] = k
        BY <1>1
      <2> QED  BY <2>1 DEF Begun
    <1>3. /\ q \in Incoming /\ q.started /\ q.size = k /\ q.properties = <<>> /\ q.body = <<>>
          /\ q.calls = in.calls
      BY <1>2 DEF Incoming, Filling
    <1>4. Filling(q)
      BY <1>3, Empty DEF Filling
    <1>5. Encoded(q) = <<Head(d)>>
      BY <1>1, <1>3, Put, Empty DEF Encoded
    <1> QED  BY <1>1, <1>3, <1>4, <1>5
------------------------------------------------------------------------------
(***************************************************************************)
(* The steps, first those that only build.                                 *)
(***************************************************************************)
LEMMA Replaced ==
    ASSUME NEW S, NEW q \in Seq(S), NEW k \in 1..Len(q), NEW e \in S
    PROVE  /\ [q EXCEPT ![k] = e] \in Seq(S) /\ Len([q EXCEPT ![k] = e]) = Len(q)
           /\ DOMAIN [q EXCEPT ![k] = e] = 1..Len(q) /\ DOMAIN q = 1..Len(q)
           /\ \A i \in 1..Len(q) : [q EXCEPT ![k] = e][i] = IF i = k THEN e ELSE q[i]
    OBVIOUS

\* What a message depends on.
LEMMA Untouched ==
    ASSUME NEW m, Message(m), failed' = failed,
           outgoing'[m] = outgoing[m], incoming'[m] = incoming[m], Flying(m)' = Flying(m)
    PROVE  Message(m)'
    BY DEF Message

LEMMA Domains ==
    ASSUME TypeOK
    PROVE  /\ DOMAIN outgoing = 1..Len(outgoing) /\ DOMAIN incoming = 1..Len(outgoing)
           /\ Len(outgoing) \in Nat /\ number \in Nat /\ 0 \notin DOMAIN outgoing
           /\ \A m \in DOMAIN outgoing : outgoing[m] \in Outgoing /\ incoming[m] \in Incoming
           /\ wire # <<>> => /\ Len(wire) = 1 /\ wire[1] \in Frame /\ Head(wire) = wire[1]
                             /\ Tail(wire) = <<>> /\ wire[1].msg \in DOMAIN outgoing
    <1>1. Len(outgoing) \in Nat /\ DOMAIN outgoing = 1..Len(outgoing) /\ DOMAIN incoming = 1..Len(outgoing)
      BY DEF TypeOK
    <1>2. \A m \in DOMAIN outgoing : outgoing[m] \in Outgoing /\ incoming[m] \in Incoming
      BY <1>1 DEF TypeOK
    <1>3. ASSUME wire # <<>>
          PROVE  /\ Len(wire) = 1 /\ wire[1] \in Frame /\ Head(wire) = wire[1]
                 /\ Tail(wire) = <<>> /\ wire[1].msg \in DOMAIN outgoing
      <2>1. wire \in Seq(Frame) /\ Len(wire) <= 1
        BY DEF TypeOK
      <2>2. Len(wire) = 1 /\ DOMAIN wire = 1..1
        BY <1>3, <2>1, EmptySeq
      <2>3. wire[1] \in Frame /\ wire[1].msg \in DOMAIN outgoing
        <3>1. 1 \in 1..Len(wire) /\ 1 \in DOMAIN wire
          BY <2>2
        <3>2. wire[1] \in Frame
          BY <2>1, <3>1, ElementOfSeq
        <3>3. wire[1].msg \in DOMAIN outgoing
          BY <3>1 DEF TypeOK
        <3> QED  BY <3>2, <3>3
      <2>4. Head(wire) = wire[1] /\ Tail(wire) \in Seq(Frame) /\ Len(Tail(wire)) = 0
        BY <1>3, <2>1, <2>2, HeadTailProperties
      <2>5. Tail(wire) = <<>>
        BY <2>4, EmptySeq
      <2> QED  BY <2>2, <2>3, <2>4, <2>5
    <1> QED  BY <1>1, <1>2, <1>3 DEF number

LEMMA InitInv == Init => MessagesInv
    <1> SUFFICES ASSUME Init PROVE MessagesInv
      OBVIOUS
    <1>1. <<>> \in Text /\ Len(<<>>) = 0
      BY Empty
    <1>2. builder \in Builder
      <2>1. PICK type \in {"request", "response"} : builder = NewBuilder(type)
        BY DEF Init
      <2> QED  BY <1>1, <2>1 DEF NewBuilder, Kind, Builder
    <1>3. meant \in Contents
      BY <1>1 DEF Init, Nothing, Contents
    <1>4. frame \in [data : Text, room : 0..FrameSize]
      BY <1>1, MessagesAssumption DEF Init
    <1>5. /\ outgoing = <<>> /\ incoming = <<>> /\ wire = <<>> /\ outgoing \in Seq(Outgoing)
          /\ incoming \in Seq(Incoming) /\ wire \in Seq(Frame)
          /\ Len(outgoing) = 0 /\ DOMAIN outgoing = {} /\ DOMAIN wire = {} /\ Len(incoming) = 0 /\ Len(wire) = 0
      BY DEF Init
    <1>6. TypeOK
      <2>1. cur \in 0..Len(outgoing) /\ sentSum \in Nat /\ readSum \in Nat
        BY <1>5 DEF Init
      <2>3. stuck \in BOOLEAN /\ failed \in BOOLEAN
        BY Zenon DEF Init
      <2>2. Len(wire) <= 1 /\ (\A i \in DOMAIN wire : wire[i].msg \in DOMAIN outgoing) /\ Len(incoming) = Len(outgoing)
        BY <1>5
      <2> QED  BY <1>2, <1>3, <1>4, <1>5, <2>1, <2>2, <2>3 DEF TypeOK
    <1>7. Builds(builder, meant)
      BY DEF Builds, Init, NewBuilder, Nothing
    <1>8. Writing /\ OnWire /\ InStep
      BY <1>1 DEF Writing, OnWire, InStep, Init
    <1> QED  BY <1>5, <1>6, <1>7, <1>8 DEF MessagesInv

\* A step that changes nothing but the builder.
LEMMA OnlyBuilds ==
    ASSUME MessagesInv, UNCHANGED <<sending, wire, receiving>>, Builds(builder, meant)',
           builder' \in Builder,
           meant' \in Contents
    PROVE  MessagesInv'
    <1>1. /\ outgoing' = outgoing /\ cur' = cur /\ frame' = frame /\ sentSum' = sentSum /\ wire' = wire
          /\ incoming' = incoming /\ readSum' = readSum /\ stuck' = stuck /\ failed' = failed
      BY DEF sending, receiving
    <1>2. TypeOK'
      BY <1>1 DEF MessagesInv, TypeOK
    <1>3. \A m \in DOMAIN outgoing : Message(m)'
      BY <1>1 DEF MessagesInv, Message, Flying
    <1>4. Writing' /\ OnWire' /\ InStep'
      BY <1>1 DEF MessagesInv, Writing, OnWire, InStep
    <1> QED  BY <1>1, <1>2, <1>3, <1>4 DEF MessagesInv

LEMMA Finishes ==
    ASSUME NEW b \in Builder, NEW put, Builds(b, put)
    PROVE  /\ finishProperties(b) \in Builder /\ Builds(finishProperties(b), put)
           /\ finishProperties(b).wrote /\ finishProperties(b).properties = b.properties
           /\ finishProperties(b).source = b.source /\ finishProperties(b).reused = b.reused
    <1> DEFINE f == finishProperties(b)
               head == <<<<"length", Len(b.properties)>>>>
    <1>1. b.properties \in Text /\ b.out \in Text /\ b.wrote \in BOOLEAN
      BY DEF Builder
    <1>2. Len(b.properties) \in Nat
      BY <1>1, Put
    <1>3. head \in Text /\ Len(head) = 1 /\ head # <<>> /\ head[1] = <<"length", Len(b.properties)>>
      BY <1>2, Made, One
    <1>4. CASE b.wrote
      BY <1>4 DEF finishProperties
    <1>5. CASE ~b.wrote
      <2> HIDE DEF head
      <2>1. f = [b EXCEPT !.out = head \o b.properties, !.wrote = TRUE]
        BY <1>5 DEF finishProperties, head
      <2>2. /\ head \o b.properties \in Text /\ Len(head \o b.properties) = 1 + Len(b.properties)
            /\ (head \o b.properties)[1] = <<"length", Len(b.properties)>>
            /\ (head \o b.properties) \o <<>> = head \o b.properties
        <3>1. /\ head \o b.properties \in Text /\ Len(head \o b.properties) = 1 + Len(b.properties)
              /\ (head \o b.properties)[1] = <<"length", Len(b.properties)>>
          BY <1>1, <1>3, Put
        <3>2. (head \o b.properties) \o <<>> = head \o b.properties
          BY <3>1, Put
        <3> QED  BY <3>1, <3>2
      <2>3. /\ f \in Builder /\ f.wrote /\ f.properties = b.properties /\ f.source = b.source
            /\ f.reused = b.reused /\ f.out = head \o b.properties
        BY <2>1, <2>2 DEF Builder
      <2>4. put.body = <<>>
        BY <1>5 DEF Builds
      <2>5. Len(f.out) > Len(f.properties) /\ f.out[1] = <<"length", Len(f.properties)>>
        BY <1>2, <2>2, <2>3
      <2>6. f.out = (head \o f.properties) \o put.body
        BY <2>2, <2>3, <2>4
      <2>7. Builds(f, put)
        BY <2>3, <2>5, <2>6 DEF Builds, head
      <2> QED  BY <2>3, <2>7
    <1> QED  BY <1>1, <1>4, <1>5

\* Bytes written behind the properties.
LEMMA WritesMore ==
    ASSUME NEW b \in Builder, b.wrote, NEW put \in Contents, Builds(b, put), NEW e \in Text
    PROVE  /\ [b EXCEPT !.out = @ \o e] \in Builder
           /\ Builds([b EXCEPT !.out = @ \o e], [put EXCEPT !.body = @ \o e])
    <1> DEFINE f == [b EXCEPT !.out = @ \o e]
               p == [put EXCEPT !.body = @ \o e]
               head == <<<<"length", Len(b.properties)>>>>
    <1>1. b.properties \in Text /\ b.out \in Text /\ put.body \in Text
      BY DEF Builder, Contents
    <1>2. Len(b.properties) \in Nat /\ b.out \o e \in Text /\ Len(b.out) \in Nat /\ Len(e) \in Nat
          /\ Len(b.out \o e) = Len(b.out) + Len(e)
      BY <1>1, Put
    <1>3. /\ f \in Builder /\ f.out = b.out \o e /\ f.wrote /\ f.properties = b.properties
          /\ f.source = b.source /\ f.reused = b.reused
      BY <1>2 DEF Builder
    <1>4. p.properties = put.properties /\ p.body = put.body \o e /\ p.source = put.source
      BY DEF Contents
    <1>5. Len(b.out) > Len(b.properties) /\ b.out[1] = <<"length", Len(b.properties)>>
      BY DEF Builds
    <1>6. b.out # <<>>
      <2>1. Len(b.out) # 0
        BY <1>2, <1>5
      <2> QED  BY <1>1, <2>1, Put
    <1>7. Len(f.out) > Len(f.properties) /\ f.out[1] = <<"length", Len(f.properties)>>
      <2>1. (b.out \o e)[1] = b.out[1]
        BY <1>1, <1>6, Put
      <2> QED  BY <1>2, <1>3, <1>5, <2>1
    <1>8. ASSUME ~b.reused PROVE f.out = (head \o f.properties) \o p.body
      <2>1. b.out = (head \o b.properties) \o put.body
        BY <1>8 DEF Builds
      <2>2. head \in Text
        BY <1>2, Made, One
      <2> HIDE DEF head
      <2>3. head \o b.properties \in Text
        BY <1>1, <2>2, Put
      <2>4. ((head \o b.properties) \o put.body) \o e = (head \o b.properties) \o (put.body \o e)
        BY <1>1, <2>3, Assoc
      <2> QED  BY <1>3, <1>4, <2>1, <2>4
    <1>9. Builds(f, p)
      BY <1>3, <1>4, <1>7, <1>8 DEF Builds
    <1> QED  BY <1>3, <1>9

LEMMA AddsMore ==
    ASSUME NEW b \in Builder, ~b.wrote, NEW put \in Contents, Builds(b, put), NEW e \in Text
    PROVE  /\ AddsProperties(b, e) \in Builder /\ ~AddsProperties(b, e).wrote
           /\ [put EXCEPT !.properties = @ \o e] \in Contents
           /\ Builds(AddsProperties(b, e), [put EXCEPT !.properties = @ \o e])
    <1>1. b.properties \o e \in Text /\ put.properties \o e \in Text
      BY Put DEF Builder, Contents
    <1>2. /\ AddsProperties(b, e) \in Builder /\ ~AddsProperties(b, e).wrote
          /\ [put EXCEPT !.properties = @ \o e] \in Contents
      BY <1>1 DEF AddsProperties, Builder, Contents
    <1>3. Builds(AddsProperties(b, e), [put EXCEPT !.properties = @ \o e])
      BY <1>2 DEF AddsProperties, Builder, Contents, Builds
    <1> QED  BY <1>2, <1>3

LEMMA AddPropertyKeeps ==
    ASSUME MessagesInv, AddProperty
    PROVE  MessagesInv'
    <1> DEFINE e == <<<<"property", number, Len(meant.properties) + 1>>>>
    <1>1. /\ builder \in Builder /\ meant \in Contents /\ Builds(builder, meant) /\ TypeOK
      BY DEF MessagesInv, TypeOK
    <1>2. number \in Nat /\ Len(meant.properties) \in Nat
      BY <1>1, Domains, Put DEF Contents
    <1>3. e \in Text
      <2>1. <<"property", number, Len(meant.properties) + 1>> \in Byte
        BY <1>2 DEF Byte
      <2> QED  BY <2>1, One
    <1>4. /\ builder' = AddsProperties(builder, e) /\ ~builder.wrote
          /\ meant' = [meant EXCEPT !.properties = @ \o e]
          /\ UNCHANGED <<sending, wire, receiving>>
      BY DEF AddProperty
    <1> HIDE DEF e
    <1> QED  BY <1>1, <1>3, <1>4, AddsMore, OnlyBuilds

LEMMA WriteKeeps ==
    ASSUME MessagesInv, Write
    PROVE  MessagesInv'
    <1> DEFINE e == <<<<"body", number, Len(meant.body) + 1>>>>
               f == finishProperties(builder)
    <1>1. /\ builder \in Builder /\ meant \in Contents /\ Builds(builder, meant) /\ TypeOK
      BY DEF MessagesInv, TypeOK
    <1>2. number \in Nat /\ Len(meant.body) \in Nat
      BY <1>1, Domains, Put DEF Contents
    <1>3. e \in Text
      <2>1. <<"body", number, Len(meant.body) + 1>> \in Byte
        BY <1>2 DEF Byte
      <2> QED  BY <2>1, One
    <1>4. /\ builder' = [f EXCEPT !.out = @ \o e]
          /\ meant' = [meant EXCEPT !.body = @ \o e]
          /\ UNCHANGED <<sending, wire, receiving>>
      BY DEF Write, Writes
    <1>5. f \in Builder /\ f.wrote /\ Builds(f, meant)
      BY <1>1, Finishes
    <1> HIDE DEF e, f
    <1>6. builder' \in Builder /\ Builds(builder', meant')
      BY <1>1, <1>3, <1>4, <1>5, WritesMore
    <1>7. meant' \in Contents
      <2>1. meant.body \o e \in Text
        BY <1>1, <1>3, Put DEF Contents
      <2> QED  BY <1>1, <1>4, <2>1 DEF Contents
    <1> QED  BY <1>4, <1>6, <1>7, OnlyBuilds

LEMMA MakeErrorKeeps ==
    ASSUME MessagesInv, MakeError
    PROVE  MessagesInv'
    <1> DEFINE e == <<<<"body", number, 1>>>>
               d == Bytes("error", number, 2)
               a == AddsProperties(builder, d)
               put == [meant EXCEPT !.properties = @ \o d]
               f == finishProperties(a)
               g == [f EXCEPT !.out = @ \o e]
    <1>1. /\ builder \in Builder /\ meant \in Contents /\ Builds(builder, meant) /\ TypeOK
      BY DEF MessagesInv, TypeOK
    <1>2. number \in Nat
      BY <1>1, Domains
    <1>3. e \in Text /\ d \in Text
      BY <1>2, Made, One, MadeSeq
    <1>4. /\ builder' = [g EXCEPT !.type = "error"] /\ ~builder.wrote
          /\ meant' = [meant EXCEPT !.properties = @ \o d, !.body = e]
          /\ UNCHANGED <<sending, wire, receiving>>
      BY DEF MakeError, Writes
    <1> HIDE DEF e, d
    <1>5. a \in Builder /\ put \in Contents /\ Builds(a, put) /\ ~a.wrote
      BY <1>1, <1>3, <1>4, AddsMore
    <1> HIDE DEF a
    <1>6. f \in Builder /\ f.wrote /\ Builds(f, put)
      BY <1>5, Finishes
    <1> HIDE DEF f
    <1>7. g \in Builder /\ Builds(g, [put EXCEPT !.body = @ \o e])
      <2> HIDE DEF put
      <2> QED  BY <1>3, <1>5, <1>6, WritesMore
    <1>8. meant' = [put EXCEPT !.body = @ \o e]
      <2>1. meant.body = <<>>
        BY <1>1, <1>4 DEF Builds
      <2>2. put.body = <<>> /\ <<>> \o e = e
        BY <1>1, <1>3, <2>1, Put DEF Contents
      <2>3. [put EXCEPT !.body = @ \o e] = [put EXCEPT !.body = e]
        BY <2>2
      <2>4. meant' = [put EXCEPT !.body = e]
        BY <1>1, <1>4 DEF Contents
      <2> QED  BY <2>3, <2>4
    <1>9. meant' \in Contents
      BY <1>3, <1>4, <1>5 DEF Contents
    <1> HIDE DEF g
    <1>10. builder' \in Builder /\ Builds(builder', meant')
      BY <1>4, <1>7, <1>8 DEF Builder, Builds, Kind
    <1> QED  BY <1>4, <1>9, <1>10, OnlyBuilds

LEMMA BuilderChosen ==
    ASSUME MessagesInv, SetDataSource \/ MakeBuilder \/ Reset
    PROVE  MessagesInv'
    <1>1. /\ builder \in Builder /\ meant \in Contents /\ Builds(builder, meant)
          /\ UNCHANGED <<sending, wire, receiving>>
      BY DEF MessagesInv, TypeOK, SetDataSource, MakeBuilder, Reset
    <1>2. <<>> \in Text /\ Nothing \in Contents
      BY Empty DEF Nothing, Contents
    <1>3. CASE SetDataSource
      <2>1. PICK n \in SourceSizes : builder' = [builder EXCEPT !.source = n] /\ meant' = [meant EXCEPT !.source = n]
        BY <1>3 DEF SetDataSource
      <2>2. builder' \in Builder /\ meant' \in Contents /\ Builds(builder', meant')
        BY <1>1, <2>1 DEF Builder, Contents, Builds
      <2> QED  BY <1>1, <2>2, OnlyBuilds
    <1>4. CASE MakeBuilder
      <2>1. PICK type \in {"request", "response"} : builder' = NewBuilder(type)
        BY <1>4 DEF MakeBuilder
      <2>2. meant' = Nothing
        BY <1>4 DEF MakeBuilder
      <2>3. builder' \in Builder /\ Builds(builder', meant')
        BY <1>2, <2>1, <2>2 DEF Builder, Kind, NewBuilder, Builds, Nothing
      <2> QED  BY <1>1, <1>2, <2>2, <2>3, OnlyBuilds
    <1>5. CASE Reset
      <2>1. /\ builder' = [builder EXCEPT !.out = <<>>, !.wrote = FALSE, !.finished = FALSE, !.reused = TRUE]
            /\ meant' = Nothing
        BY <1>5 DEF Reset
      <2>2. builder' \in Builder /\ Builds(builder', meant')
        BY <1>1, <1>2, <2>1 DEF Builder, Builds, Nothing
      <2> QED  BY <1>1, <1>2, <2>1, <2>2, OnlyBuilds
    <1> QED  BY <1>3, <1>4, <1>5

\* finish() and the constructor of MessageOut.
LEMMA SubmitKeeps ==
    ASSUME MessagesInv, NEW compressed \in BOOLEAN, Submit(compressed)
    PROVE  MessagesInv'
    <1> DEFINE b == finishProperties(builder)
               src == SourceData(b.source)
               head == <<<<"length", Len(meant.properties)>>>>
               o == [type |-> b.type, compressed |-> compressed,
                     unsentPayload |-> b.out, unsentData |-> <<>>,
                     source |-> src, open |-> b.source # -1, inOutbox |-> TRUE,
                     built |-> b.out \o src, reused |-> b.reused,
                     intended |-> head \o meant.properties \o meant.body \o SourceData(meant.source)]
               in == NewIncoming
    <1>1. /\ builder \in Builder /\ meant \in Contents /\ Builds(builder, meant) /\ TypeOK
      BY DEF MessagesInv, TypeOK
    <1>2. /\ outgoing' = Append(outgoing, o) /\ incoming' = Append(incoming, in)
          /\ builder' = [b EXCEPT !.finished = TRUE]
          /\ UNCHANGED <<meant, cur, frame, sentSum, wire, readSum, stuck, failed>>
      BY DEF Submit
    <1>3. /\ b \in Builder /\ Builds(b, meant) /\ b.wrote /\ b.properties = builder.properties
      BY <1>1, Finishes
    <1> HIDE DEF b
    <1>4. /\ b.out \in Text /\ b.properties \in Text /\ b.type \in Kind /\ b.reused \in BOOLEAN
          /\ b.source \in SourceSizes \cup {-1} /\ meant.source \in SourceSizes \cup {-1}
          /\ meant.properties \in Text /\ meant.body \in Text
      BY <1>1, <1>3 DEF Builder, Contents
    <1>5. /\ number \in Nat /\ \A s \in SourceSizes : s \in Nat
      BY <1>1, Domains, MessagesAssumption
    <1>6. /\ src \in Text /\ SourceData(meant.source) \in Text
          /\ b.source = -1 => src = <<>>
      <2>1. \A s \in SourceSizes \cup {-1} : (IF s = -1 THEN 0 ELSE s) \in Nat
        BY <1>5
      <2> QED  BY <1>4, <1>5, <2>1, MadeSeq DEF SourceData
    <1>7. head \in Text
      BY <1>4, Put, Made, One
    <1> HIDE DEF src, head
    <1>8. /\ b.out \o src \in Text
          /\ head \o meant.properties \o meant.body \o SourceData(meant.source) \in Text
      BY <1>4, <1>6, <1>7, Put
    <1>9. <<>> \in Text /\ Len(<<>>) = 0
      BY Empty
    <1>10. o \in Outgoing
      BY <1>4, <1>6, <1>8, <1>9 DEF Outgoing
    <1>11. in \in Incoming
      BY <1>9 DEF Incoming, NewIncoming
    <1>12. /\ Len(b.out) > Len(b.properties) /\ b.out[1] = <<"length", Len(b.properties)>>
           /\ Len(b.properties) \in Nat /\ b.out # <<>>
      <2>1. Len(b.out) > Len(b.properties) /\ b.out[1] = <<"length", Len(b.properties)>>
        BY <1>3 DEF Builds
      <2>2. Len(b.properties) \in Nat /\ Len(b.out) \in Nat
        BY <1>4, Put
      <2>3. Len(b.out) # 0
        BY <2>1, <2>2
      <2> QED  BY <1>4, <2>1, <2>2, <2>3, Put
    <1>13. StartsRight(o.built)
      <2>1. (b.out \o src)[1] = <<"length", Len(b.properties)>>
        BY <1>4, <1>6, <1>12, Put
      <2>2. Len(b.out \o src) = Len(b.out) + Len(src) /\ Len(b.out) \in Nat /\ Len(src) \in Nat
        BY <1>4, <1>6, Put
      <2>3. Len(b.out \o src) > Len(b.properties)
        BY <1>12, <2>2
      <2> HIDE DEF o
      <2>4. o.built = b.out \o src
        BY DEF o
      <2> QED  BY <1>12, <2>1, <2>3, <2>4 DEF StartsRight
    <1>14. ~o.reused => o.built = o.intended
      <2>1. ASSUME ~b.reused
            PROVE  b.out \o src = ((head \o meant.properties) \o meant.body) \o SourceData(meant.source)
        <3>1. b.properties = meant.properties /\ b.source = meant.source
          BY <1>3, <2>1 DEF Builds
        <3>2. b.out = (head \o meant.properties) \o meant.body
          BY <1>3, <2>1, <3>1 DEF Builds, head
        <3> QED  BY <3>1, <3>2 DEF src
      <2> QED  BY <2>1
    <1>15. Sound(o)
      BY <1>6, <1>13, <1>14 DEF Sound
    <1>16. Filling(in) /\ Ends(o, in) /\ Begins(o, in) /\ ~in.started
      BY DEF Filling, Ends, Begins, NewIncoming, HasProperties
    <1>17. Conserved(o, in, <<>>)
      <2>1. Got(in) = <<>>
        BY <1>16 DEF Got
      <2>2. Unsent(o) = (b.out \o <<>>) \o src
        BY DEF Unsent
      <2>3. b.out \o <<>> = b.out /\ <<>> \o <<>> = <<>> /\ <<>> \o (b.out \o src) = b.out \o src
        BY <1>4, <1>8, <1>9, Put
      <2> QED  BY <2>1, <2>2, <2>3 DEF Conserved
    <1>18. o.unsentPayload # <<>>
      BY <1>12
    <1> HIDE DEF o, in
    <1>18a. PICK n \in Nat : n = Len(outgoing)
      BY <1>1, Domains
    <1>19. /\ n \in Nat /\ Len(incoming) = n /\ DOMAIN outgoing = 1..n /\ DOMAIN incoming = 1..n
           /\ outgoing \in Seq(Outgoing) /\ incoming \in Seq(Incoming)
      BY <1>1, <1>18a, Domains DEF TypeOK
    <1>20. /\ outgoing' \in Seq(Outgoing) /\ Len(outgoing') = n + 1 /\ outgoing'[n + 1] = o
           /\ \A m \in 1..n : outgoing'[m] = outgoing[m]
           /\ DOMAIN outgoing' = 1..n+1
      BY <1>2, <1>10, <1>19, AppendProperties
    <1>21. /\ incoming' \in Seq(Incoming) /\ Len(incoming') = n + 1 /\ incoming'[n + 1] = in
           /\ \A m \in 1..n : incoming'[m] = incoming[m]
      BY <1>2, <1>11, <1>19, AppendProperties
    <1>22. builder' \in Builder /\ Builds(builder', meant')
      BY <1>2, <1>3 DEF Builder, Builds
    <1>23. TypeOK'
      <2>1. cur' \in 0..Len(outgoing')
        BY <1>1, <1>2, <1>19, <1>20, <1>18a DEF TypeOK
      <2>2. /\ wire' \in Seq(Frame) /\ Len(wire') <= 1
            /\ \A i \in DOMAIN wire' : wire'[i].msg \in DOMAIN outgoing'
        BY <1>1, <1>2, <1>19, <1>20 DEF TypeOK
      <2> QED  BY <1>1, <1>2, <1>20, <1>21, <1>22, <2>1, <2>2 DEF TypeOK
    <1>24. /\ wire # <<>> => wire[1].msg \in 1..n
           /\ cur \in 0..n
      BY <1>1, <1>19, <1>18a, Domains DEF TypeOK
    <1>25. \A m \in 1..n : Message(m)'
      <2> SUFFICES ASSUME NEW m \in 1..n PROVE Message(m)'
        OBVIOUS
      <2>1. Message(m)
        BY <1>19 DEF MessagesInv
      <2>2. Flying(m)' = Flying(m)
        BY <1>2 DEF Flying
      <2> QED  BY <1>2, <1>20, <1>21, <2>1, <2>2, Untouched
    <1>26. Message(n + 1)'
      <2>1. Flying(n + 1)' = <<>>
        BY <1>2, <1>19, <1>24 DEF Flying
      <2>2. outgoing'[n + 1] = o /\ incoming'[n + 1] = in
        BY <1>20, <1>21
      <2> QED  BY <1>15, <1>16, <1>17, <1>18, <2>1, <2>2 DEF Message
    <1>27. \A m \in DOMAIN outgoing' : Message(m)'
      <2>1. \A m \in DOMAIN outgoing' : m \in 1..n \/ m = n + 1
        BY <1>19, <1>20
      <2> QED  BY <1>25, <1>26, <2>1
    <1>28. Writing'
      <2>1. Writing
        BY DEF MessagesInv
      <2>2. cur # 0 => outgoing'[cur] = outgoing[cur]
        BY <1>19, <1>20, <1>24
      <2> QED  BY <1>2, <2>1, <2>2 DEF Writing
    <1>29. OnWire'
      <2>1. OnWire
        BY DEF MessagesInv
      <2>2. wire # <<>> => outgoing'[wire[1].msg] = outgoing[wire[1].msg] /\ incoming'[wire[1].msg] = incoming[wire[1].msg]
        BY <1>20, <1>21, <1>24
      <2> QED  BY <1>2, <2>1, <2>2 DEF OnWire
    <1>30. InStep'
      BY <1>2 DEF MessagesInv, InStep
    <1> QED  BY <1>22, <1>23, <1>27, <1>28, <1>29, <1>30 DEF MessagesInv

(***************************************************************************)
(* Sending.                                                                *)
(***************************************************************************)
LEMMA StartFrameKeeps ==
    ASSUME MessagesInv, NEW m \in DOMAIN outgoing, StartFrame(m)
    PROVE  MessagesInv'
    <1>1. /\ cur = 0 /\ wire = <<>> /\ ~failed /\ outgoing[m].inOutbox /\ cur' = m
          /\ frame' = [data |-> <<>>, room |-> FrameSize]
          /\ outgoing' = outgoing /\ sentSum' = sentSum /\ wire' = wire /\ incoming' = incoming
          /\ readSum' = readSum /\ stuck' = stuck /\ failed' = failed
          /\ builder' = builder /\ meant' = meant
      BY DEF StartFrame, building, receiving
    <1>2. TypeOK /\ Builds(builder, meant) /\ Writing /\ InStep /\ frame.data = <<>>
      BY <1>1 DEF MessagesInv, Writing
    <1>3. 0 \notin DOMAIN outgoing /\ DOMAIN outgoing = 1..Len(outgoing)
      BY <1>2, Domains
    <1>4. TypeOK'
      <2>1. frame' \in [data : Text, room : 0..FrameSize]
        BY <1>1, Empty, MessagesAssumption
      <2>2. cur' \in 0..Len(outgoing')
        BY <1>1, <1>2, <1>3, Domains
      <2> QED  BY <1>1, <1>2, <2>1, <2>2 DEF TypeOK
    <1>5. \A x \in DOMAIN outgoing' : Message(x)'
      <2> SUFFICES ASSUME NEW x \in DOMAIN outgoing PROVE Message(x)'
        BY <1>1
      <2>1. Flying(x)' = <<>> /\ Flying(x) = <<>>
        BY <1>1, <1>3 DEF Flying
      <2>2. Message(x)
        BY DEF MessagesInv
      <2> QED  BY <1>1, <2>1, <2>2, Untouched
    <1>6. Writing' /\ OnWire'
      BY <1>1, <1>3 DEF Writing, OnWire
    <1>7. InStep'
      BY <1>1, <1>2 DEF InStep
    <1> QED  BY <1>1, <1>2, <1>4, <1>5, <1>6, <1>7 DEF MessagesInv

\* codec.write takes something, if there is room.
LEMMA Takes ==
    ASSUME TypeOK, frame.room >= MinRoom, NEW n \in Nat \ {0}, NEW z \in BOOLEAN, NEW c \in Codes(n, z)
    PROVE  c.taken \in 1..n /\ c.room \in 0..FrameSize
    <1>1. frame.room \in Nat /\ frame.room > 0 /\ frame.room <= FrameSize /\ FrameSize \in Nat
      BY MessagesAssumption DEF TypeOK
    <1>2. Min({n, frame.room}) = IF n <= frame.room THEN n ELSE frame.room
      BY <1>1, MinOfTwo
    <1>3. CASE z
      <2>1. c \in [taken : {n}, room : 0..(frame.room - 1)] \cup [taken : 1..(n - 1), room : {0}]
        BY <1>3 DEF Codes
      <2> QED  BY <1>1, <2>1
    <1>4. CASE ~z
      <2> DEFINE k == Min({n, frame.room})
      <2>1. c = [taken |-> k, room |-> frame.room - k]
        BY <1>4 DEF Codes
      <2>2. k \in 1..n /\ frame.room - k \in 0..FrameSize
        BY <1>1, <1>2
      <2> HIDE DEF k
      <2> QED  BY <2>1, <2>2
    <1> QED  BY <1>3, <1>4

LEMMA WriteDataKeeps ==
    ASSUME MessagesInv, WriteData
    PROVE  MessagesInv'
    <1>1. PICK k : k = cur
      OBVIOUS
    <1> DEFINE old == outgoing[k]
               o == Refilled(old)
               data == dataToSend(o)
    <1>2. /\ cur # 0 /\ frame.room >= MinRoom /\ data # <<>>
          /\ cur' = cur /\ wire' = wire /\ incoming' = incoming
          /\ readSum' = readSum /\ stuck' = stuck /\ failed' = failed
          /\ builder' = builder /\ meant' = meant
      BY <1>1 DEF WriteData, building, receiving
    <1>3. PICK c \in Codes(Len(data), o.compressed) :
              /\ outgoing' = [outgoing EXCEPT ![k] = AfterSending(o, c.taken)]
              /\ frame' = [data |-> frame.data \o SubSeq(data, 1, c.taken), room |-> c.room]
              /\ sentSum' = sentSum + c.taken
      BY <1>1 DEF WriteData
    <1>4. /\ TypeOK /\ Builds(builder, meant) /\ Writing /\ InStep
          /\ \A m \in DOMAIN outgoing : Message(m)
      BY DEF MessagesInv
    <1>5. /\ k \in DOMAIN outgoing /\ k \in 1..Len(outgoing) /\ DOMAIN outgoing = 1..Len(outgoing)
          /\ old \in Outgoing /\ incoming[k] \in Incoming
      BY <1>1, <1>2, <1>4, Domains DEF TypeOK
    <1>6. wire = <<>> /\ ~failed /\ old.inOutbox
      BY <1>1, <1>2, <1>4 DEF Writing
    <1>7. Message(k) /\ Sound(old)
      BY <1>4, <1>5 DEF Message
    <1> HIDE DEF old
    <1>8. /\ o \in Outgoing /\ Same(old, o) /\ Unsent(o) = Unsent(old)
          /\ ~o.open => o.source = <<>>
      BY <1>5, <1>7, Refills DEF Sound
    <1> HIDE DEF o
    <1>9. data \in Text /\ Len(data) \in Nat \ {0} /\ o.compressed \in BOOLEAN
      <2>1. data \in Text
        BY <1>8, UnsentTypes DEF dataToSend
      <2> QED  BY <1>2, <1>8, <2>1, Put DEF Outgoing
    <1>10. c.taken \in 1..Len(data) /\ c.room \in 0..FrameSize
      BY <1>2, <1>4, <1>9, Takes
    <1> DEFINE first == SubSeq(data, 1, c.taken)
               p == AfterSending(o, c.taken)
    <1>11. /\ p \in Outgoing /\ Same(o, p) /\ first \in Text /\ Len(first) = c.taken
           /\ Unsent(o) = first \o Unsent(p) /\ p.open = o.open /\ p.source = o.source
      BY <1>8, <1>10, Sends
    <1> HIDE DEF first, p
    <1>12. frame.data \in Text /\ sentSum \in Nat /\ readSum \in Nat
      BY <1>4 DEF TypeOK
    <1>13. /\ frame.data \o first \in Text /\ Len(frame.data \o first) = Len(frame.data) + c.taken
           /\ Len(frame.data) \in Nat
      <2>1. first \in Text /\ Len(first) = c.taken
        BY <1>11
      <2>2. frame.data \in Text
        BY <1>12
      <2>3. /\ frame.data \o first \in Text /\ Len(frame.data \o first) = Len(frame.data) + Len(first)
            /\ Len(frame.data) \in Nat
        BY <2>1, <2>2, Put
      <2> QED  BY <2>1, <2>3
    <1>14. frame.data \o first # <<>>
      <2>1. Len(frame.data \o first) # 0
        BY <1>9, <1>10, <1>13
      <2> QED  BY <1>13, <2>1, Put
    <1>15. frame' = [data |-> frame.data \o first, room |-> c.room] /\ outgoing' = [outgoing EXCEPT ![k] = p]
      BY <1>3 DEF first, p
    <1>16. /\ outgoing' \in Seq(Outgoing) /\ Len(outgoing') = Len(outgoing)
           /\ DOMAIN outgoing' = DOMAIN outgoing
           /\ \A m \in DOMAIN outgoing : outgoing'[m] = IF m = k THEN p ELSE outgoing[m]
      <2>1. outgoing \in Seq(Outgoing)
        BY <1>4 DEF TypeOK
      <2> QED  BY <1>5, <1>11, <1>15, <2>1, Replaced
    <1>17. TypeOK'
      <2>1. frame' \in [data : Text, room : 0..FrameSize] /\ sentSum' \in Nat
        <3>1. frame' \in [data : Text, room : 0..FrameSize]
          BY <1>10, <1>13, <1>15
        <3>2. sentSum' \in Nat
          BY <1>3, <1>9, <1>10, <1>12
        <3> QED  BY <3>1, <3>2
      <2> QED  BY <1>2, <1>4, <1>16, <2>1 DEF TypeOK
    <1>18. Message(k)'
      <2>1. Flying(k) = frame.data /\ Flying(k)' = frame.data \o first
        BY <1>1, <1>2, <1>6, <1>15 DEF Flying
      <2>2. Sound(p)
        BY <1>6, <1>7, <1>8, <1>11 DEF Sound, Same
      <2>3. Filling(incoming[k]) /\ Ends(p, incoming[k]) /\ Begins(p, incoming[k])
        BY <1>6, <1>7, <1>8, <1>11 DEF Message, Ends, Begins, Same, old
      <2>4. Conserved(p, incoming[k], frame.data \o first)
        <3> DEFINE g == Got(incoming[k])
        <3>1. g \in Text
          BY <1>5, <1>7, Made, One, Put, Empty DEF Got, Encoded, Incoming
        <3>2. old.built = (g \o frame.data) \o Unsent(old)
          BY <1>6, <1>7, <2>1 DEF Message, Conserved, old
        <3>3. Unsent(p) \in Text /\ Unsent(old) = first \o Unsent(p) /\ p.built = old.built
          BY <1>8, <1>11, UnsentTypes DEF Same
        <3> HIDE DEF g
        <3>4. g \o frame.data \in Text
          BY <1>12, <3>1, Put
        <3>5. (g \o frame.data) \o (first \o Unsent(p)) = ((g \o frame.data) \o first) \o Unsent(p)
          BY <1>11, <3>3, <3>4, Assoc
        <3>6. (g \o frame.data) \o first = g \o (frame.data \o first)
          BY <1>11, <1>12, <3>1, Assoc
        <3> QED  BY <3>2, <3>3, <3>5, <3>6 DEF Conserved, g
      <2> QED  BY <1>2, <1>5, <1>14, <1>16, <2>1, <2>2, <2>3, <2>4 DEF Message
    <1>19. \A m \in DOMAIN outgoing' : Message(m)'
      <2>1. ASSUME NEW m \in DOMAIN outgoing, m # k PROVE Message(m)'
        <3>1. Flying(m)' = Flying(m)
          BY <1>1, <1>2, <1>6, <2>1 DEF Flying
        <3> QED  BY <1>2, <1>4, <1>16, <2>1, <3>1, Untouched
      <2> QED  BY <1>16, <1>18, <2>1
    <1>20. Writing' /\ OnWire'
      BY <1>1, <1>2, <1>5, <1>6, <1>8, <1>11, <1>14, <1>15, <1>16 DEF Writing, OnWire, Same
    <1>21. InStep'
      BY <1>2, <1>3, <1>4, <1>6, <1>9, <1>10, <1>12, <1>13, <1>15 DEF InStep
    <1> QED  BY <1>2, <1>4, <1>17, <1>19, <1>20, <1>21 DEF MessagesInv

LEMMA EndFrameKeeps ==
    ASSUME MessagesInv, EndFrame
    PROVE  MessagesInv'
    <1>1. PICK k : k = cur
      OBVIOUS
    <1> DEFINE old == outgoing[k]
               o == IF frame.room < MinRoom THEN old ELSE Refilled(old)
               more == hasMoreDataToSend(o)
               p == [o EXCEPT !.inOutbox = more]
               f == [msg |-> k, type |-> o.type, compressed |-> o.compressed, more |-> more,
                     data |-> frame.data, checksum |-> sentSum]
    <1>2. /\ cur # 0 /\ (frame.room < MinRoom \/ dataToSend(o) = <<>>)
          /\ outgoing' = [outgoing EXCEPT ![k] = p] /\ wire' = Append(wire, f) /\ cur' = 0
          /\ frame' = [data |-> <<>>, room |-> 0]
          /\ sentSum' = sentSum /\ incoming' = incoming
          /\ readSum' = readSum /\ stuck' = stuck /\ failed' = failed
          /\ builder' = builder /\ meant' = meant
      BY <1>1 DEF EndFrame, building, receiving
    <1>4. /\ TypeOK /\ Builds(builder, meant) /\ Writing /\ InStep
          /\ \A m \in DOMAIN outgoing : Message(m)
      BY DEF MessagesInv
    <1>5. /\ k \in DOMAIN outgoing /\ k \in 1..Len(outgoing) /\ DOMAIN outgoing = 1..Len(outgoing)
          /\ old \in Outgoing /\ incoming[k] \in Incoming /\ 0 \notin DOMAIN outgoing
      BY <1>1, <1>2, <1>4, Domains DEF TypeOK
    <1>6. wire = <<>> /\ ~failed /\ old.inOutbox
      BY <1>1, <1>2, <1>4 DEF Writing
    <1>7. Message(k) /\ Sound(old)
      BY <1>4, <1>5 DEF Message
    <1> HIDE DEF old
    <1>8. /\ o \in Outgoing /\ Same(old, o) /\ Unsent(o) = Unsent(old)
          /\ ~o.open => o.source = <<>>
          /\ o.unsentPayload = old.unsentPayload
      BY <1>5, <1>7, Refills DEF Sound, Same
    <1> HIDE DEF o
    <1>9. more \in BOOLEAN
      BY DEF hasMoreDataToSend
    <1> HIDE DEF more
    <1>10. /\ p \in Outgoing /\ p.inOutbox = more /\ p.unsentPayload = o.unsentPayload
           /\ p.unsentData = o.unsentData /\ p.source = o.source /\ p.open = o.open /\ p.type = o.type
           /\ p.built = o.built /\ p.reused = o.reused /\ p.intended = o.intended
      BY <1>8, <1>9 DEF Outgoing
    <1> HIDE DEF p
    <1>11. hasMoreDataToSend(p) = more /\ Unsent(p) = Unsent(old)
      BY <1>8, <1>10 DEF hasMoreDataToSend, Unsent, more
    <1>12. wire' = <<f>> /\ wire' # <<>> /\ wire'[1] = f /\ Len(wire') = 1 /\ DOMAIN wire' = {1}
      BY <1>2, <1>6
    <1>13. frame.data \in Text /\ sentSum \in Nat /\ readSum \in Nat
      BY <1>4 DEF TypeOK
    <1>14. /\ f \in Frame /\ f.msg = k /\ f.type = o.type /\ f.more = more /\ f.data = frame.data
           /\ f.checksum = sentSum
      <2>1. k \in Nat /\ o.type \in Kind /\ o.compressed \in BOOLEAN
        BY <1>5, <1>8, Domains DEF Outgoing
      <2> QED  BY <1>9, <1>13, <2>1 DEF Frame
    <1> HIDE DEF f
    <1>15. /\ outgoing' \in Seq(Outgoing) /\ Len(outgoing') = Len(outgoing)
           /\ DOMAIN outgoing' = DOMAIN outgoing
           /\ \A m \in DOMAIN outgoing : outgoing'[m] = IF m = k THEN p ELSE outgoing[m]
      <2>1. outgoing \in Seq(Outgoing)
        BY <1>4 DEF TypeOK
      <2> QED  BY <1>2, <1>5, <1>10, <2>1, Replaced
    <1>16. TypeOK'
      <2>1. frame' \in [data : Text, room : 0..FrameSize] /\ cur' \in 0..Len(outgoing')
        BY <1>2, <1>5, <1>15, Empty, MessagesAssumption
      <2>2. wire' \in Seq(Frame) /\ Len(wire') <= 1 /\ \A i \in DOMAIN wire' : wire'[i].msg \in DOMAIN outgoing'
        BY <1>5, <1>12, <1>14, <1>15
      <2> QED  BY <1>2, <1>4, <1>15, <2>1, <2>2 DEF TypeOK
    <1>17. Flying(k) = frame.data /\ Flying(k)' = frame.data
      BY <1>1, <1>2, <1>6, <1>12, <1>14 DEF Flying
    <1>18. ~incoming[k].started => frame.data # <<>>
      <2> SUFFICES ASSUME ~incoming[k].started, frame.data = <<>> PROVE FALSE
        OBVIOUS
      <2>1. ~(frame.room < MinRoom)
        BY <1>2, <1>4, MessagesAssumption DEF Writing
      <2>2. dataToSend(o) = <<>>
        BY <1>2, <2>1
      <2>3. o.unsentPayload = <<>>
        BY <2>2 DEF dataToSend
      <2>4. old.unsentPayload # <<>>
        BY <1>6, <1>7, <1>17 DEF Message, old
      <2> QED  BY <1>8, <2>3, <2>4
    <1>19. Message(k)'
      <2>1. Sound(p)
        BY <1>7, <1>8, <1>10, <1>11 DEF Sound, Same
      <2>2. Filling(incoming[k]) /\ Ends(p, incoming[k]) /\ Begins(p, incoming[k])
        BY <1>6, <1>7, <1>8, <1>10 DEF Message, Ends, Begins, Same, old
      <2>3. Conserved(p, incoming[k], frame.data)
        BY <1>6, <1>7, <1>8, <1>10, <1>11, <1>17 DEF Message, Conserved, Same, old
      <2> QED  BY <1>2, <1>5, <1>15, <1>17, <1>18, <2>1, <2>2, <2>3 DEF Message
    <1>20. \A m \in DOMAIN outgoing' : Message(m)'
      <2>1. ASSUME NEW m \in DOMAIN outgoing, m # k PROVE Message(m)'
        <3>1. Flying(m)' = Flying(m)
          BY <1>1, <1>2, <1>5, <1>6, <1>12, <1>14, <2>1 DEF Flying
        <3> QED  BY <1>2, <1>4, <1>15, <2>1, <3>1, Untouched
      <2> QED  BY <1>15, <1>19, <2>1
    <1>21. Writing'
      BY <1>2 DEF Writing
    <1>22. OnWire'
      <2>1. ~incoming[k].complete
        BY <1>6, <1>7 DEF Message, Ends, old
      <2>2. outgoing'[f.msg] = p
        BY <1>5, <1>14, <1>15
      <2> QED  BY <1>2, <1>6, <1>10, <1>11, <1>12, <1>14, <1>18, <2>1, <2>2 DEF OnWire
    <1>23. InStep'
      <2>1. Len(frame.data) \in Nat
        BY <1>13, Put
      <2>2. sentSum = readSum + Len(frame.data) + 0
        BY <1>4, <1>6 DEF InStep
      <2>3. Len(frame'.data) = 0 /\ frame.data = wire'[1].data
        BY <1>2, <1>12, <1>14, Empty
      <2> QED  BY <1>2, <1>6, <1>12, <1>13, <2>1, <2>2, <2>3 DEF InStep
    <1> QED  BY <1>2, <1>4, <1>16, <1>20, <1>21, <1>22, <1>23 DEF MessagesInv

(***************************************************************************)
(* Receiving.                                                              *)
(***************************************************************************)

\* What the frame on the wire makes of its message.
LEMMA Receives ==
    ASSUME MessagesInv, wire # <<>>, NEW f, f = wire[1], NEW q, q = Received(f)
    PROVE  /\ q \in Incoming /\ q.started /\ Filling(q)
           /\ q.complete = ~f.more
           /\ Got(q) = Got(incoming[f.msg]) \o f.data
           /\ outgoing[f.msg].built = Got(q) \o Unsent(outgoing[f.msg])
           /\ ~f.more => HasProperties(q) /\ Got(q) = outgoing[f.msg].built
           /\ Begins(outgoing[f.msg], q)
    <1>1. PICK m : m = f.msg
      OBVIOUS
    <1> DEFINE o == outgoing[m]
               in == incoming[m]
               d == f.data
    <1>2. /\ TypeOK /\ f \in Frame /\ m \in DOMAIN outgoing /\ o \in Outgoing /\ in \in Incoming
          /\ d \in Text /\ f.more \in BOOLEAN
      BY <1>1, Domains DEF MessagesInv, Frame
    <1>3. /\ ~failed /\ ~in.complete /\ f.type = o.type /\ f.more = hasMoreDataToSend(o)
          /\ ~in.started => d # <<>>
      BY <1>1 DEF MessagesInv, OnWire
    <1>4. Message(m) /\ Flying(m) = d
      BY <1>1, <1>2 DEF MessagesInv, Flying
    <1>5. Filling(in) /\ Begins(o, in) /\ Conserved(o, in, d) /\ Sound(o)
      BY <1>3, <1>4 DEF Message
    <1>6. Unsent(o) \in Text
      BY <1>2, UnsentTypes
    <1> DEFINE begun == Begun(in, d)
               bytes == IF in.started THEN d ELSE Tail(d)
               after == Filled(begun, bytes)
               state == ReceiveState(in, after, f)
    <1>7. q = [after EXCEPT !.complete = ~f.more,
                            !.calls = IF state = "kOther" THEN @ ELSE Append(@, state),
                            !.early = @ \/ (IncludesThis(state, f) /\ ~HasProperties(after))]
      BY <1>1 DEF Received
    <1> HIDE DEF o, in
    <1>8. /\ begun \in Incoming /\ begun.started /\ Filling(begun) /\ begun.calls = in.calls
          /\ bytes \in Text /\ Encoded(begun) \o bytes = Got(in) \o d
          /\ HasProperties(in) => HasProperties(begun)
      <2>1. CASE in.started
        <3>1. begun = in /\ bytes = d
          BY <2>1 DEF Begun
        <3> QED  BY <1>2, <1>5, <2>1, <3>1 DEF Got
      <2>2. CASE ~in.started
        <3>1. d # <<>>
          BY <1>3, <2>2
        <3>2. Got(in) = <<>> /\ <<>> \o d = d
          BY <1>2, <2>2, Put DEF Got
        <3>3. o.built = d \o Unsent(o)
          BY <1>5, <3>2 DEF Conserved
        <3>4. d[1] = o.built[1]
          BY <1>2, <1>6, <3>1, <3>3, Put
        <3>5. o.built[1][2] \in Nat /\ d[1] = <<"length", o.built[1][2]>>
          BY <1>5, <3>4 DEF Sound, StartsRight
        <3>6. PICK k \in Nat : d[1] = <<"length", k>>
          BY <3>5
        <3>7. /\ begun \in Incoming /\ begun.started /\ Filling(begun) /\ begun.calls = in.calls
              /\ Encoded(begun) \o Tail(d) = d
          BY <1>2, <1>5, <2>2, <3>1, <3>6, Starts
        <3>8. Tail(d) \in Text
          BY <1>2, <3>1, First
        <3>9. ~HasProperties(in)
          BY <2>2 DEF HasProperties
        <3> HIDE DEF begun
        <3> QED  BY <2>2, <3>2, <3>7, <3>8, <3>9
      <2> QED  BY <2>1, <2>2
    <1> HIDE DEF begun, bytes
    <1>9. /\ after \in Incoming /\ after.started /\ Filling(after) /\ after.calls = in.calls
          /\ Encoded(after) = Got(in) \o d
          /\ HasProperties(in) => HasProperties(after)
      BY <1>8, Fills
    <1> HIDE DEF after
    <1>10. /\ state \in {"kEnd", "kBeginning", "kOther"}
           /\ state = "kEnd" <=> ~f.more
           /\ state = "kBeginning" <=> f.more /\ HasProperties(after) /\ ~HasProperties(in) /\ o.type # "error"
      BY <1>2, <1>3 DEF ReceiveState
    <1> HIDE DEF state
    <1>11. PICK calls \in Seq({"kBeginning", "kEnd"}) :
              calls = IF state = "kOther" THEN in.calls ELSE Append(in.calls, state)
      <2>1. in.calls \in Seq({"kBeginning", "kEnd"})
        BY <1>2 DEF Incoming
      <2>2. CASE state = "kOther"
        BY <2>1, <2>2
      <2>3. CASE state # "kOther"
        <3>1. state \in {"kBeginning", "kEnd"}
          BY <1>10, <2>3
        <3>2. Append(in.calls, state) \in Seq({"kBeginning", "kEnd"})
          BY <2>1, <3>1, AppendProperties
        <3> QED  BY <2>3, <3>2
      <2> QED  BY <2>2, <2>3
    <1>12. PICK early \in BOOLEAN : early = (after.early \/ (IncludesThis(state, f) /\ ~HasProperties(after)))
      OBVIOUS
    <1>13. q = [after EXCEPT !.complete = ~f.more, !.calls = calls, !.early = early]
      BY <1>7, <1>9, <1>11, <1>12
    <1>14. /\ q \in Incoming /\ q.started /\ q.complete = ~f.more /\ q.calls = calls
           /\ q.size = after.size /\ q.properties = after.properties /\ q.body = after.body
      BY <1>2, <1>9, <1>13 DEF Incoming
    <1>15. Filling(q) /\ Encoded(q) = Encoded(after) /\ (HasProperties(q) <=> HasProperties(after))
      BY <1>9, <1>14 DEF Filling, Encoded, HasProperties
    <1>16. Got(q) = Got(in) \o d
      BY <1>9, <1>14, <1>15 DEF Got
    <1>17. o.built = Got(q) \o Unsent(o)
      BY <1>5, <1>16 DEF Conserved
    <1>18. ASSUME ~f.more PROVE HasProperties(q) /\ Got(q) = o.built
      <2>1. Unsent(o) = <<>>
        BY <1>2, <1>3, <1>5, <1>18, UnsentTypes DEF hasMoreDataToSend, Sound
      <2> DEFINE head == <<<<"length", q.size>>>>
      <2>2. q.size \in Nat /\ q.properties \in Text /\ q.body \in Text
        BY <1>14 DEF Incoming
      <2>3. head \in Text /\ Len(head) = 1 /\ head # <<>> /\ head[1] = <<"length", q.size>>
        BY <2>2, Made, One
      <2>4. Got(q) = (head \o q.properties) \o q.body
        BY <1>14 DEF Got, Encoded
      <2> HIDE DEF head
      <2> DEFINE s == head \o q.properties
      <2>5. s \in Text /\ Len(s) = Len(head) + Len(q.properties) /\ s[1] = head[1] /\ Len(q.properties) \in Nat
        <3>1. q.properties \in Text /\ head \in Text /\ head # <<>>
          BY <2>2, <2>3
        <3> QED  BY <3>1, Put
      <2>6. Len(s) = 1 + Len(q.properties) /\ s[1] = <<"length", q.size>>
        BY <2>3, <2>5
      <2> HIDE DEF s
      <2>7. s # <<>>
        <3>1. Len(s) # 0
          BY <2>5, <2>6
        <3> QED  BY <2>5, <3>1, Put
      <2>8. Got(q) = s \o q.body /\ Got(q) \in Text /\ Got(q)[1] = s[1]
        <3>1. Got(q) = s \o q.body
          BY <2>4 DEF s
        <3>2. s \o q.body \in Text /\ (s \o q.body)[1] = s[1]
          BY <2>2, <2>5, <2>7, Put
        <3> QED  BY <3>1, <3>2
      <2>9. Got(q) = o.built /\ o.built[1] = <<"length", q.size>>
        <3>1. Got(q) \o <<>> = Got(q)
          BY <2>8, Put
        <3> QED  BY <1>17, <2>1, <2>6, <2>8, <3>1
      <2>10. Len(o.built) > q.size
        BY <1>5, <2>9 DEF Sound, StartsRight
      <2>11. Len(q.properties) <= q.size /\ (Len(q.properties) < q.size => q.body = <<>>)
        BY <1>14, <1>15 DEF Filling
      <2>12. ASSUME Len(q.properties) < q.size PROVE FALSE
        <3>1. q.body = <<>> /\ s \o <<>> = s
          BY <2>5, <2>11, <2>12, Put
        <3>2. Len(o.built) = 1 + Len(q.properties)
          BY <2>6, <2>8, <2>9, <3>1
        <3> QED  BY <2>2, <2>5, <2>10, <2>12, <3>2
      <2>13. Len(q.properties) = q.size
        BY <2>2, <2>5, <2>11, <2>12
      <2> QED  BY <1>14, <2>9, <2>13 DEF HasProperties
    <1>19. Begins(o, q)
      <2>1. CASE ~f.more
        <3>1. q.complete /\ calls = Append(in.calls, "kEnd")
          BY <1>10, <1>11, <1>14, <2>1
        <3>2. CASE in.calls = <<>>
          BY <1>14, <3>1, <3>2 DEF Begins
        <3>3. CASE in.calls = <<"kBeginning">> /\ o.type # "error"
          <4>1. Append(<<"kBeginning">>, "kEnd") = <<"kBeginning", "kEnd">>
            <5> DEFINE S == {"kBeginning", "kEnd"}
                       a == Append(<<"kBeginning">>, "kEnd")
                       b == <<"kBeginning", "kEnd">>
            <5>1. <<"kBeginning">> \in Seq(S) /\ Len(<<"kBeginning">>) = 1 /\ <<"kBeginning">>[1] = "kBeginning"
              OBVIOUS
            <5>2. a \in Seq(S) /\ Len(a) = 2 /\ a[1] = "kBeginning" /\ a[2] = "kEnd"
              BY <5>1, AppendProperties
            <5>3. b \in Seq(S) /\ Len(b) = 2 /\ b[1] = "kBeginning" /\ b[2] = "kEnd"
              OBVIOUS
            <5> HIDE DEF a, b
            <5>4. \A i \in 1..2 : a[i] = b[i]
              BY <5>2, <5>3
            <5> QED  BY <5>2, <5>3, <5>4, SeqEqual DEF a, b
          <4>2. q.calls = <<"kBeginning", "kEnd">>
            BY <1>14, <3>1, <3>3, <4>1
          <4> QED  BY <3>1, <3>3, <4>2 DEF Begins
        <3> QED  BY <1>3, <1>5, <3>2, <3>3 DEF Begins
      <2>2. CASE f.more
        <3>1. ~q.complete
          BY <1>14, <2>2
        <3>2. CASE state = "kBeginning"
          <4>1. HasProperties(q) /\ ~HasProperties(in) /\ o.type # "error"
            BY <1>10, <1>15, <3>2
          <4>2. in.calls = <<>>
            BY <1>3, <1>5, <4>1 DEF Begins
          <4>3. q.calls = <<"kBeginning">>
            BY <1>11, <1>14, <3>2, <4>2
          <4> QED  BY <3>1, <4>1, <4>3 DEF Begins
        <3>3. CASE state = "kOther"
          <4>1. q.calls = in.calls
            BY <1>11, <1>14, <3>3
          <4>2. CASE in.calls = <<>> /\ (HasProperties(in) => o.type = "error")
            <5>1. HasProperties(q) => o.type = "error"
              BY <1>10, <1>15, <2>2, <3>3, <4>2
            <5> QED  BY <3>1, <4>1, <4>2, <5>1 DEF Begins
          <4>3. CASE in.calls = <<"kBeginning">> /\ HasProperties(in) /\ o.type # "error"
            BY <1>9, <1>15, <3>1, <4>1, <4>3 DEF Begins
          <4> QED  BY <1>3, <1>5, <4>2, <4>3 DEF Begins
        <3> QED  BY <1>10, <2>2, <3>2, <3>3
      <2> QED  BY <1>2, <2>1, <2>2
    <1> QED  BY <1>1, <1>14, <1>15, <1>16, <1>17, <1>18, <1>19 DEF o, in

\* Nothing but an empty frame of a compressed message makes receivedFrame throw.
LEMMA NotCorrupt ==
    ASSUME MessagesInv, wire # <<>>
    PROVE  ~Corrupt(Head(wire))
    <1> DEFINE f == wire[1]
    <1>1. TypeOK /\ Head(wire) = f /\ f \in Frame /\ f.msg \in DOMAIN outgoing
      BY Domains DEF MessagesInv
    <1>2. ~incoming[f.msg].started => f.data # <<>>
      BY DEF MessagesInv, OnWire
    <1>3. f.checksum = readSum + Len(f.data)
      <2>1. f.checksum = sentSum /\ ~failed /\ frame.data = <<>>
        BY DEF MessagesInv, OnWire, Writing
      <2>2. sentSum = readSum + Len(frame.data) + Len(f.data)
        BY <2>1 DEF MessagesInv, InStep
      <2>3. Len(frame.data) = 0 /\ readSum \in Nat /\ Len(f.data) \in Nat
        BY <1>1, <2>1, Empty, Put DEF TypeOK, Frame
      <2> QED  BY <2>1, <2>2, <2>3
    <1>4. ~f.more => HasProperties(Received(f))
      BY Receives
    <1> QED  BY <1>1, <1>2, <1>3, <1>4 DEF Corrupt

LEMMA ReceivedFrameKeeps ==
    ASSUME MessagesInv, ReceivedFrame
    PROVE  MessagesInv'
    <1>1. PICK f : f = wire[1]
      OBVIOUS
    <1>2. PICK k : k = f.msg
      OBVIOUS
    <1>3. PICK q : q = Received(f)
      OBVIOUS
    <1>4. /\ TypeOK /\ Builds(builder, meant) /\ Writing /\ OnWire /\ InStep
          /\ \A m \in DOMAIN outgoing : Message(m)
      BY DEF MessagesInv
    <1>5. wire # <<>> /\ ~failed
      BY DEF ReceivedFrame
    <1>6. /\ Head(wire) = f /\ Tail(wire) = <<>> /\ f \in Frame /\ k \in DOMAIN outgoing
          /\ DOMAIN outgoing = 1..Len(outgoing) /\ 0 \notin DOMAIN outgoing
      BY <1>1, <1>2, <1>4, <1>5, Domains
    <1>7. /\ incoming' = [incoming EXCEPT ![k] = q] /\ readSum' = readSum + Len(f.data)
          /\ stuck' = (stuck \/ (f.compressed /\ f.data = <<>>)) /\ wire' = <<>>
          /\ outgoing' = outgoing /\ cur' = cur /\ frame' = frame /\ sentSum' = sentSum
          /\ failed' = failed /\ builder' = builder /\ meant' = meant
      BY <1>2, <1>3, <1>6 DEF ReceivedFrame, building, sending
    <1>8. /\ q \in Incoming /\ q.started /\ Filling(q) /\ q.complete = ~f.more
          /\ Got(q) = Got(incoming[k]) \o f.data
          /\ outgoing[k].built = Got(q) \o Unsent(outgoing[k])
          /\ ~f.more => HasProperties(q) /\ Got(q) = outgoing[k].built
          /\ Begins(outgoing[k], q)
      BY <1>1, <1>2, <1>3, <1>5, Receives
    <1>9. f.data \in Text /\ Len(f.data) \in Nat /\ f.more \in BOOLEAN
      BY <1>6, Put DEF Frame
    <1>10. /\ incoming' \in Seq(Incoming) /\ Len(incoming') = Len(outgoing)
           /\ \A m \in DOMAIN outgoing : incoming'[m] = IF m = k THEN q ELSE incoming[m]
      <2>1. incoming \in Seq(Incoming) /\ Len(incoming) = Len(outgoing)
        BY <1>4 DEF TypeOK
      <2> QED  BY <1>6, <1>7, <1>8, <2>1, Replaced
    <1>11. TypeOK'
      <2>1. readSum' \in Nat /\ stuck' \in BOOLEAN
        BY <1>4, <1>7, <1>9 DEF TypeOK
      <2>2. wire' \in Seq(Frame) /\ Len(wire') <= 1 /\ \A i \in DOMAIN wire' : wire'[i].msg \in DOMAIN outgoing'
        BY <1>7
      <2> QED  BY <1>4, <1>7, <1>10, <2>1, <2>2 DEF TypeOK
    <1>12. cur = 0 /\ frame.data = <<>>
      BY <1>4, <1>5 DEF Writing
    <1>13. /\ f.more = outgoing[k].inOutbox /\ f.checksum = sentSum
      BY <1>1, <1>2, <1>4, <1>5 DEF OnWire
    <1>14. Message(k)'
      <2>1. Flying(k)' = <<>>
        BY <1>6, <1>7, <1>12 DEF Flying
      <2>2. Sound(outgoing[k])
        BY <1>4, <1>6 DEF Message
      <2>3. Ends(outgoing[k], q)
        BY <1>8, <1>9, <1>13 DEF Ends
      <2>4. Conserved(outgoing[k], q, <<>>)
        <3>1. Got(q) \in Text
          <4>1. q.size \in Nat /\ q.properties \in Text /\ q.body \in Text
            BY <1>8 DEF Incoming
          <4>2. <<<<"length", q.size>>>> \in Text
            BY <4>1, Made, One
          <4> QED  BY <1>8, <4>1, <4>2, Put DEF Got, Encoded
        <3>2. Got(q) \o <<>> = Got(q)
          BY <3>1, Put
        <3> QED  BY <1>8, <3>2 DEF Conserved
      <2>5. outgoing'[k] = outgoing[k] /\ incoming'[k] = q
        BY <1>6, <1>7, <1>10
      <2> QED  BY <1>8, <2>1, <2>2, <2>3, <2>4, <2>5 DEF Message
    <1>15. \A m \in DOMAIN outgoing' : Message(m)'
      <2>1. ASSUME NEW m \in DOMAIN outgoing, m # k PROVE Message(m)'
        <3>1. Flying(m)' = <<>> /\ Flying(m) = <<>>
          BY <1>1, <1>2, <1>6, <1>7, <1>12, <2>1 DEF Flying
        <3> QED  BY <1>4, <1>7, <1>10, <2>1, <3>1, Untouched
      <2> QED  BY <1>7, <1>14, <2>1
    <1>16. Writing' /\ OnWire'
      BY <1>7, <1>12 DEF Writing, OnWire
    <1>17. InStep'
      <2>1. sentSum = readSum + Len(frame.data) + Len(f.data)
        BY <1>1, <1>4, <1>5 DEF InStep
      <2>2. Len(frame.data) = 0 /\ readSum \in Nat
        BY <1>4, <1>12, Empty DEF TypeOK
      <2> QED  BY <1>5, <1>7, <1>9, <2>1, <2>2 DEF InStep
    <1> QED  BY <1>4, <1>7, <1>11, <1>15, <1>16, <1>17 DEF MessagesInv

LEMMA ReceivedFrameThrowsKeeps ==
    ASSUME MessagesInv, ReceivedFrameThrows
    PROVE  MessagesInv'
    <1>1. /\ TypeOK /\ Builds(builder, meant) /\ Writing
          /\ \A m \in DOMAIN outgoing : Message(m)
      BY DEF MessagesInv
    <1>2. wire # <<>>
      BY DEF ReceivedFrameThrows
    <1>3. stuck
      BY <1>2, NotCorrupt DEF ReceivedFrameThrows, Throws
    <1>4. /\ failed' = TRUE /\ wire' = <<>> /\ incoming' = incoming /\ readSum' = readSum /\ stuck' = stuck
          /\ outgoing' = outgoing /\ cur' = cur /\ frame' = frame /\ sentSum' = sentSum
          /\ builder' = builder /\ meant' = meant
      BY DEF ReceivedFrameThrows, building, sending
    <1>5. cur = 0 /\ frame.data = <<>>
      BY <1>1, <1>2 DEF Writing
    <1>6. TypeOK'
      <2>1. wire' \in Seq(Frame) /\ Len(wire') <= 1 /\ \A i \in DOMAIN wire' : wire'[i].msg \in DOMAIN outgoing'
        BY <1>4
      <2> QED  BY <1>1, <1>4, <2>1 DEF TypeOK
    <1>7. \A m \in DOMAIN outgoing' : Message(m)'
      BY <1>1, <1>4 DEF Message
    <1>8. Writing' /\ OnWire' /\ InStep'
      BY <1>3, <1>4, <1>5 DEF Writing, OnWire, InStep
    <1> QED  BY <1>1, <1>4, <1>6, <1>7, <1>8 DEF MessagesInv

LEMMA NextKeeps == MessagesInv /\ [Next]_vars => MessagesInv'
    <1> SUFFICES ASSUME MessagesInv, [Next]_vars PROVE MessagesInv'
      OBVIOUS
    <1>1. CASE AddProperty \/ Write \/ MakeError
      BY <1>1, AddPropertyKeeps, WriteKeeps, MakeErrorKeeps
    <1>2. CASE SetDataSource \/ MakeBuilder \/ Reset
      BY <1>2, BuilderChosen
    <1>3. CASE Submit(TRUE) \/ Submit(FALSE)
      BY <1>3, SubmitKeeps
    <1>4. CASE Transfer
      BY <1>4, StartFrameKeeps, WriteDataKeeps, EndFrameKeeps, ReceivedFrameKeeps, ReceivedFrameThrowsKeeps
         DEF Transfer
    <1>5. CASE UNCHANGED vars
      <2>1. UNCHANGED <<sending, wire, receiving>> /\ builder' = builder /\ meant' = meant
        BY <1>5 DEF vars, building
      <2> QED  BY <2>1, OnlyBuilds DEF MessagesInv, TypeOK
    <1> QED  BY <1>1, <1>2, <1>3, <1>4, <1>5 DEF Next
------------------------------------------------------------------------------
(***************************************************************************)
(* The bytes of MessageBuilder, MessageOut, the codecs and MessageIn are   *)
(* conserved, for any sizes and any mixture of frames.                     *)
(***************************************************************************)
THEOREM MessagesInvariant == Spec => []MessagesInv
    BY InitInv, NextKeeps, PTL DEF Spec

(***************************************************************************)
(* A complete MessageIn has what was put into its builder, and otherwise,  *)
(* if the builder was reset, what the builder encoded.                     *)
(***************************************************************************)
THEOREM MessagesArriveIntact == Spec => []ArrivesIntact
    <1>1. MessagesInv => ArrivesIntact
      <2> SUFFICES ASSUME MessagesInv, NEW m \in DOMAIN incoming, incoming[m].complete
                   PROVE  Encoded(incoming[m]) =
                             IF outgoing[m].reused THEN outgoing[m].built ELSE outgoing[m].intended
        BY DEF ArrivesIntact
      <2>1. m \in DOMAIN outgoing
        BY Domains DEF MessagesInv
      <2>2. Ends(outgoing[m], incoming[m]) /\ Sound(outgoing[m])
        BY <2>1 DEF MessagesInv, Message
      <2> QED  BY <2>2 DEF Ends, Sound, Got
    <1> QED  BY <1>1, MessagesInvariant, PTL

(***************************************************************************)
(* receivedFrame throws only behind an empty frame of a compressed message *)
(* (MessageOut.cc:74), and never for a checksum, a missing length or       *)
(* incomplete properties.                                                  *)
(***************************************************************************)
THEOREM OnlyEmptyFramesBreak == Spec => []OnlyEmptyFramesFail
    <1>1. MessagesInv => OnlyEmptyFramesFail
      BY DEF MessagesInv, InStep, OnlyEmptyFramesFail
    <1> QED  BY <1>1, MessagesInvariant, PTL

(***************************************************************************)
(* receivedFrame reports that a message begins once, when its properties   *)
(* are complete, and then its end, once.                                   *)
(***************************************************************************)
THEOREM MessagesBeginOnce == Spec => []BeginsOnce
    <1>1. MessagesInv => BeginsOnce
      <2> SUFFICES ASSUME MessagesInv, NEW m \in DOMAIN incoming
                   PROVE  Begins(outgoing[m], incoming[m])
        BY DEF BeginsOnce, Begins
      <2>1. m \in DOMAIN outgoing
        BY Domains DEF MessagesInv
      <2> QED  BY <2>1 DEF MessagesInv, Message
    <1> QED  BY <1>1, MessagesInvariant, PTL
==============================================================================
