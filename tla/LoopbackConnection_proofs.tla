---------------------- MODULE LoopbackConnection_proofs ----------------------
(***************************************************************************)
(* Proofs about LoopbackConnection, whatever the size of the send buffer,  *)
(* the number of messages and of calls of close(): which Asserts can fail, *)
(* that a sender which has stopped is told to go on, that _state settles   *)
(* and that the delegates are told of things in order.                     *)
(***************************************************************************)
EXTENDS LoopbackConnection, SequenceTheorems, FiniteSetTheorems, TLAPS

\* Every b of a mailbox is behind some a.
Behind(events, a, b) ==
    \A i \in 1..Len(events) : events[i].name = b =>
        \E j \in 1..Len(events) : j < i /\ events[j].name = a

\* The events of a name that are in a Driver's mailbox, or on their way there.
Pending(p, name) == Count(inbox[p], name) + Count(transit[p], name)

\* The Driver has tried to connect.
Begun == {"connecting", "connected", "closed"}
Working == {"connected", "closed"}

(***************************************************************************)
(* The handshake: each Driver tells the other once that it is connecting,  *)
(* as it begins, and is connected when both have been told.                *)
(***************************************************************************)
Handshake(p) ==
    /\ Pending(p, "_peerIsConnecting") <= 1
    /\ Pending(p, "_peerIsConnecting") > 0 =>
           driver[Other(p)] \in Begun /\ driver[p] \in {"unconnected", "connecting", "closed"}
    /\ driver[p] \in {"peerConnecting", "connected"} => driver[Other(p)] \in Begun
    /\ driver[Other(p)] \in {"connecting", "connected"} =>
           Pending(p, "_peerIsConnecting") > 0 \/ driver[p] \in {"peerConnecting", "connected", "closed"}

(***************************************************************************)
(* Nothing is received before the handshake is done: the sender's          *)
(* _peerIsConnecting is ahead of it, in the mailbox or on the way.         *)
(***************************************************************************)
Receives(p) ==
    /\ Pending(p, "_received") > 0 => driver[p] \in Begun
    /\ driver[p] \notin Working =>
           /\ Behind(inbox[p], "_peerIsConnecting", "_received")
           /\ \/ Count(inbox[p], "_peerIsConnecting") > 0
              \/ Behind(transit[p], "_peerIsConnecting", "_received")

(***************************************************************************)
(* A Driver is told to connect once, and to close only behind that, unless *)
(* its Connection was terminated without being started.                    *)
(***************************************************************************)
Connecting(p) ==
    /\ Count(inbox[p], "_connect") <= 1
    /\ Count(inbox[p], "_connect") > 0 => started[p] /\ driver[p] \notin {"connecting", "connected"}
    /\ driver[p] \in {"connecting", "connected"} => started[p]
    /\ started[p] /\ ~terminated[p] => driver[p] \in Begun \/ Count(inbox[p], "_connect") > 0
    /\ ~terminated[p] => driver[p] \in Begun \/ Behind(inbox[p], "_connect", "_close")
    /\ Count(io[p], "_close") > 0 => started[p]

\* BLIPIO sends, and is told to, only when the Driver has connected.
Sending(p) ==
    /\ writeable[p] => driver[p] \in Working
    /\ Count(io[p], "_onWebSocketWriteable") > 0 => driver[p] \in Working
    /\ Count(inbox[p], "_send") > 0 => driver[p] \in Working

(***************************************************************************)
(* What the delegate was told agrees with the Driver's _state; the end     *)
(* reaches _state by way of BLIPIO's mailbox.                              *)
(***************************************************************************)
Telling(p) ==
    /\ driver[p] \in {"unconnected", "peerConnecting", "connecting"} => phase[p] = "unopened"
    /\ driver[p] = "connected" => phase[p] = "open"
    /\ driver[p] = "closed" => phase[p] \in {"unopened", "closed"}
    /\ phase[p] = "closed" =>
           /\ started[p]
           /\ Count(io[p], "_closed") > 0 \/ lateClose[p] \/ state[p] \in {"kClosed", "kDisconnected"}

(***************************************************************************)
(* What is counted in _bufferedBytes is what is still to be released.      *)
(***************************************************************************)
Counting(p) ==
    /\ driver[p] # "closed" => buffered[p] = Unacknowledged(p)
    /\ driver[p] \notin Working => buffered[p] = 0
    /\ driver[p] = "connected" /\ ~writeable[p] =>
           buffered[p] > SendBuffer \/ Count(io[p], "_onWebSocketWriteable") > 0

Asserting(p) ==
    /\ asserted[p] \subseteq {"_close", "_connect", "terminate"}
    /\ "_connect" \in asserted[p] => driver[p] = "closed"
    /\ "_close" \in asserted[p] => driver[p] = "closed" \/ terminated[p]

PeerInv(p) ==
    /\ Handshake(p) /\ Receives(p) /\ Connecting(p) /\ Sending(p)
    /\ Telling(p) /\ Counting(p) /\ Asserting(p)

LoopbackInv == TypeOK /\ \A p \in Peers : PeerInv(p)
-----------------------------------------------------------------------------
(***************************************************************************)
(* The two ends.                                                           *)
(***************************************************************************)
LEMMA TwoPeers ==
    ASSUME NEW p \in Peers
    PROVE  /\ Other(p) \in Peers /\ Other(p) # p /\ Other(Other(p)) = p
           /\ \A r \in Peers : r = p \/ r = Other(p)
    <1>1. PICK a \in Peers, b \in Peers : a # b /\ Peers = {a, b}
      BY LoopbackAssumption
    <1>2. ASSUME NEW r \in Peers PROVE Other(r) \in Peers /\ Other(r) # r
      BY <1>1 DEF Other
    <1> QED  BY <1>1, <1>2

(***************************************************************************)
(* The events of a name in a mailbox ...                                   *)
(***************************************************************************)
Places(events, name) == {i \in 1..Len(events) : events[i].name = name}

\* ... are counted by a natural number ...
LEMMA CountType ==
    ASSUME NEW S, NEW s \in Seq(S), NEW n
    PROVE  /\ IsFiniteSet(Places(s, n)) /\ Count(s, n) = Cardinality(Places(s, n))
           /\ Count(s, n) \in Nat
           /\ Count(s, n) > 0 <=> \E i \in 1..Len(s) : s[i].name = n
    <1>1. IsFiniteSet(1..Len(s))
      BY FS_Interval
    <1>2. Places(s, n) \in SUBSET (1..Len(s))
      BY DEF Places
    <1>3. IsFiniteSet(Places(s, n))
      BY <1>1, <1>2, FS_Subset
    <1>4. Count(s, n) = Cardinality(Places(s, n))
      BY DEF Count, Places
    <1>5. Cardinality(Places(s, n)) \in Nat /\ (Cardinality(Places(s, n)) = 0 <=> Places(s, n) = {})
      BY <1>3, FS_CardinalityType, FS_EmptySet
    <1>6. Places(s, n) # {} <=> \E i \in 1..Len(s) : s[i].name = n
      BY DEF Places
    <1> QED  BY <1>3, <1>4, <1>5, <1>6

(***************************************************************************)
(* ... when one is pushed ...                                              *)
(***************************************************************************)
LEMMA CountAppend ==
    ASSUME NEW S, NEW s \in Seq(S), NEW e \in S, NEW n
    PROVE  Count(Append(s, e), n) = Count(s, n) + IF e.name = n THEN 1 ELSE 0
    <1>1. /\ Append(s, e) \in Seq(S) /\ Len(Append(s, e)) = Len(s) + 1 /\ Len(s) \in Nat
          /\ \A i \in 1..Len(s) : Append(s, e)[i] = s[i]
          /\ Append(s, e)[Len(s) + 1] = e
      BY AppendProperties
    <1>2. Places(Append(s, e), n) = Places(s, n) \union (IF e.name = n THEN {Len(s) + 1} ELSE {})
      <2>1. \A i : i \in 1..Len(s) + 1 <=> i \in 1..Len(s) \/ i = Len(s) + 1
        BY <1>1
      <2> QED  BY <1>1, <2>1 DEF Places
    <1>3. Len(s) + 1 \notin Places(s, n)
      BY <1>1 DEF Places
    <1>4. /\ IsFiniteSet(Places(s, n)) /\ Count(s, n) = Cardinality(Places(s, n)) /\ Count(s, n) \in Nat
          /\ Count(Append(s, e), n) = Cardinality(Places(Append(s, e), n))
      BY <1>1, CountType
    <1>5. CASE e.name = n
      <2>1. Cardinality(Places(s, n) \union {Len(s) + 1}) = Cardinality(Places(s, n)) + 1
        BY <1>3, <1>4, FS_AddElement
      <2> QED  BY <1>2, <1>4, <1>5, <2>1
    <1>6. CASE e.name # n
      BY <1>2, <1>4, <1>6
    <1> QED  BY <1>5, <1>6

(***************************************************************************)
(* ... or the first one is popped.                                         *)
(***************************************************************************)
LEMMA CountTail ==
    ASSUME NEW S, NEW s \in Seq(S), s # <<>>, NEW n
    PROVE  Count(Tail(s), n) = Count(s, n) - IF Head(s).name = n THEN 1 ELSE 0
    <1>1. /\ Head(s) = s[1] /\ Tail(s) \in Seq(S) /\ Len(s) \in Nat /\ Len(s) >= 1
          /\ Len(Tail(s)) = Len(s) - 1
          /\ \A i \in 1..Len(s) - 1 : Tail(s)[i] = s[i + 1]
      <2>1. Len(s) \in Nat /\ Len(s) >= 1
        BY EmptySeq
      <2> QED  BY <2>1, HeadTailProperties
    <1> DEFINE T == Places(Tail(s), n)
               U == Places(s, n) \ {1}
               f == [i \in T |-> i + 1]
    <1>2. \A i \in T : i \in Nat /\ i + 1 \in U
      BY <1>1 DEF Places
    <1>3. \A j \in U : j \in Nat /\ j - 1 \in T /\ (j - 1) + 1 = j
      BY <1>1 DEF Places
    <1>4. f \in Bijection(T, U)
      <2>1. f \in [T -> U]
        BY <1>2
      <2>2. \A a, b \in T : f[a] = f[b] => a = b
        BY <1>2
      <2>3. \A j \in U : \E i \in T : f[i] = j
        BY <1>3
      <2> QED  BY <2>1, <2>2, <2>3 DEF Bijection, Injection, Surjection, IsInjective
    <1>5. /\ IsFiniteSet(T) /\ Count(Tail(s), n) = Cardinality(T)
          /\ IsFiniteSet(Places(s, n)) /\ Count(s, n) = Cardinality(Places(s, n)) /\ Count(s, n) \in Nat
      BY <1>1, CountType
    <1>6. Cardinality(U) = Cardinality(T)
      <2> HIDE DEF f, T, U
      <2> QED  BY <1>4, <1>5, FS_Bijection DEF ExistsBijection
    <1>7. 1 \in Places(s, n) <=> Head(s).name = n
      BY <1>1 DEF Places
    <1>8. Cardinality(U) = IF 1 \in Places(s, n)
                           THEN Cardinality(Places(s, n)) - 1 ELSE Cardinality(Places(s, n))
      BY <1>5, FS_RemoveElement
    <1> HIDE DEF T, U
    <1> QED  BY <1>5, <1>6, <1>7, <1>8

(***************************************************************************)
(* What is behind what, when an event is pushed or popped.                 *)
(***************************************************************************)
LEMMA BehindAppend ==
    ASSUME NEW S, NEW s \in Seq(S), NEW e \in S, NEW a, NEW b, Behind(s, a, b),
           e.name = b => Count(s, a) > 0
    PROVE  Behind(Append(s, e), a, b)
    <1>1. /\ Len(Append(s, e)) = Len(s) + 1 /\ Len(s) \in Nat
          /\ \A i \in 1..Len(s) : Append(s, e)[i] = s[i]
          /\ Append(s, e)[Len(s) + 1] = e
      BY AppendProperties
    <1> SUFFICES ASSUME NEW i \in 1..Len(s) + 1, Append(s, e)[i].name = b
                 PROVE  \E j \in 1..Len(s) + 1 : j < i /\ Append(s, e)[j].name = a
      BY <1>1 DEF Behind
    <1>2. PICK j \in 1..Len(s) : j < i /\ s[j].name = a
      <2>1. CASE i \in 1..Len(s)
        BY <1>1, <2>1 DEF Behind
      <2>2. CASE i = Len(s) + 1
        <3>1. \E j \in 1..Len(s) : s[j].name = a
          BY <1>1, <2>2, CountType
        <3> QED  BY <1>1, <2>2, <3>1
      <2> QED  BY <1>1, <2>1, <2>2
    <1> QED  BY <1>1, <1>2

\* What is behind another event stays so until that one is popped.
LEMMA BehindTail ==
    ASSUME NEW S, NEW s \in Seq(S), s # <<>>, NEW a, NEW b, Behind(s, a, b), Head(s).name # a
    PROVE  Behind(Tail(s), a, b)
    <1>1. /\ Head(s) = s[1] /\ Len(s) \in Nat /\ Len(s) >= 1
          /\ Len(Tail(s)) = Len(s) - 1
          /\ \A i \in 1..Len(s) - 1 : Tail(s)[i] = s[i + 1]
      <2>1. Len(s) \in Nat /\ Len(s) >= 1
        BY EmptySeq
      <2> QED  BY <2>1, HeadTailProperties
    <1> SUFFICES ASSUME NEW i \in 1..Len(s) - 1, Tail(s)[i].name = b
                 PROVE  \E j \in 1..Len(s) - 1 : j < i /\ Tail(s)[j].name = a
      BY <1>1 DEF Behind
    <1>2. i + 1 \in 1..Len(s) /\ s[i + 1].name = b
      BY <1>1
    <1>3. PICK j \in 1..Len(s) : j < i + 1 /\ s[j].name = a
      BY <1>2 DEF Behind
    <1>4. j # 1
      BY <1>1, <1>3
    <1>5. j - 1 \in 1..Len(s) - 1 /\ j - 1 < i /\ Tail(s)[j - 1] = s[j]
      BY <1>1, <1>3, <1>4
    <1> QED  BY <1>3, <1>5

(***************************************************************************)
(* The first event of a mailbox is behind nothing.                         *)
(***************************************************************************)
LEMMA BehindHead ==
    ASSUME NEW S, NEW s \in Seq(S), s # <<>>, NEW a, NEW b, Behind(s, a, b)
    PROVE  Head(s).name # b
    <1>1. Head(s) = s[1] /\ Len(s) \in Nat /\ Len(s) >= 1
      BY EmptySeq
    <1>2. 1 \in 1..Len(s)
      BY <1>1
    <1> QED  BY <1>1, <1>2 DEF Behind

\* There is nothing in an empty mailbox.
LEMMA EmptyMailbox ==
    ASSUME NEW n
    PROVE  Count(<<>>, n) = 0
    <1>1. {i \in 1..Len(<<>>) : <<>>[i].name = n} = {}
      OBVIOUS
    <1> QED  BY <1>1, FS_EmptySet DEF Count

(***************************************************************************)
(* The mailboxes after an event is pushed into one of them ...             *)
(***************************************************************************)
Pushed(f, g, p, name) ==
    /\ \A r \in Peers : r # p => g[r] = f[r]
    /\ Count(g[p], name) = Count(f[p], name) + 1
    /\ \A n : n # name => Count(g[p], n) = Count(f[p], n)
    /\ \A a, b : Behind(f[p], a, b) /\ (b = name => Count(f[p], a) > 0) => Behind(g[p], a, b)

\* A push changes one mailbox, and the count of one name in it.
LEMMA AfterPush ==
    ASSUME NEW S, NEW f \in [Peers -> Seq(S)], NEW p \in Peers, NEW e \in S, NEW g, g = Push(f, p, e),
           NEW name, name = e.name
    PROVE  g \in [Peers -> Seq(S)] /\ Pushed(f, g, p, name)
    <1>1. g[p] = Append(f[p], e) /\ \A r \in Peers : r # p => g[r] = f[r]
      BY DEF Push
    <1>2. Append(f[p], e) \in Seq(S) /\ f[p] \in Seq(S)
      BY AppendProperties
    <1>3. g \in [Peers -> Seq(S)]
      BY <1>2 DEF Push
    <1>4. \A n : Count(g[p], n) = Count(f[p], n) + IF e.name = n THEN 1 ELSE 0
      BY <1>1, <1>2, CountAppend
    <1>5. \A n : Count(f[p], n) \in Nat
      BY <1>2, CountType
    <1>6. ASSUME NEW a, NEW b, Behind(f[p], a, b), e.name = b => Count(f[p], a) > 0
          PROVE  Behind(g[p], a, b)
      BY <1>1, <1>6, BehindAppend
    <1>7. Count(g[p], e.name) = Count(f[p], e.name) + 1
      BY <1>4
    <1>8. \A n : n # e.name => Count(g[p], n) = Count(f[p], n)
      BY <1>4, <1>5
    <1> QED  BY <1>1, <1>3, <1>6, <1>7, <1>8 DEF Pushed

(***************************************************************************)
(* ... and after the next event is popped from one of them.                *)
(***************************************************************************)
Popped(f, g, p, name) ==
    /\ \A r \in Peers : r # p => g[r] = f[r]
    /\ Count(f[p], name) > 0
    /\ Count(g[p], name) = Count(f[p], name) - 1
    /\ \A n : n # name => Count(g[p], n) = Count(f[p], n)
    /\ \A a, b : Behind(f[p], a, b) => b # name /\ (a # name => Behind(g[p], a, b))

\* A pop takes the first event, which was behind nothing.
LEMMA AfterPop ==
    ASSUME NEW S, NEW f \in [Peers -> Seq(S)], NEW p \in Peers, f[p] # <<>>, NEW g, g = Pop(f, p),
           NEW name, name = Head(f[p]).name
    PROVE  g \in [Peers -> Seq(S)] /\ Head(f[p]) \in S /\ Popped(f, g, p, name)
    <1>1. g[p] = Tail(f[p]) /\ \A r \in Peers : r # p => g[r] = f[r]
      BY DEF Pop
    <1>2. Head(f[p]) \in S /\ Tail(f[p]) \in Seq(S) /\ f[p] \in Seq(S)
      BY HeadTailProperties
    <1>3. g \in [Peers -> Seq(S)]
      BY <1>2 DEF Pop
    <1>4. \A n : Count(g[p], n) = Count(f[p], n) - IF Head(f[p]).name = n THEN 1 ELSE 0
      BY <1>1, <1>2, CountTail
    <1>5. \A n : Count(f[p], n) \in Nat
      BY <1>2, CountType
    <1>6. ASSUME NEW a, NEW b, Behind(f[p], a, b)
          PROVE  b # Head(f[p]).name /\ (a # Head(f[p]).name => Behind(g[p], a, b))
      <2>1. b # Head(f[p]).name
        BY <1>2, <1>6, BehindHead
      <2>2. ASSUME a # Head(f[p]).name PROVE Behind(g[p], a, b)
        BY <1>1, <1>2, <1>6, <2>2, BehindTail
      <2> QED  BY <2>1, <2>2
    <1>7. Count(g[p], Head(f[p]).name) = Count(f[p], Head(f[p]).name) - 1
      BY <1>4
    <1>8. \A n : n # Head(f[p]).name => Count(g[p], n) = Count(f[p], n)
      BY <1>4, <1>5
    <1>9. Count(f[p], Head(f[p]).name) > 0
      <2>1. Head(f[p]) = f[p][1] /\ 1 \in 1..Len(f[p])
        BY <1>2, EmptySeq
      <2> QED  BY <1>2, <2>1, CountType
    <1> QED  BY <1>1, <1>2, <1>3, <1>6, <1>7, <1>8, <1>9 DEF Popped

(***************************************************************************)
(* The types of the counts.                                                *)
(***************************************************************************)
LEMMA Counts ==
    ASSUME TypeOK, NEW r \in Peers
    PROVE  \A n : /\ Count(io[r], n) \in Nat /\ Count(inbox[r], n) \in Nat /\ Count(transit[r], n) \in Nat
    <1>1. io[r] \in Seq(IoEvents) /\ inbox[r] \in Seq(Driving) /\ transit[r] \in Seq(Sent)
      BY DEF TypeOK
    <1> QED  BY <1>1, CountType

(***************************************************************************)
(* What is known before a step of p, of it and of the other end, and what  *)
(* is to be shown of both.                                                 *)
(***************************************************************************)
Before(p, q) ==
    /\ p \in Peers /\ q \in Peers /\ p # q /\ Other(p) = q /\ Other(q) = p
    /\ TypeOK /\ PeerInv(p) /\ PeerInv(q)
    /\ SendBuffer \in Nat /\ buffered[p] \in Nat /\ buffered[q] \in Nat
    /\ held[p] \in Nat /\ held[q] \in Nat
    /\ \A n : /\ Count(io[p], n) \in Nat /\ Count(inbox[p], n) \in Nat /\ Count(transit[p], n) \in Nat
              /\ Count(io[q], n) \in Nat /\ Count(inbox[q], n) \in Nat /\ Count(transit[q], n) \in Nat

\* The invariant gives what is known before a step.
LEMMA BeforeStep ==
    ASSUME LoopbackInv, NEW p \in Peers
    PROVE  \E q : Before(p, q)
    <1>1. /\ Other(p) \in Peers /\ Other(p) # p /\ Other(Other(p)) = p
      BY TwoPeers
    <1>2. /\ buffered[p] \in Nat /\ buffered[Other(p)] \in Nat
          /\ held[p] \in Nat /\ held[Other(p)] \in Nat
      BY <1>1 DEF LoopbackInv, TypeOK
    <1> QED  BY <1>1, <1>2, Counts, LoopbackAssumption DEF LoopbackInv, Before

\* There are only the two ends.
LEMMA AfterStep ==
    ASSUME NEW p, NEW q, Before(p, q), TypeOK', PeerInv(p)', PeerInv(q)'
    PROVE  LoopbackInv'
    <1>1. \A r \in Peers : r = p \/ r = q
      BY TwoPeers DEF Before
    <1> QED  BY <1>1 DEF LoopbackInv

(***************************************************************************)
(* The events that are posted.                                             *)
(***************************************************************************)
LEMMA Posted ==
    ASSUME NEW name, NEW code \in Codes \union {"none", "normal"}
    PROVE  /\ CloseEvent(name, code).name = name /\ CloseEvent(name, code).code = code
           /\ Event(name) = CloseEvent(name, "none")
           /\ name \in {"_close", "_closed", "_onWebSocketWriteable"} => CloseEvent(name, code) \in IoEvents
           /\ name \in {"_peerIsConnecting", "_received", "_closed"} => CloseEvent(name, code) \in Sent
           /\ name \in {"_connect", "_send", "_ack", "_close"} => CloseEvent(name, code) \in Driving
    <1>1. CloseEvent(name, code).name = name /\ CloseEvent(name, code).code = code
      BY DEF CloseEvent
    <1>2. Event(name) = CloseEvent(name, "none")
      BY DEF Event, CloseEvent
    <1>3. ASSUME NEW names, name \in names PROVE CloseEvent(name, code) \in Events(names)
      BY <1>3 DEF CloseEvent, Events
    <1>4. name \in {"_connect", "_send", "_ack", "_close"} => CloseEvent(name, code) \in Driving
      BY <1>3 DEF Driving
    <1> QED  BY <1>1, <1>2, <1>3, <1>4 DEF IoEvents, Sent

\* An event that is already there has one of the codes.
LEMMA CodeOf ==
    ASSUME NEW e, e \in IoEvents \/ e \in Driving
    PROVE  e.code \in Codes \union {"none", "normal"}
    BY DEF IoEvents, Driving, Sent, Events

\* Nothing is behind another event if it is not there.
LEMMA NoneBehind ==
    ASSUME NEW S, NEW s \in Seq(S), NEW a, NEW b, ~(Count(s, b) > 0)
    PROVE  Behind(s, a, b)
    BY CountType DEF Behind

\* Counters.
LEMMA Counted ==
    ASSUME NEW f \in [Peers -> Nat], NEW p \in Peers
    PROVE  /\ [f EXCEPT ![p] = @ + 1] \in [Peers -> Nat]
           /\ f[p] > 0 => [f EXCEPT ![p] = @ - 1] \in [Peers -> Nat]
    OBVIOUS

(***************************************************************************)
(* The steps of the application.                                           *)
(***************************************************************************)
LEMMA KeepsStart ==
    ASSUME LoopbackInv, NEW p \in Peers, Start(p)
    PROVE  LoopbackInv'
    <1>1. PICK q : Before(p, q)
      BY BeforeStep
    <1>2. /\ ~started[p]
          /\ state[p] = "kClosed"
          /\ state' = Set(state, p, "kConnecting")
          /\ started' = Set(started, p, TRUE)
          /\ inbox' = Push(inbox, p, Event("_connect"))
          /\ UNCHANGED <<terminated, closes, io, hasSocket, writeable, sends, held>>
          /\ UNCHANGED <<driver, buffered, transit, phase, heard, asserted, lateClose>>
      BY DEF Start, ioVars, history
    <1>3. inbox' \in [Peers -> Seq(Driving)] /\ Pushed(inbox, inbox', p, "_connect")
      <2>1. PICK e \in Driving : e = Event("_connect") /\ e.name = "_connect"
        BY Posted
      <2>2. inbox' = Push(inbox, p, e)
        BY <1>1, <1>2, <2>1 DEF Before
      <2>3. inbox \in [Peers -> Seq(Driving)] /\ p \in Peers
        BY <1>1 DEF Before, TypeOK
      <2> QED  BY <2>1, <2>2, <2>3, AfterPush
    <1>4. /\ state'[p] = "kConnecting" /\ state'[q] = state[q]
          /\ started'[p] = TRUE /\ started'[q] = started[q]
      BY <1>1, <1>2, <1>3 DEF Before, TypeOK, Set
    <1>5. TypeOK'
      BY <1>1, <1>2, <1>3, <1>4 DEF Before, TypeOK, Set
    <1>6. Handshake(p)' /\ Handshake(q)'
      BY <1>1, <1>2, <1>3, <1>4 DEF Before, Pushed, PeerInv, Handshake, Pending, Begun
    <1>7. Receives(p)' /\ Receives(q)'
      BY <1>1, <1>2, <1>3, <1>4 DEF Before, Pushed, PeerInv, Receives, Pending, Begun, Working
    <1>8. Connecting(p)' /\ Connecting(q)'
      <2>1. Connecting(p)'
        <3>1. (Count(inbox[p], "_connect") <= 1)'
          BY <1>1, <1>2, <1>3, <1>4 DEF Before, Pushed, PeerInv, Connecting, Begun
        <3>2. (Count(inbox[p], "_connect") > 0 =>
                 started[p] /\ driver[p] \notin {"connecting", "connected"})'
          BY <1>1, <1>2, <1>3, <1>4 DEF Before, Pushed, PeerInv, Connecting, Begun
        <3>3. (driver[p] \in {"connecting", "connected"} => started[p])'
          BY <1>1, <1>2, <1>3, <1>4 DEF Before, Pushed, PeerInv, Connecting, Begun
        <3>4. (started[p] /\ ~terminated[p] => driver[p] \in Begun \/ Count(inbox[p], "_connect") > 0)'
          BY <1>1, <1>2, <1>3, <1>4 DEF Before, Pushed, PeerInv, Connecting, Begun
        <3>5. (~terminated[p] => driver[p] \in Begun \/ Behind(inbox[p], "_connect", "_close"))'
          BY <1>1, <1>2, <1>3, <1>4 DEF Before, Pushed, PeerInv, Connecting, Begun
        <3>6. (Count(io[p], "_close") > 0 => started[p])'
          BY <1>1, <1>2, <1>3, <1>4 DEF Before, Pushed, PeerInv, Connecting, Begun
        <3> QED  BY <3>1, <3>2, <3>3, <3>4, <3>5, <3>6 DEF Connecting
      <2>2. Connecting(q)'
        BY <1>1, <1>2, <1>3, <1>4 DEF Before, Pushed, PeerInv, Connecting, Begun
      <2> QED  BY <2>1, <2>2
    <1>9. Sending(p)' /\ Sending(q)'
      BY <1>1, <1>2, <1>3, <1>4 DEF Before, Pushed, PeerInv, Sending, Working
    <1>10. Telling(p)' /\ Telling(q)'
      BY <1>1, <1>2, <1>4 DEF Before, PeerInv, Telling
    <1>11. Counting(p)' /\ Counting(q)'
      <2>1. Unacknowledged(p)' = Unacknowledged(p) /\ Unacknowledged(q)' = Unacknowledged(q)
        BY <1>1, <1>2, <1>3, <1>4 DEF Before, Pushed, Unacknowledged
      <2>2. Unacknowledged(p) \in Nat /\ Unacknowledged(q) \in Nat
        BY <1>1 DEF Before, Unacknowledged
      <2>3. Counting(p)'
        BY <1>1, <1>2, <1>3, <1>4, <2>1, <2>2 DEF Before, Pushed, PeerInv, Counting, Working
      <2>4. Counting(q)'
        BY <1>1, <1>2, <1>3, <1>4, <2>1, <2>2 DEF Before, Pushed, PeerInv, Counting, Working
      <2> QED  BY <2>3, <2>4
    <1>12. Asserting(p)' /\ Asserting(q)'
      BY <1>1, <1>2, <1>4 DEF Before, PeerInv, Asserting
    <1> QED  BY <1>1, <1>5, <1>6, <1>7, <1>8, <1>9, <1>10, <1>11, <1>12, AfterStep DEF PeerInv

(***************************************************************************)
(* close() on the caller's thread.                                         *)
(***************************************************************************)
LEMMA KeepsClose ==
    ASSUME LoopbackInv, NEW p \in Peers, NEW code \in Codes, Close(p, code)
    PROVE  LoopbackInv'
    <1>1. PICK q : Before(p, q)
      BY BeforeStep
    <1>2. /\ started[p]
          /\ ~terminated[p]
          /\ closes' = [closes EXCEPT ![p] = @ + 1]
          /\ state' = Set(state, p, "kClosing")
          /\ io' = Push(io, p, CloseEvent("_close", code))
          /\ lateClose' = Set(lateClose, p, lateClose[p] \/ state[p] \in {"kClosed", "kDisconnected"})
          /\ UNCHANGED <<started, terminated, hasSocket, writeable, sends, held, inbox>>
          /\ UNCHANGED <<driver, buffered, transit, phase, heard, asserted>>
      BY DEF Close, wsVars
    <1>3. io' \in [Peers -> Seq(IoEvents)] /\ Pushed(io, io', p, "_close")
      <2>1. PICK e \in IoEvents : e = CloseEvent("_close", code) /\ e.name = "_close"
        BY Posted
      <2>2. io' = Push(io, p, e)
        BY <1>1, <1>2, <2>1 DEF Before
      <2>3. io \in [Peers -> Seq(IoEvents)] /\ p \in Peers
        BY <1>1 DEF Before, TypeOK
      <2> QED  BY <2>1, <2>2, <2>3, AfterPush
    <1>4. /\ state'[p] = "kClosing" /\ state'[q] = state[q]
          /\ (lateClose'[p] <=> lateClose[p] \/ state[p] \in {"kClosed", "kDisconnected"})
          /\ lateClose'[q] = lateClose[q]
      BY <1>1, <1>2, <1>3 DEF Before, TypeOK, Set
    <1>5. lateClose' \in [Peers -> BOOLEAN]
      BY <1>1, <1>2 DEF Before, TypeOK, Set
    <1>6. closes' \in [Peers -> Nat]
      BY <1>1, <1>2, Counted DEF Before, TypeOK
    <1>7. TypeOK'
      BY <1>1, <1>2, <1>3, <1>4, <1>5, <1>6 DEF Before, TypeOK, Set
    <1>8. Handshake(p)' /\ Handshake(q)'
      BY <1>1, <1>2, <1>4 DEF Before, PeerInv, Handshake, Pending, Begun
    <1>9. Receives(p)' /\ Receives(q)'
      BY <1>1, <1>2, <1>4 DEF Before, PeerInv, Receives, Pending, Begun, Working
    <1>10. Connecting(p)' /\ Connecting(q)'
      BY <1>1, <1>2, <1>3, <1>4 DEF Before, Pushed, PeerInv, Connecting, Begun
    <1>11. Sending(p)' /\ Sending(q)'
      BY <1>1, <1>2, <1>3, <1>4 DEF Before, Pushed, PeerInv, Sending, Working
    <1>12. Telling(p)' /\ Telling(q)'
      BY <1>1, <1>2, <1>3, <1>4 DEF Before, Pushed, PeerInv, Telling
    <1>13. Counting(p)' /\ Counting(q)'
      <2>1. Unacknowledged(p)' = Unacknowledged(p) /\ Unacknowledged(q)' = Unacknowledged(q)
        BY <1>1, <1>2, <1>3, <1>4 DEF Before, Pushed, Unacknowledged
      <2>2. Unacknowledged(p) \in Nat /\ Unacknowledged(q) \in Nat
        BY <1>1 DEF Before, Unacknowledged
      <2>3. Counting(p)'
        BY <1>1, <1>2, <1>3, <1>4, <2>1, <2>2 DEF Before, Pushed, PeerInv, Counting, Working
      <2>4. Counting(q)'
        BY <1>1, <1>2, <1>3, <1>4, <2>1, <2>2 DEF Before, Pushed, PeerInv, Counting, Working
      <2> QED  BY <2>3, <2>4
    <1>14. Asserting(p)' /\ Asserting(q)'
      BY <1>1, <1>2, <1>4 DEF Before, PeerInv, Asserting
    <1> QED  BY <1>1, <1>7, <1>8, <1>9, <1>10, <1>11, <1>12, <1>13, <1>14, AfterStep DEF PeerInv

(***************************************************************************)
(* terminate(), which may not be called after an abnormal end.             *)
(***************************************************************************)
LEMMA KeepsTerminate ==
    ASSUME LoopbackInv, NEW p \in Peers, Terminate(p)
    PROVE  LoopbackInv'
    <1>1. PICK q : Before(p, q)
      BY BeforeStep
    <1>2. CASE state[p] = "kClosed" /\ started[p]
      <2>1. /\ ~terminated[p]
            /\ terminated' = Set(terminated, p, TRUE)
            /\ started' = Set(started, p, TRUE)
            /\ hasSocket' = Set(hasSocket, p, hasSocket[p] /\ started[p])
            /\ UNCHANGED <<state, closes, io, writeable, sends, held, inbox>>
            /\ UNCHANGED <<driver, buffered, transit, phase, heard, asserted, lateClose>>
        BY <1>2 DEF Terminate
      <2>2. /\ terminated'[p] = TRUE /\ terminated'[q] = terminated[q]
            /\ started'[p] = TRUE /\ started'[q] = started[q]
        BY <1>1, <1>2, <2>1 DEF Before, TypeOK, Set
      <2>3. TypeOK'
        BY <1>1, <1>2, <2>1, <2>2 DEF Before, TypeOK, Set
      <2>4. Handshake(p)' /\ Handshake(q)'
        BY <1>1, <1>2, <2>1, <2>2 DEF Before, PeerInv, Handshake, Pending, Begun
      <2>5. Receives(p)' /\ Receives(q)'
        BY <1>1, <1>2, <2>1, <2>2 DEF Before, PeerInv, Receives, Pending, Begun, Working
      <2>6. Connecting(p)' /\ Connecting(q)'
        BY <1>1, <1>2, <2>1, <2>2 DEF Before, PeerInv, Connecting, Begun
      <2>7. Sending(p)' /\ Sending(q)'
        BY <1>1, <1>2, <2>1, <2>2 DEF Before, PeerInv, Sending, Working
      <2>8. Telling(p)' /\ Telling(q)'
        BY <1>1, <1>2, <2>1, <2>2 DEF Before, PeerInv, Telling
      <2>9. Counting(p)' /\ Counting(q)'
        <3>1. Unacknowledged(p)' = Unacknowledged(p) /\ Unacknowledged(q)' = Unacknowledged(q)
          BY <1>1, <1>2, <2>1, <2>2 DEF Before, Unacknowledged
        <3>2. Unacknowledged(p) \in Nat /\ Unacknowledged(q) \in Nat
          BY <1>1 DEF Before, Unacknowledged
        <3>3. Counting(p)'
          BY <1>1, <1>2, <2>1, <2>2, <3>1, <3>2 DEF Before, PeerInv, Counting, Working
        <3>4. Counting(q)'
          BY <1>1, <1>2, <2>1, <2>2, <3>1, <3>2 DEF Before, PeerInv, Counting, Working
        <3> QED  BY <3>3, <3>4
      <2>10. Asserting(p)' /\ Asserting(q)'
        BY <1>1, <1>2, <2>1, <2>2 DEF Before, PeerInv, Asserting
      <2> QED  BY <1>1, <2>3, <2>4, <2>5, <2>6, <2>7, <2>8, <2>9, <2>10, AfterStep DEF PeerInv
    <1>3. CASE state[p] = "kClosed" /\ ~started[p]
      <2>1. /\ ~terminated[p]
            /\ terminated' = Set(terminated, p, TRUE)
            /\ started' = Set(started, p, TRUE)
            /\ hasSocket' = Set(hasSocket, p, hasSocket[p] /\ started[p])
            /\ inbox' = Push(inbox, p, CloseEvent("_close", "normal"))
            /\ UNCHANGED <<state, closes, io, writeable, sends, held, driver>>
            /\ UNCHANGED <<buffered, transit, phase, heard, asserted, lateClose>>
        BY <1>3 DEF Terminate
      <2>2. inbox' \in [Peers -> Seq(Driving)] /\ Pushed(inbox, inbox', p, "_close")
        <3>1. PICK e \in Driving : e = CloseEvent("_close", "normal") /\ e.name = "_close"
          BY Posted
        <3>2. inbox' = Push(inbox, p, e)
          BY <1>1, <1>3, <2>1, <3>1 DEF Before
        <3>3. inbox \in [Peers -> Seq(Driving)] /\ p \in Peers
          BY <1>1 DEF Before, TypeOK
        <3> QED  BY <3>1, <3>2, <3>3, AfterPush
      <2>3. /\ terminated'[p] = TRUE /\ terminated'[q] = terminated[q]
            /\ started'[p] = TRUE /\ started'[q] = started[q]
        BY <1>1, <1>3, <2>1, <2>2 DEF Before, TypeOK, Set
      <2>4. TypeOK'
        BY <1>1, <1>3, <2>1, <2>2, <2>3 DEF Before, TypeOK, Set
      <2>5. Handshake(p)' /\ Handshake(q)'
        BY <1>1, <1>3, <2>1, <2>2, <2>3 DEF Before, Pushed, PeerInv, Handshake, Pending, Begun
      <2>6. Receives(p)' /\ Receives(q)'
        BY <1>1, <1>3, <2>1, <2>2, <2>3
        DEF Before, Pushed, PeerInv, Receives, Pending, Begun, Working
      <2>7. Connecting(p)' /\ Connecting(q)'
        BY <1>1, <1>3, <2>1, <2>2, <2>3 DEF Before, Pushed, PeerInv, Connecting, Begun
      <2>8. Sending(p)' /\ Sending(q)'
        BY <1>1, <1>3, <2>1, <2>2, <2>3 DEF Before, Pushed, PeerInv, Sending, Working
      <2>9. Telling(p)' /\ Telling(q)'
        BY <1>1, <1>3, <2>1, <2>3 DEF Before, PeerInv, Telling
      <2>10. Counting(p)' /\ Counting(q)'
        <3>1. Unacknowledged(p)' = Unacknowledged(p) /\ Unacknowledged(q)' = Unacknowledged(q)
          BY <1>1, <1>3, <2>1, <2>2, <2>3 DEF Before, Pushed, Unacknowledged
        <3>2. Unacknowledged(p) \in Nat /\ Unacknowledged(q) \in Nat
          BY <1>1 DEF Before, Unacknowledged
        <3>3. Counting(p)'
          BY <1>1, <1>3, <2>1, <2>2, <2>3, <3>1, <3>2 DEF Before, Pushed, PeerInv, Counting, Working
        <3>4. Counting(q)'
          BY <1>1, <1>3, <2>1, <2>2, <2>3, <3>1, <3>2 DEF Before, Pushed, PeerInv, Counting, Working
        <3> QED  BY <3>3, <3>4
      <2>11. Asserting(p)' /\ Asserting(q)'
        BY <1>1, <1>3, <2>1, <2>3 DEF Before, PeerInv, Asserting
      <2> QED  BY <1>1, <2>4, <2>5, <2>6, <2>7, <2>8, <2>9, <2>10, <2>11, AfterStep DEF PeerInv
    <1>4. CASE state[p] # "kClosed"
      <2>1. /\ ~terminated[p]
            /\ asserted' = [asserted EXCEPT ![p] = @ \union {"terminate"}]
            /\ UNCHANGED <<state, started, terminated, closes, io, hasSocket, writeable, sends>>
            /\ UNCHANGED <<held, inbox, driver, buffered, transit, phase, heard, lateClose>>
        BY <1>4 DEF Terminate
      <2>2. /\ asserted'[p] = asserted[p] \union {"terminate"}
            /\ asserted'[q] = asserted[q]
        BY <1>1, <1>4, <2>1 DEF Before, TypeOK, Set
      <2>3. TypeOK'
        BY <1>1, <1>4, <2>1, <2>2 DEF Before, TypeOK
      <2>4. Handshake(p)' /\ Handshake(q)'
        BY <1>1, <1>4, <2>1, <2>2 DEF Before, PeerInv, Handshake, Pending, Begun
      <2>5. Receives(p)' /\ Receives(q)'
        BY <1>1, <1>4, <2>1, <2>2 DEF Before, PeerInv, Receives, Pending, Begun, Working
      <2>6. Connecting(p)' /\ Connecting(q)'
        BY <1>1, <1>4, <2>1, <2>2 DEF Before, PeerInv, Connecting, Begun
      <2>7. Sending(p)' /\ Sending(q)'
        BY <1>1, <1>4, <2>1, <2>2 DEF Before, PeerInv, Sending, Working
      <2>8. Telling(p)' /\ Telling(q)'
        BY <1>1, <1>4, <2>1, <2>2 DEF Before, PeerInv, Telling
      <2>9. Counting(p)' /\ Counting(q)'
        <3>1. Unacknowledged(p)' = Unacknowledged(p) /\ Unacknowledged(q)' = Unacknowledged(q)
          BY <1>1, <1>4, <2>1, <2>2 DEF Before, Unacknowledged
        <3>2. Unacknowledged(p) \in Nat /\ Unacknowledged(q) \in Nat
          BY <1>1 DEF Before, Unacknowledged
        <3>3. Counting(p)'
          BY <1>1, <1>4, <2>1, <2>2, <3>1, <3>2 DEF Before, PeerInv, Counting, Working
        <3>4. Counting(q)'
          BY <1>1, <1>4, <2>1, <2>2, <3>1, <3>2 DEF Before, PeerInv, Counting, Working
        <3> QED  BY <3>3, <3>4
      <2>10. Asserting(p)' /\ Asserting(q)'
        BY <1>1, <1>4, <2>1, <2>2 DEF Before, PeerInv, Asserting
      <2> QED  BY <1>1, <2>3, <2>4, <2>5, <2>6, <2>7, <2>8, <2>9, <2>10, AfterStep DEF PeerInv
    <1> QED  BY <1>2, <1>3, <1>4

(***************************************************************************)
(* BLIPIO's steps.                                                         *)
(***************************************************************************)
LEMMA KeepsSend ==
    ASSUME LoopbackInv, NEW p \in Peers, Send(p)
    PROVE  LoopbackInv'
    <1>1. PICK q : Before(p, q)
      BY BeforeStep
    <1>2. CASE buffered[p] + 1 <= SendBuffer
      <2>1. buffered'[p] = buffered[p] + 1 /\ buffered[p] \in Nat /\ SendBuffer \in Nat
        BY <1>1 DEF Before, TypeOK, Send
      <2>2. (buffered'[p] <= SendBuffer) = TRUE
        BY <1>2, <2>1
      <2>3. /\ hasSocket[p]
            /\ writeable[p]
            /\ sends' = [sends EXCEPT ![p] = @ + 1]
            /\ buffered' = [buffered EXCEPT ![p] = @ + 1]
            /\ writeable' = Set(writeable, p, TRUE)
            /\ inbox' = Push(inbox, p, Event("_send"))
            /\ UNCHANGED <<state, started, terminated, closes, io, hasSocket, held>>
            /\ UNCHANGED <<driver, transit, phase, heard, asserted, lateClose>>
        BY <2>1, <2>2 DEF Send, appVars, history
      <2>4. inbox' \in [Peers -> Seq(Driving)] /\ Pushed(inbox, inbox', p, "_send")
        <3>1. PICK e \in Driving : e = Event("_send") /\ e.name = "_send"
          BY Posted
        <3>2. inbox' = Push(inbox, p, e)
          BY <1>1, <1>2, <2>3, <3>1 DEF Before
        <3>3. inbox \in [Peers -> Seq(Driving)] /\ p \in Peers
          BY <1>1 DEF Before, TypeOK
        <3> QED  BY <3>1, <3>2, <3>3, AfterPush
      <2>5. /\ buffered'[p] = buffered[p] + 1 /\ buffered'[q] = buffered[q]
            /\ writeable'[p] = TRUE /\ writeable'[q] = writeable[q]
        BY <1>1, <1>2, <2>3, <2>4 DEF Before, TypeOK, Set
      <2>6. sends' \in [Peers -> Nat]
        BY <1>1, <2>3, Counted DEF Before, TypeOK
      <2>7. buffered' \in [Peers -> Nat]
        BY <1>1, <2>3, Counted DEF Before, TypeOK
      <2>8. writeable' \in [Peers -> BOOLEAN]
        BY <1>1, <2>3 DEF Before, TypeOK, Set
      <2>9. TypeOK'
        BY <1>1, <1>2, <2>3, <2>4, <2>5, <2>6, <2>7, <2>8 DEF Before, TypeOK, Set
      <2>10. Handshake(p)' /\ Handshake(q)'
        BY <1>1, <1>2, <2>3, <2>4, <2>5 DEF Before, Pushed, PeerInv, Handshake, Pending, Begun
      <2>11. Receives(p)' /\ Receives(q)'
        BY <1>1, <1>2, <2>3, <2>4, <2>5
        DEF Before, Pushed, PeerInv, Receives, Pending, Begun, Working
      <2>12. Connecting(p)' /\ Connecting(q)'
        BY <1>1, <1>2, <2>3, <2>4, <2>5 DEF Before, Pushed, PeerInv, Connecting, Begun
      <2>13. Sending(p)' /\ Sending(q)'
        BY <1>1, <1>2, <2>3, <2>4, <2>5 DEF Before, Pushed, PeerInv, Sending, Working
      <2>14. Telling(p)' /\ Telling(q)'
        BY <1>1, <1>2, <2>3, <2>5 DEF Before, PeerInv, Telling
      <2>15. Counting(p)' /\ Counting(q)'
        <3>1. /\ Unacknowledged(p)' = Unacknowledged(p) + 1
              /\ Unacknowledged(q)' = Unacknowledged(q)
          <4>1. /\ Count(inbox'[p], "_send") = Count(inbox[p], "_send") + 1
                /\ Count(inbox'[p], "_received") = Count(inbox[p], "_received")
                /\ Count(inbox'[p], "_ack") = Count(inbox[p], "_ack")
                /\ Count(inbox'[q], "_send") = Count(inbox[q], "_send")
                /\ Count(inbox'[q], "_received") = Count(inbox[q], "_received")
                /\ Count(inbox'[q], "_ack") = Count(inbox[q], "_ack")
            BY <1>1, <1>2, <2>3, <2>4, <2>5 DEF Before, Pushed
          <4>2. /\ Other(p) = q /\ Other(q) = p /\ held[p] \in Nat /\ held[q] \in Nat
                /\ Count(inbox[p], "_send") \in Nat /\ Count(inbox[p], "_received") \in Nat
                /\ Count(inbox[p], "_ack") \in Nat
                /\ Count(inbox[q], "_send") \in Nat /\ Count(inbox[q], "_received") \in Nat
                /\ Count(inbox[q], "_ack") \in Nat
                /\ Count(transit[p], "_received") \in Nat
                /\ transit'[p] = transit[p]
                /\ Count(transit[q], "_received") \in Nat
                /\ transit'[q] = transit[q]
                /\ held'[p] = held[p]
                /\ held'[q] = held[q]
            BY <1>1, <2>3 DEF Before
          <4>3. Unacknowledged(p)' = Unacknowledged(p) + 1
            BY <2>5, <4>1, <4>2 DEF Unacknowledged
          <4>4. Unacknowledged(q)' = Unacknowledged(q)
            BY <2>5, <4>1, <4>2 DEF Unacknowledged
          <4> QED  BY <4>3, <4>4
        <3>2. Unacknowledged(p) \in Nat /\ Unacknowledged(q) \in Nat
          BY <1>1 DEF Before, Unacknowledged
        <3>3. Counting(p)'
          BY <1>1, <1>2, <2>3, <2>4, <2>5, <3>1, <3>2
          DEF Before, Pushed, PeerInv, Counting, Working, Sending
        <3>4. Counting(q)'
          BY <1>1, <1>2, <2>3, <2>4, <2>5, <3>1, <3>2
          DEF Before, Pushed, PeerInv, Counting, Working, Sending
        <3> QED  BY <3>3, <3>4
      <2>16. Asserting(p)' /\ Asserting(q)'
        BY <1>1, <1>2, <2>3, <2>5 DEF Before, PeerInv, Asserting
      <2> QED  BY <1>1, <2>9, <2>10, <2>11, <2>12, <2>13, <2>14, <2>15, <2>16, AfterStep DEF PeerInv
    <1>3. CASE ~(buffered[p] + 1 <= SendBuffer)
      <2>1. buffered'[p] = buffered[p] + 1 /\ buffered[p] \in Nat /\ SendBuffer \in Nat
        BY <1>1 DEF Before, TypeOK, Send
      <2>2. (buffered'[p] <= SendBuffer) = FALSE
        BY <1>3, <2>1
      <2>3. /\ hasSocket[p]
            /\ writeable[p]
            /\ sends' = [sends EXCEPT ![p] = @ + 1]
            /\ buffered' = [buffered EXCEPT ![p] = @ + 1]
            /\ writeable' = Set(writeable, p, FALSE)
            /\ inbox' = Push(inbox, p, Event("_send"))
            /\ UNCHANGED <<state, started, terminated, closes, io, hasSocket, held>>
            /\ UNCHANGED <<driver, transit, phase, heard, asserted, lateClose>>
        BY <2>1, <2>2 DEF Send, appVars, history
      <2>4. inbox' \in [Peers -> Seq(Driving)] /\ Pushed(inbox, inbox', p, "_send")
        <3>1. PICK e \in Driving : e = Event("_send") /\ e.name = "_send"
          BY Posted
        <3>2. inbox' = Push(inbox, p, e)
          BY <1>1, <1>3, <2>3, <3>1 DEF Before
        <3>3. inbox \in [Peers -> Seq(Driving)] /\ p \in Peers
          BY <1>1 DEF Before, TypeOK
        <3> QED  BY <3>1, <3>2, <3>3, AfterPush
      <2>5. /\ buffered'[p] = buffered[p] + 1 /\ buffered'[q] = buffered[q]
            /\ writeable'[p] = FALSE /\ writeable'[q] = writeable[q]
        BY <1>1, <1>3, <2>3, <2>4 DEF Before, TypeOK, Set
      <2>6. sends' \in [Peers -> Nat]
        BY <1>1, <2>3, Counted DEF Before, TypeOK
      <2>7. buffered' \in [Peers -> Nat]
        BY <1>1, <2>3, Counted DEF Before, TypeOK
      <2>8. writeable' \in [Peers -> BOOLEAN]
        BY <1>1, <2>3 DEF Before, TypeOK, Set
      <2>9. TypeOK'
        BY <1>1, <1>3, <2>3, <2>4, <2>5, <2>6, <2>7, <2>8 DEF Before, TypeOK, Set
      <2>10. Handshake(p)' /\ Handshake(q)'
        BY <1>1, <1>3, <2>3, <2>4, <2>5 DEF Before, Pushed, PeerInv, Handshake, Pending, Begun
      <2>11. Receives(p)' /\ Receives(q)'
        BY <1>1, <1>3, <2>3, <2>4, <2>5
        DEF Before, Pushed, PeerInv, Receives, Pending, Begun, Working
      <2>12. Connecting(p)' /\ Connecting(q)'
        BY <1>1, <1>3, <2>3, <2>4, <2>5 DEF Before, Pushed, PeerInv, Connecting, Begun
      <2>13. Sending(p)' /\ Sending(q)'
        BY <1>1, <1>3, <2>3, <2>4, <2>5 DEF Before, Pushed, PeerInv, Sending, Working
      <2>14. Telling(p)' /\ Telling(q)'
        BY <1>1, <1>3, <2>3, <2>5 DEF Before, PeerInv, Telling
      <2>15. Counting(p)' /\ Counting(q)'
        <3>1. /\ Unacknowledged(p)' = Unacknowledged(p) + 1
              /\ Unacknowledged(q)' = Unacknowledged(q)
          <4>1. /\ Count(inbox'[p], "_send") = Count(inbox[p], "_send") + 1
                /\ Count(inbox'[p], "_received") = Count(inbox[p], "_received")
                /\ Count(inbox'[p], "_ack") = Count(inbox[p], "_ack")
                /\ Count(inbox'[q], "_send") = Count(inbox[q], "_send")
                /\ Count(inbox'[q], "_received") = Count(inbox[q], "_received")
                /\ Count(inbox'[q], "_ack") = Count(inbox[q], "_ack")
            BY <1>1, <1>3, <2>3, <2>4, <2>5 DEF Before, Pushed
          <4>2. /\ Other(p) = q /\ Other(q) = p /\ held[p] \in Nat /\ held[q] \in Nat
                /\ Count(inbox[p], "_send") \in Nat /\ Count(inbox[p], "_received") \in Nat
                /\ Count(inbox[p], "_ack") \in Nat
                /\ Count(inbox[q], "_send") \in Nat /\ Count(inbox[q], "_received") \in Nat
                /\ Count(inbox[q], "_ack") \in Nat
                /\ Count(transit[p], "_received") \in Nat
                /\ transit'[p] = transit[p]
                /\ Count(transit[q], "_received") \in Nat
                /\ transit'[q] = transit[q]
                /\ held'[p] = held[p]
                /\ held'[q] = held[q]
            BY <1>1, <2>3 DEF Before
          <4>3. Unacknowledged(p)' = Unacknowledged(p) + 1
            BY <2>5, <4>1, <4>2 DEF Unacknowledged
          <4>4. Unacknowledged(q)' = Unacknowledged(q)
            BY <2>5, <4>1, <4>2 DEF Unacknowledged
          <4> QED  BY <4>3, <4>4
        <3>2. Unacknowledged(p) \in Nat /\ Unacknowledged(q) \in Nat
          BY <1>1 DEF Before, Unacknowledged
        <3>3. Counting(p)'
          <4>1. (driver[p] # "closed" => buffered[p] = Unacknowledged(p))'
            BY <1>1, <1>3, <2>3, <2>4, <2>5, <3>1, <3>2
            DEF Before, Pushed, PeerInv, Counting, Working, Sending
          <4>2. (driver[p] \notin Working => buffered[p] = 0)'
            BY <1>1, <1>3, <2>3, <2>4, <2>5, <3>1, <3>2
            DEF Before, Pushed, PeerInv, Counting, Working, Sending
          <4>3. (driver[p] = "connected" /\ ~writeable[p] =>
                   buffered[p] > SendBuffer \/ Count(io[p], "_onWebSocketWriteable") > 0)'
            BY <1>1, <1>3, <2>3, <2>4, <2>5, <3>1, <3>2
            DEF Before, Pushed, PeerInv, Counting, Working, Sending
          <4> QED  BY <4>1, <4>2, <4>3 DEF Counting
        <3>4. Counting(q)'
          BY <1>1, <1>3, <2>3, <2>4, <2>5, <3>1, <3>2
          DEF Before, Pushed, PeerInv, Counting, Working, Sending
        <3> QED  BY <3>3, <3>4
      <2>16. Asserting(p)' /\ Asserting(q)'
        BY <1>1, <1>3, <2>3, <2>5 DEF Before, PeerInv, Asserting
      <2> QED  BY <1>1, <2>9, <2>10, <2>11, <2>12, <2>13, <2>14, <2>15, <2>16, AfterStep DEF PeerInv
    <1> QED  BY <1>2, <1>3

(***************************************************************************)
(* A message that is released is acknowledged to the other end.            *)
(***************************************************************************)
LEMMA KeepsRelease ==
    ASSUME LoopbackInv, NEW p \in Peers, Release(p)
    PROVE  LoopbackInv'
    <1>1. PICK q : Before(p, q)
      BY BeforeStep
    <1>2. /\ held[p] > 0
          /\ held' = [held EXCEPT ![p] = @ - 1]
          /\ inbox' = Push(inbox, Other(p), Event("_ack"))
          /\ UNCHANGED <<state, started, terminated, closes, io, hasSocket, writeable, sends>>
          /\ UNCHANGED <<driver, buffered, transit, phase, heard, asserted, lateClose>>
      BY DEF Release, appVars, history
    <1>3. inbox' \in [Peers -> Seq(Driving)] /\ Pushed(inbox, inbox', q, "_ack")
      <2>1. PICK e \in Driving : e = Event("_ack") /\ e.name = "_ack"
        BY Posted
      <2>2. inbox' = Push(inbox, q, e)
        BY <1>1, <1>2, <2>1 DEF Before
      <2>3. inbox \in [Peers -> Seq(Driving)] /\ q \in Peers
        BY <1>1 DEF Before, TypeOK
      <2> QED  BY <2>1, <2>2, <2>3, AfterPush
    <1>4. /\ held'[p] = held[p] - 1 /\ held'[q] = held[q]
          /\ held'[p] \in Nat /\ held[p] = held'[p] + 1
      BY <1>1, <1>2, <1>3 DEF Before, TypeOK, Set
    <1>5. held' \in [Peers -> Nat]
      BY <1>1, <1>2, Counted DEF Before, TypeOK
    <1>6. TypeOK'
      BY <1>1, <1>2, <1>3, <1>4, <1>5 DEF Before, TypeOK
    <1>7. Handshake(p)' /\ Handshake(q)'
      BY <1>1, <1>2, <1>3, <1>4 DEF Before, Pushed, PeerInv, Handshake, Pending, Begun
    <1>8. Receives(p)' /\ Receives(q)'
      BY <1>1, <1>2, <1>3, <1>4 DEF Before, Pushed, PeerInv, Receives, Pending, Begun, Working
    <1>9. Connecting(p)' /\ Connecting(q)'
      BY <1>1, <1>2, <1>3, <1>4 DEF Before, Pushed, PeerInv, Connecting, Begun
    <1>10. Sending(p)' /\ Sending(q)'
      BY <1>1, <1>2, <1>3, <1>4 DEF Before, Pushed, PeerInv, Sending, Working
    <1>11. Telling(p)' /\ Telling(q)'
      BY <1>1, <1>2, <1>4 DEF Before, PeerInv, Telling
    <1>12. Counting(p)' /\ Counting(q)'
      <2>1. /\ Unacknowledged(p)' = Unacknowledged(p)
            /\ Unacknowledged(q)' = Unacknowledged(q)
        <3>1. /\ Count(inbox'[p], "_send") = Count(inbox[p], "_send")
              /\ Count(inbox'[p], "_received") = Count(inbox[p], "_received")
              /\ Count(inbox'[p], "_ack") = Count(inbox[p], "_ack")
              /\ Count(inbox'[q], "_send") = Count(inbox[q], "_send")
              /\ Count(inbox'[q], "_received") = Count(inbox[q], "_received")
              /\ Count(inbox'[q], "_ack") = Count(inbox[q], "_ack") + 1
          BY <1>1, <1>2, <1>3, <1>4 DEF Before, Pushed
        <3>2. /\ Other(p) = q /\ Other(q) = p /\ held[p] \in Nat /\ held[q] \in Nat
              /\ Count(inbox[p], "_send") \in Nat /\ Count(inbox[p], "_received") \in Nat
              /\ Count(inbox[p], "_ack") \in Nat
              /\ Count(inbox[q], "_send") \in Nat /\ Count(inbox[q], "_received") \in Nat
              /\ Count(inbox[q], "_ack") \in Nat
              /\ Count(transit[p], "_received") \in Nat
              /\ transit'[p] = transit[p]
              /\ Count(transit[q], "_received") \in Nat
              /\ transit'[q] = transit[q]
          BY <1>1, <1>2 DEF Before
        <3>3. Unacknowledged(p)' = Unacknowledged(p)
          BY <1>4, <3>1, <3>2 DEF Unacknowledged
        <3>4. Unacknowledged(q)' = Unacknowledged(q)
          <4>1. Unacknowledged(q) = Count(inbox[q], "_send") + Count(transit[p], "_received")
                     + Count(inbox[p], "_received") + held[p] + Count(inbox[q], "_ack")
            BY <3>2 DEF Unacknowledged
          <4>2. Unacknowledged(q)' = Count(inbox'[q], "_send") + Count(transit'[p], "_received")
                     + Count(inbox'[p], "_received") + held'[p] + Count(inbox'[q], "_ack")
            BY <3>2 DEF Unacknowledged
          <4>3. \A a, b, c, d, e \in Nat : a + b + c + d + (e + 1) = a + b + c + (d + 1) + e
            OBVIOUS
          <4>4. Unacknowledged(q) = Count(inbox[q], "_send") + Count(transit[p], "_received")
                     + Count(inbox[p], "_received") + (held'[p] + 1) + Count(inbox[q], "_ack")
            BY <1>4, <4>1
          <4>5. Unacknowledged(q)' = Count(inbox[q], "_send") + Count(transit[p], "_received")
                     + Count(inbox[p], "_received") + held'[p] + (Count(inbox[q], "_ack") + 1)
            BY <3>1, <3>2, <4>2
          <4>6. Count(inbox[q], "_send") + Count(transit[p], "_received")
                     + Count(inbox[p], "_received") + held'[p] + (Count(inbox[q], "_ack") + 1)
               = Count(inbox[q], "_send") + Count(transit[p], "_received")
                     + Count(inbox[p], "_received") + (held'[p] + 1) + Count(inbox[q], "_ack")
            BY <1>4, <3>2, <4>3
          <4> QED  BY <4>4, <4>5, <4>6
        <3> QED  BY <3>3, <3>4
      <2>2. Unacknowledged(p) \in Nat /\ Unacknowledged(q) \in Nat
        BY <1>1 DEF Before, Unacknowledged
      <2>3. Counting(p)'
        BY <1>1, <1>2, <1>3, <1>4, <2>1, <2>2 DEF Before, Pushed, PeerInv, Counting, Working
      <2>4. Counting(q)'
        BY <1>1, <1>2, <1>3, <1>4, <2>1, <2>2 DEF Before, Pushed, PeerInv, Counting, Working
      <2> QED  BY <2>3, <2>4
    <1>13. Asserting(p)' /\ Asserting(q)'
      BY <1>1, <1>2, <1>4 DEF Before, PeerInv, Asserting
    <1> QED  BY <1>1, <1>6, <1>7, <1>8, <1>9, <1>10, <1>11, <1>12, <1>13, AfterStep DEF PeerInv

(***************************************************************************)
(* BLIPIO may send again.                                                  *)
(***************************************************************************)
LEMMA KeepsOnWriteable ==
    ASSUME LoopbackInv, NEW p \in Peers, OnWriteable(p)
    PROVE  LoopbackInv'
    <1>1. PICK q : Before(p, q)
      BY BeforeStep
    <1>2. /\ Head(io[p]).name = "_onWebSocketWriteable"
          /\ io[p] # <<>>
          /\ io' = Pop(io, p)
          /\ writeable' = Set(writeable, p, TRUE)
          /\ UNCHANGED <<state, started, terminated, closes, hasSocket, sends, held, inbox>>
          /\ UNCHANGED <<driver, buffered, transit, phase, heard, asserted, lateClose>>
      BY DEF OnWriteable, Next1, appVars, wsVars, history
    <1>3. io' \in [Peers -> Seq(IoEvents)] /\ Popped(io, io', p, "_onWebSocketWriteable")
      BY <1>1, <1>2, AfterPop DEF Before, TypeOK
    <1>4. writeable'[p] = TRUE /\ writeable'[q] = writeable[q]
      BY <1>1, <1>2, <1>3 DEF Before, TypeOK, Set
    <1>5. TypeOK'
      BY <1>1, <1>2, <1>3, <1>4 DEF Before, TypeOK, Set
    <1>6. Handshake(p)' /\ Handshake(q)'
      BY <1>1, <1>2, <1>4 DEF Before, PeerInv, Handshake, Pending, Begun
    <1>7. Receives(p)' /\ Receives(q)'
      BY <1>1, <1>2, <1>4 DEF Before, PeerInv, Receives, Pending, Begun, Working
    <1>8. Connecting(p)' /\ Connecting(q)'
      BY <1>1, <1>2, <1>3, <1>4 DEF Before, Popped, PeerInv, Connecting, Begun
    <1>9. Sending(p)' /\ Sending(q)'
      BY <1>1, <1>2, <1>3, <1>4 DEF Before, Popped, PeerInv, Sending, Working
    <1>10. Telling(p)' /\ Telling(q)'
      BY <1>1, <1>2, <1>3, <1>4 DEF Before, Popped, PeerInv, Telling
    <1>11. Counting(p)' /\ Counting(q)'
      <2>1. Unacknowledged(p)' = Unacknowledged(p) /\ Unacknowledged(q)' = Unacknowledged(q)
        BY <1>1, <1>2, <1>3, <1>4 DEF Before, Popped, Unacknowledged
      <2>2. Unacknowledged(p) \in Nat /\ Unacknowledged(q) \in Nat
        BY <1>1 DEF Before, Unacknowledged
      <2>3. Counting(p)'
        BY <1>1, <1>2, <1>3, <1>4, <2>1, <2>2 DEF Before, Popped, PeerInv, Counting, Working
      <2>4. Counting(q)'
        BY <1>1, <1>2, <1>3, <1>4, <2>1, <2>2 DEF Before, Popped, PeerInv, Counting, Working
      <2> QED  BY <2>3, <2>4
    <1>12. Asserting(p)' /\ Asserting(q)'
      BY <1>1, <1>2, <1>4 DEF Before, PeerInv, Asserting
    <1> QED  BY <1>1, <1>5, <1>6, <1>7, <1>8, <1>9, <1>10, <1>11, <1>12, AfterStep DEF PeerInv

(***************************************************************************)
(* BLIPIO asks the Driver to close.                                        *)
(***************************************************************************)
LEMMA KeepsOnClose ==
    ASSUME LoopbackInv, NEW p \in Peers, OnClose(p)
    PROVE  LoopbackInv'
    <1>1. PICK q : Before(p, q)
      BY BeforeStep
    <1>2. CASE hasSocket[p]
      <2>1. /\ Head(io[p]).name = "_close"
            /\ io[p] # <<>>
            /\ io' = Pop(io, p)
            /\ inbox' = Push(inbox, p, CloseEvent("_close", Head(io[p]).code))
            /\ UNCHANGED <<state, started, terminated, closes, hasSocket, writeable, sends, held>>
            /\ UNCHANGED <<driver, buffered, transit, phase, heard, asserted, lateClose>>
        BY <1>2 DEF OnClose, Next1, appVars, history
      <2>2. io' \in [Peers -> Seq(IoEvents)] /\ Popped(io, io', p, "_close")
        BY <1>1, <1>2, <2>1, AfterPop DEF Before, TypeOK
      <2>3. PICK code : code = Head(io[p]).code /\ code \in Codes \union {"none", "normal"}
        BY <1>1, <2>1, AfterPop, CodeOf DEF Before, TypeOK
      <2>4. inbox' \in [Peers -> Seq(Driving)] /\ Pushed(inbox, inbox', p, "_close")
        <3>1. PICK e \in Driving : e = CloseEvent("_close", code) /\ e.name = "_close"
          BY <2>3, Posted
        <3>2. inbox' = Push(inbox, p, e)
          BY <1>1, <1>2, <2>1, <2>2, <2>3, <3>1 DEF Before
        <3>3. inbox \in [Peers -> Seq(Driving)] /\ p \in Peers
          BY <1>1 DEF Before, TypeOK
        <3> QED  BY <3>1, <3>2, <3>3, AfterPush
      <2>5. TypeOK'
        BY <1>1, <1>2, <2>1, <2>2, <2>3, <2>4 DEF Before, TypeOK
      <2>6. Handshake(p)' /\ Handshake(q)'
        BY <1>1, <1>2, <2>1, <2>4 DEF Before, Pushed, PeerInv, Handshake, Pending, Begun
      <2>7. Receives(p)' /\ Receives(q)'
        BY <1>1, <1>2, <2>1, <2>4 DEF Before, Pushed, PeerInv, Receives, Pending, Begun, Working
      <2>8. Connecting(p)' /\ Connecting(q)'
        BY <1>1, <1>2, <2>1, <2>2, <2>4 DEF Before, Popped, Pushed, PeerInv, Connecting, Begun
      <2>9. Sending(p)' /\ Sending(q)'
        BY <1>1, <1>2, <2>1, <2>2, <2>4 DEF Before, Popped, Pushed, PeerInv, Sending, Working
      <2>10. Telling(p)' /\ Telling(q)'
        BY <1>1, <1>2, <2>1, <2>2 DEF Before, Popped, PeerInv, Telling
      <2>11. Counting(p)' /\ Counting(q)'
        <3>1. Unacknowledged(p)' = Unacknowledged(p) /\ Unacknowledged(q)' = Unacknowledged(q)
          BY <1>1, <1>2, <2>1, <2>2, <2>4 DEF Before, Popped, Pushed, Unacknowledged
        <3>2. Unacknowledged(p) \in Nat /\ Unacknowledged(q) \in Nat
          BY <1>1 DEF Before, Unacknowledged
        <3>3. Counting(p)'
          BY <1>1, <1>2, <2>1, <2>2, <2>4, <3>1, <3>2
          DEF Before, Popped, Pushed, PeerInv, Counting, Working
        <3>4. Counting(q)'
          BY <1>1, <1>2, <2>1, <2>2, <2>4, <3>1, <3>2
          DEF Before, Popped, Pushed, PeerInv, Counting, Working
        <3> QED  BY <3>3, <3>4
      <2>12. Asserting(p)' /\ Asserting(q)'
        BY <1>1, <1>2, <2>1 DEF Before, PeerInv, Asserting
      <2> QED  BY <1>1, <2>5, <2>6, <2>7, <2>8, <2>9, <2>10, <2>11, <2>12, AfterStep DEF PeerInv
    <1>3. CASE ~hasSocket[p]
      <2>1. /\ Head(io[p]).name = "_close"
            /\ io[p] # <<>>
            /\ io' = Pop(io, p)
            /\ UNCHANGED <<state, started, terminated, closes, hasSocket, writeable, sends, held>>
            /\ UNCHANGED <<inbox, driver, buffered, transit, phase, heard, asserted, lateClose>>
        BY <1>3 DEF OnClose, Next1, appVars, history
      <2>2. io' \in [Peers -> Seq(IoEvents)] /\ Popped(io, io', p, "_close")
        BY <1>1, <1>3, <2>1, AfterPop DEF Before, TypeOK
      <2>3. TypeOK'
        BY <1>1, <1>3, <2>1, <2>2 DEF Before, TypeOK
      <2>4. Handshake(p)' /\ Handshake(q)'
        BY <1>1, <1>3, <2>1 DEF Before, PeerInv, Handshake, Pending, Begun
      <2>5. Receives(p)' /\ Receives(q)'
        BY <1>1, <1>3, <2>1 DEF Before, PeerInv, Receives, Pending, Begun, Working
      <2>6. Connecting(p)' /\ Connecting(q)'
        BY <1>1, <1>3, <2>1, <2>2 DEF Before, Popped, PeerInv, Connecting, Begun
      <2>7. Sending(p)' /\ Sending(q)'
        BY <1>1, <1>3, <2>1, <2>2 DEF Before, Popped, PeerInv, Sending, Working
      <2>8. Telling(p)' /\ Telling(q)'
        BY <1>1, <1>3, <2>1, <2>2 DEF Before, Popped, PeerInv, Telling
      <2>9. Counting(p)' /\ Counting(q)'
        <3>1. Unacknowledged(p)' = Unacknowledged(p) /\ Unacknowledged(q)' = Unacknowledged(q)
          BY <1>1, <1>3, <2>1, <2>2 DEF Before, Popped, Unacknowledged
        <3>2. Unacknowledged(p) \in Nat /\ Unacknowledged(q) \in Nat
          BY <1>1 DEF Before, Unacknowledged
        <3>3. Counting(p)'
          BY <1>1, <1>3, <2>1, <2>2, <3>1, <3>2 DEF Before, Popped, PeerInv, Counting, Working
        <3>4. Counting(q)'
          BY <1>1, <1>3, <2>1, <2>2, <3>1, <3>2 DEF Before, Popped, PeerInv, Counting, Working
        <3> QED  BY <3>3, <3>4
      <2>10. Asserting(p)' /\ Asserting(q)'
        BY <1>1, <1>3, <2>1 DEF Before, PeerInv, Asserting
      <2> QED  BY <1>1, <2>3, <2>4, <2>5, <2>6, <2>7, <2>8, <2>9, <2>10, AfterStep DEF PeerInv
    <1> QED  BY <1>2, <1>3

(***************************************************************************)
(* Connection::closed, on BLIPIO's thread.                                 *)
(***************************************************************************)
LEMMA KeepsOnClosed ==
    ASSUME LoopbackInv, NEW p \in Peers, OnClosed(p)
    PROVE  LoopbackInv'
    <1>1. PICK q : Before(p, q)
      BY BeforeStep
    <1>2. /\ Head(io[p]).name = "_closed"
          /\ io[p] # <<>>
          /\ io' = Pop(io, p)
          /\ hasSocket' = Set(hasSocket, p, FALSE)
          /\ state' = Set(state, p, FinalState(p, Head(io[p]).code))
          /\ UNCHANGED <<started, terminated, closes, writeable, sends, held, inbox>>
          /\ UNCHANGED <<driver, buffered, transit, phase, heard, asserted, lateClose>>
      BY DEF OnClosed, Next1, wsVars, history
    <1>3. io' \in [Peers -> Seq(IoEvents)] /\ Popped(io, io', p, "_closed")
      BY <1>1, <1>2, AfterPop DEF Before, TypeOK
    <1>4. PICK s \in {"kClosed", "kDisconnected"} : s = FinalState(p, Head(io[p]).code)
      BY DEF FinalState
    <1>5. state'[p] = s /\ state'[q] = state[q]
      BY <1>1, <1>2, <1>3, <1>4 DEF Before, TypeOK, Set
    <1>6. TypeOK'
      BY <1>1, <1>2, <1>3, <1>4, <1>5 DEF Before, TypeOK, Set
    <1>7. Handshake(p)' /\ Handshake(q)'
      BY <1>1, <1>2, <1>4, <1>5 DEF Before, PeerInv, Handshake, Pending, Begun
    <1>8. Receives(p)' /\ Receives(q)'
      BY <1>1, <1>2, <1>4, <1>5 DEF Before, PeerInv, Receives, Pending, Begun, Working
    <1>9. Connecting(p)' /\ Connecting(q)'
      BY <1>1, <1>2, <1>3, <1>4, <1>5 DEF Before, Popped, PeerInv, Connecting, Begun
    <1>10. Sending(p)' /\ Sending(q)'
      BY <1>1, <1>2, <1>3, <1>4, <1>5 DEF Before, Popped, PeerInv, Sending, Working
    <1>11. Telling(p)' /\ Telling(q)'
      BY <1>1, <1>2, <1>3, <1>4, <1>5 DEF Before, Popped, PeerInv, Telling
    <1>12. Counting(p)' /\ Counting(q)'
      <2>1. Unacknowledged(p)' = Unacknowledged(p) /\ Unacknowledged(q)' = Unacknowledged(q)
        BY <1>1, <1>2, <1>3, <1>4, <1>5 DEF Before, Popped, Unacknowledged
      <2>2. Unacknowledged(p) \in Nat /\ Unacknowledged(q) \in Nat
        BY <1>1 DEF Before, Unacknowledged
      <2>3. Counting(p)'
        BY <1>1, <1>2, <1>3, <1>4, <1>5, <2>1, <2>2 DEF Before, Popped, PeerInv, Counting, Working
      <2>4. Counting(q)'
        BY <1>1, <1>2, <1>3, <1>4, <1>5, <2>1, <2>2 DEF Before, Popped, PeerInv, Counting, Working
      <2> QED  BY <2>3, <2>4
    <1>13. Asserting(p)' /\ Asserting(q)'
      BY <1>1, <1>2, <1>4, <1>5 DEF Before, PeerInv, Asserting
    <1> QED  BY <1>1, <1>6, <1>7, <1>8, <1>9, <1>10, <1>11, <1>12, <1>13, AfterStep DEF PeerInv

(***************************************************************************)
(* The Driver's steps.                                                     *)
(***************************************************************************)
LEMMA KeepsConnect ==
    ASSUME LoopbackInv, NEW p \in Peers, _connect(p)
    PROVE  LoopbackInv'
    <1>1. PICK q : Before(p, q)
      BY BeforeStep
    <1>2. CASE driver[p] = "unconnected"
      <2>1. /\ Head(inbox[p]).name = "_connect"
            /\ inbox[p] # <<>>
            /\ inbox' = Pop(inbox, p)
            /\ transit' = Push(transit, Other(p), Event("_peerIsConnecting"))
            /\ driver' = Set(driver, p, "connecting")
            /\ UNCHANGED <<state, started, terminated, closes, io, hasSocket, writeable>>
            /\ UNCHANGED <<sends, held, buffered, phase, heard, asserted, lateClose>>
        BY <1>2 DEF _connect, Driven, Next1, Connects, ConnectCompleted, Fails, appVars, ioVars
      <2>2. inbox' \in [Peers -> Seq(Driving)] /\ Popped(inbox, inbox', p, "_connect")
        BY <1>1, <1>2, <2>1, AfterPop DEF Before, TypeOK
      <2>3. transit' \in [Peers -> Seq(Sent)] /\ Pushed(transit, transit', q, "_peerIsConnecting")
        <3>1. PICK e \in Sent : e = Event("_peerIsConnecting") /\ e.name = "_peerIsConnecting"
          BY Posted
        <3>2. transit' = Push(transit, q, e)
          BY <1>1, <1>2, <2>1, <2>2, <3>1 DEF Before
        <3>3. transit \in [Peers -> Seq(Sent)] /\ q \in Peers
          BY <1>1 DEF Before, TypeOK
        <3> QED  BY <3>1, <3>2, <3>3, AfterPush
      <2>4. driver'[p] = "connecting" /\ driver'[q] = driver[q]
        BY <1>1, <1>2, <2>1, <2>2, <2>3 DEF Before, TypeOK, Set
      <2>5. TypeOK'
        BY <1>1, <1>2, <2>1, <2>2, <2>3, <2>4 DEF Before, TypeOK, Set
      <2>6. Pending(q, "_peerIsConnecting") = 0 /\ Pending(q, "_peerIsConnecting")' = 1
        <3>1. ~(Pending(q, "_peerIsConnecting") > 0)
          BY <1>1, <1>2 DEF Before, PeerInv, Handshake, Begun
        <3>2. Count(inbox[q], "_peerIsConnecting") = 0 /\ Count(transit[q], "_peerIsConnecting") = 0
          BY <1>1, <3>1 DEF Before, Pending
        <3>3. inbox'[q] = inbox[q] /\ Count(transit'[q], "_peerIsConnecting") = 1
          BY <1>1, <2>2, <2>3, <3>2 DEF Before, Popped, Pushed
        <3> QED  BY <3>2, <3>3 DEF Pending
      <2>7. driver[q] \in {"unconnected", "connecting", "closed"}
        BY <1>1, <1>2 DEF Before, TypeOK, PeerInv, Handshake, Begun
      <2>8. Count(inbox[p], "_connect") = 1 /\ Count(inbox'[p], "_connect") = 0
        BY <1>1, <2>2 DEF Before, Popped, PeerInv, Connecting
      <2>9. Handshake(p)' /\ Handshake(q)'
        <3>1. Handshake(p)'
          BY <1>1, <1>2, <2>1, <2>2, <2>3, <2>4, <2>6, <2>7, <2>8
          DEF Before, Popped, Pushed, PeerInv, Handshake, Pending, Begun
        <3>2. Handshake(q)'
          <4>1. (Pending(q, "_peerIsConnecting") <= 1)'
            BY <1>1, <1>2, <2>1, <2>2, <2>3, <2>4, <2>6, <2>7, <2>8
            DEF Before, Popped, Pushed, PeerInv, Handshake, Pending, Begun
          <4>2. (Pending(q, "_peerIsConnecting") > 0 =>
                   driver[Other(q)] \in Begun /\ driver[q] \in {"unconnected", "connecting", "closed"})'
            BY <1>1, <1>2, <2>1, <2>2, <2>3, <2>4, <2>6, <2>7, <2>8
            DEF Before, Popped, Pushed, PeerInv, Handshake, Pending, Begun
          <4>3. (driver[q] \in {"peerConnecting", "connected"} => driver[Other(q)] \in Begun)'
            BY <1>1, <1>2, <2>1, <2>2, <2>3, <2>4, <2>6, <2>7, <2>8
            DEF Before, Popped, Pushed, PeerInv, Handshake, Pending, Begun
          <4>4. (driver[Other(q)] \in {"connecting", "connected"} =>
                   Pending(q, "_peerIsConnecting") > 0
                   \/ driver[q] \in {"peerConnecting", "connected", "closed"})'
            BY <1>1, <1>2, <2>1, <2>2, <2>3, <2>4, <2>6, <2>7, <2>8
            DEF Before, Popped, Pushed, PeerInv, Handshake, Pending, Begun
          <4> QED  BY <4>1, <4>2, <4>3, <4>4 DEF Handshake
        <3> QED  BY <3>1, <3>2
      <2>10. Receives(p)' /\ Receives(q)'
        BY <1>1, <1>2, <2>1, <2>2, <2>3, <2>4, <2>6, <2>7, <2>8
        DEF Before, Popped, Pushed, PeerInv, Receives, Pending, Begun, Working
      <2>11. Connecting(p)' /\ Connecting(q)'
        BY <1>1, <1>2, <2>1, <2>2, <2>4, <2>6, <2>7, <2>8
        DEF Before, Popped, PeerInv, Connecting, Begun
      <2>12. Sending(p)' /\ Sending(q)'
        BY <1>1, <1>2, <2>1, <2>2, <2>4, <2>6, <2>7, <2>8
        DEF Before, Popped, PeerInv, Sending, Working
      <2>13. Telling(p)' /\ Telling(q)'
        BY <1>1, <1>2, <2>1, <2>4, <2>6, <2>7, <2>8 DEF Before, PeerInv, Telling
      <2>14. Counting(p)' /\ Counting(q)'
        <3>1. Unacknowledged(p)' = Unacknowledged(p) /\ Unacknowledged(q)' = Unacknowledged(q)
          BY <1>1, <1>2, <2>1, <2>2, <2>3, <2>4, <2>6, <2>7, <2>8
          DEF Before, Popped, Pushed, Unacknowledged
        <3>2. Unacknowledged(p) \in Nat /\ Unacknowledged(q) \in Nat
          BY <1>1 DEF Before, Unacknowledged
        <3>3. Counting(p)'
          BY <1>1, <1>2, <2>1, <2>2, <2>3, <2>4, <2>6, <2>7, <2>8, <3>1, <3>2
          DEF Before, Popped, Pushed, PeerInv, Counting, Working
        <3>4. Counting(q)'
          BY <1>1, <1>2, <2>1, <2>2, <2>3, <2>4, <2>6, <2>7, <2>8, <3>1, <3>2
          DEF Before, Popped, Pushed, PeerInv, Counting, Working
        <3> QED  BY <3>3, <3>4
      <2>15. Asserting(p)' /\ Asserting(q)'
        BY <1>1, <1>2, <2>1, <2>4, <2>6, <2>7, <2>8 DEF Before, PeerInv, Asserting
      <2> QED  BY <1>1, <2>5, <2>9, <2>10, <2>11, <2>12, <2>13, <2>14, <2>15, AfterStep DEF PeerInv
    <1>3. CASE driver[p] = "peerConnecting"
      <2>1. /\ Head(inbox[p]).name = "_connect"
            /\ inbox[p] # <<>>
            /\ driver' = Set(driver, p, "connected")
            /\ state' = Set(state, p, "kConnected")
            /\ phase' = Set(phase, p, "open")
            /\ heard' = [heard EXCEPT ![p] = @ + 1]
            /\ io' = Push(io, p, Event("_onWebSocketWriteable"))
            /\ inbox' = Pop(inbox, p)
            /\ transit' = Push(transit, Other(p), Event("_peerIsConnecting"))
            /\ UNCHANGED <<started, terminated, closes, hasSocket, writeable>>
            /\ UNCHANGED <<sends, held, buffered, asserted, lateClose>>
        BY <1>3 DEF _connect, Driven, Next1, Connects, ConnectCompleted, Fails, appVars, ioVars
      <2>2. inbox' \in [Peers -> Seq(Driving)] /\ Popped(inbox, inbox', p, "_connect")
        BY <1>1, <1>3, <2>1, AfterPop DEF Before, TypeOK
      <2>3. transit' \in [Peers -> Seq(Sent)] /\ Pushed(transit, transit', q, "_peerIsConnecting")
        <3>1. PICK e \in Sent : e = Event("_peerIsConnecting") /\ e.name = "_peerIsConnecting"
          BY Posted
        <3>2. transit' = Push(transit, q, e)
          BY <1>1, <1>3, <2>1, <2>2, <3>1 DEF Before
        <3>3. transit \in [Peers -> Seq(Sent)] /\ q \in Peers
          BY <1>1 DEF Before, TypeOK
        <3> QED  BY <3>1, <3>2, <3>3, AfterPush
      <2>4. io' \in [Peers -> Seq(IoEvents)] /\ Pushed(io, io', p, "_onWebSocketWriteable")
        <3>1. PICK e \in IoEvents : e = Event("_onWebSocketWriteable") /\ e.name = "_onWebSocketWriteable"
          BY Posted
        <3>2. io' = Push(io, p, e)
          BY <1>1, <1>3, <2>1, <2>2, <2>3, <3>1 DEF Before
        <3>3. io \in [Peers -> Seq(IoEvents)] /\ p \in Peers
          BY <1>1 DEF Before, TypeOK
        <3> QED  BY <3>1, <3>2, <3>3, AfterPush
      <2>5. /\ driver'[p] = "connected" /\ driver'[q] = driver[q]
            /\ state'[p] = "kConnected" /\ state'[q] = state[q]
            /\ phase'[p] = "open" /\ phase'[q] = phase[q]
        BY <1>1, <1>3, <2>1, <2>2, <2>3, <2>4 DEF Before, TypeOK, Set
      <2>6. heard' \in [Peers -> Nat]
        BY <1>1, <2>1, Counted DEF Before, TypeOK
      <2>7. TypeOK'
        BY <1>1, <1>3, <2>1, <2>2, <2>3, <2>4, <2>5, <2>6 DEF Before, TypeOK, Set
      <2>8. Pending(q, "_peerIsConnecting") = 0 /\ Pending(q, "_peerIsConnecting")' = 1
        <3>1. ~(Pending(q, "_peerIsConnecting") > 0)
          BY <1>1, <1>3 DEF Before, PeerInv, Handshake, Begun
        <3>2. Count(inbox[q], "_peerIsConnecting") = 0 /\ Count(transit[q], "_peerIsConnecting") = 0
          BY <1>1, <3>1 DEF Before, Pending
        <3>3. inbox'[q] = inbox[q] /\ Count(transit'[q], "_peerIsConnecting") = 1
          BY <1>1, <2>2, <2>3, <3>2 DEF Before, Popped, Pushed
        <3> QED  BY <3>2, <3>3 DEF Pending
      <2>9. driver[q] \in {"unconnected", "connecting", "closed"}
        BY <1>1, <1>3 DEF Before, TypeOK, PeerInv, Handshake, Begun
      <2>10. Count(inbox[p], "_connect") = 1 /\ Count(inbox'[p], "_connect") = 0
        BY <1>1, <2>2 DEF Before, Popped, PeerInv, Connecting
      <2>11. Count(io'[p], "_onWebSocketWriteable") > 0
        BY <1>1, <2>4 DEF Before, Pushed
      <2>12. Handshake(p)' /\ Handshake(q)'
        <3>1. Handshake(p)'
          BY <1>1, <1>3, <2>1, <2>2, <2>3, <2>5, <2>8, <2>9, <2>10, <2>11
          DEF Before, Popped, Pushed, PeerInv, Handshake, Pending, Begun
        <3>2. Handshake(q)'
          <4>1. (Pending(q, "_peerIsConnecting") <= 1)'
            BY <1>1, <1>3, <2>1, <2>2, <2>3, <2>5, <2>8, <2>9, <2>10, <2>11
            DEF Before, Popped, Pushed, PeerInv, Handshake, Pending, Begun
          <4>2. (Pending(q, "_peerIsConnecting") > 0 =>
                   driver[Other(q)] \in Begun /\ driver[q] \in {"unconnected", "connecting", "closed"})'
            BY <1>1, <1>3, <2>1, <2>2, <2>3, <2>5, <2>8, <2>9, <2>10, <2>11
            DEF Before, Popped, Pushed, PeerInv, Handshake, Pending, Begun
          <4>3. (driver[q] \in {"peerConnecting", "connected"} => driver[Other(q)] \in Begun)'
            BY <1>1, <1>3, <2>1, <2>2, <2>3, <2>5, <2>8, <2>9, <2>10, <2>11
            DEF Before, Popped, Pushed, PeerInv, Handshake, Pending, Begun
          <4>4. (driver[Other(q)] \in {"connecting", "connected"} =>
                   Pending(q, "_peerIsConnecting") > 0
                   \/ driver[q] \in {"peerConnecting", "connected", "closed"})'
            BY <1>1, <1>3, <2>1, <2>2, <2>3, <2>5, <2>8, <2>9, <2>10, <2>11
            DEF Before, Popped, Pushed, PeerInv, Handshake, Pending, Begun
          <4> QED  BY <4>1, <4>2, <4>3, <4>4 DEF Handshake
        <3> QED  BY <3>1, <3>2
      <2>13. Receives(p)' /\ Receives(q)'
        BY <1>1, <1>3, <2>1, <2>2, <2>3, <2>5, <2>8, <2>9, <2>10, <2>11
        DEF Before, Popped, Pushed, PeerInv, Receives, Pending, Begun, Working
      <2>14. Connecting(p)' /\ Connecting(q)'
        <3>1. Connecting(p)'
          <4>1. (Count(inbox[p], "_connect") <= 1)'
            BY <1>1, <1>3, <2>1, <2>2, <2>4, <2>5, <2>8, <2>9, <2>10, <2>11
            DEF Before, Popped, Pushed, PeerInv, Connecting, Begun
          <4>2. (Count(inbox[p], "_connect") > 0 =>
                   started[p] /\ driver[p] \notin {"connecting", "connected"})'
            BY <1>1, <1>3, <2>1, <2>2, <2>4, <2>5, <2>8, <2>9, <2>10, <2>11
            DEF Before, Popped, Pushed, PeerInv, Connecting, Begun
          <4>3. (driver[p] \in {"connecting", "connected"} => started[p])'
            BY <1>1, <1>3, <2>1, <2>2, <2>4, <2>5, <2>8, <2>9, <2>10, <2>11
            DEF Before, Popped, Pushed, PeerInv, Connecting, Begun
          <4>4. (started[p] /\ ~terminated[p] => driver[p] \in Begun \/ Count(inbox[p], "_connect") > 0)'
            BY <1>1, <1>3, <2>1, <2>2, <2>4, <2>5, <2>8, <2>9, <2>10, <2>11
            DEF Before, Popped, Pushed, PeerInv, Connecting, Begun
          <4>5. (~terminated[p] => driver[p] \in Begun \/ Behind(inbox[p], "_connect", "_close"))'
            BY <1>1, <1>3, <2>1, <2>2, <2>4, <2>5, <2>8, <2>9, <2>10, <2>11
            DEF Before, Popped, Pushed, PeerInv, Connecting, Begun
          <4>6. (Count(io[p], "_close") > 0 => started[p])'
            BY <1>1, <1>3, <2>1, <2>2, <2>4, <2>5, <2>8, <2>9, <2>10, <2>11
            DEF Before, Popped, Pushed, PeerInv, Connecting, Begun
          <4> QED  BY <4>1, <4>2, <4>3, <4>4, <4>5, <4>6 DEF Connecting
        <3>2. Connecting(q)'
          BY <1>1, <1>3, <2>1, <2>2, <2>4, <2>5, <2>8, <2>9, <2>10, <2>11
          DEF Before, Popped, Pushed, PeerInv, Connecting, Begun
        <3> QED  BY <3>1, <3>2
      <2>15. Sending(p)' /\ Sending(q)'
        BY <1>1, <1>3, <2>1, <2>2, <2>4, <2>5, <2>8, <2>9, <2>10, <2>11
        DEF Before, Popped, Pushed, PeerInv, Sending, Working
      <2>16. Telling(p)' /\ Telling(q)'
        BY <1>1, <1>3, <2>1, <2>4, <2>5, <2>8, <2>9, <2>10, <2>11
        DEF Before, Pushed, PeerInv, Telling
      <2>17. Counting(p)' /\ Counting(q)'
        <3>1. Unacknowledged(p)' = Unacknowledged(p) /\ Unacknowledged(q)' = Unacknowledged(q)
          BY <1>1, <1>3, <2>1, <2>2, <2>3, <2>4, <2>5, <2>8, <2>9, <2>10, <2>11
          DEF Before, Popped, Pushed, Unacknowledged
        <3>2. Unacknowledged(p) \in Nat /\ Unacknowledged(q) \in Nat
          BY <1>1 DEF Before, Unacknowledged
        <3>3. Counting(p)'
          BY <1>1, <1>3, <2>1, <2>2, <2>3, <2>4, <2>5, <2>8, <2>9, <2>10, <2>11, <3>1, <3>2
          DEF Before, Popped, Pushed, PeerInv, Counting, Working
        <3>4. Counting(q)'
          BY <1>1, <1>3, <2>1, <2>2, <2>3, <2>4, <2>5, <2>8, <2>9, <2>10, <2>11, <3>1, <3>2
          DEF Before, Popped, Pushed, PeerInv, Counting, Working
        <3> QED  BY <3>3, <3>4
      <2>18. Asserting(p)' /\ Asserting(q)'
        BY <1>1, <1>3, <2>1, <2>5, <2>8, <2>9, <2>10, <2>11 DEF Before, PeerInv, Asserting
      <2> QED  BY <1>1, <2>7, <2>12, <2>13, <2>14, <2>15, <2>16, <2>17, <2>18, AfterStep DEF PeerInv
    <1>4. CASE driver[p] \notin {"unconnected", "peerConnecting"}
      <2>1. /\ Head(inbox[p]).name = "_connect"
            /\ inbox[p] # <<>>
            /\ inbox' = Pop(inbox, p)
            /\ asserted' = [asserted EXCEPT ![p] = @ \union {"_connect"}]
            /\ UNCHANGED <<state, started, terminated, closes, io, hasSocket, writeable, sends>>
            /\ UNCHANGED <<held, driver, buffered, transit, phase, heard, lateClose>>
        BY <1>4 DEF _connect, Driven, Next1, Connects, ConnectCompleted, Fails, appVars, ioVars
      <2>2. inbox' \in [Peers -> Seq(Driving)] /\ Popped(inbox, inbox', p, "_connect")
        BY <1>1, <1>4, <2>1, AfterPop DEF Before, TypeOK
      <2>3. /\ asserted'[p] = asserted[p] \union {"_connect"}
            /\ asserted'[q] = asserted[q]
        BY <1>1, <1>4, <2>1, <2>2 DEF Before, TypeOK, Set
      <2>4. TypeOK'
        BY <1>1, <1>4, <2>1, <2>2, <2>3 DEF Before, TypeOK
      <2>5. driver[p] = "closed"
        BY <1>1, <1>4, <2>1, <2>2, <2>3 DEF Before, Popped, TypeOK, PeerInv, Connecting
      <2>6. Handshake(p)' /\ Handshake(q)'
        BY <1>1, <1>4, <2>1, <2>2, <2>3, <2>5 DEF Before, Popped, PeerInv, Handshake, Pending, Begun
      <2>7. Receives(p)' /\ Receives(q)'
        BY <1>1, <1>4, <2>1, <2>2, <2>3, <2>5
        DEF Before, Popped, PeerInv, Receives, Pending, Begun, Working
      <2>8. Connecting(p)' /\ Connecting(q)'
        BY <1>1, <1>4, <2>1, <2>2, <2>3, <2>5 DEF Before, Popped, PeerInv, Connecting, Begun
      <2>9. Sending(p)' /\ Sending(q)'
        BY <1>1, <1>4, <2>1, <2>2, <2>3, <2>5 DEF Before, Popped, PeerInv, Sending, Working
      <2>10. Telling(p)' /\ Telling(q)'
        BY <1>1, <1>4, <2>1, <2>3, <2>5 DEF Before, PeerInv, Telling
      <2>11. Counting(p)' /\ Counting(q)'
        <3>1. Unacknowledged(p)' = Unacknowledged(p) /\ Unacknowledged(q)' = Unacknowledged(q)
          BY <1>1, <1>4, <2>1, <2>2, <2>3, <2>5 DEF Before, Popped, Unacknowledged
        <3>2. Unacknowledged(p) \in Nat /\ Unacknowledged(q) \in Nat
          BY <1>1 DEF Before, Unacknowledged
        <3>3. Counting(p)'
          BY <1>1, <1>4, <2>1, <2>2, <2>3, <2>5, <3>1, <3>2
          DEF Before, Popped, PeerInv, Counting, Working
        <3>4. Counting(q)'
          BY <1>1, <1>4, <2>1, <2>2, <2>3, <2>5, <3>1, <3>2
          DEF Before, Popped, PeerInv, Counting, Working
        <3> QED  BY <3>3, <3>4
      <2>12. Asserting(p)' /\ Asserting(q)'
        BY <1>1, <1>4, <2>1, <2>3, <2>5 DEF Before, PeerInv, Asserting
      <2> QED  BY <1>1, <2>4, <2>6, <2>7, <2>8, <2>9, <2>10, <2>11, <2>12, AfterStep DEF PeerInv
    <1> QED  BY <1>2, <1>3, <1>4

(***************************************************************************)
(* The peer is connecting.                                                 *)
(***************************************************************************)
LEMMA KeepsPeerIsConnecting ==
    ASSUME LoopbackInv, NEW p \in Peers, _peerIsConnecting(p)
    PROVE  LoopbackInv'
    <1>1. PICK q : Before(p, q)
      BY BeforeStep
    <1>2. CASE driver[p] = "unconnected"
      <2>1. /\ Head(inbox[p]).name = "_peerIsConnecting"
            /\ inbox[p] # <<>>
            /\ inbox' = Pop(inbox, p)
            /\ driver' = Set(driver, p, "peerConnecting")
            /\ UNCHANGED <<state, started, terminated, closes, io, hasSocket, writeable, sends>>
            /\ UNCHANGED <<held, buffered, transit, phase, heard, asserted, lateClose>>
        BY <1>2 DEF _peerIsConnecting, Driven, Next1, ConnectCompleted, appVars, ioVars, history
      <2>2. inbox' \in [Peers -> Seq(Driving)] /\ Popped(inbox, inbox', p, "_peerIsConnecting")
        BY <1>1, <1>2, <2>1, AfterPop DEF Before, TypeOK
      <2>3. driver'[p] = "peerConnecting" /\ driver'[q] = driver[q]
        BY <1>1, <1>2, <2>1, <2>2 DEF Before, TypeOK, Set
      <2>4. TypeOK'
        BY <1>1, <1>2, <2>1, <2>2, <2>3 DEF Before, TypeOK, Set
      <2>5. /\ Behind(inbox'[p], "_peerIsConnecting", "_received")
            /\ Behind(transit[p], "_peerIsConnecting", "_received")
        <3>1. ~(Count(inbox[p], "_received") > 0) /\ ~(Count(transit[p], "_received") > 0)
          BY <1>1, <1>2 DEF Before, PeerInv, Receives, Pending, Begun
        <3>2. ~(Count(inbox'[p], "_received") > 0)
          BY <2>2, <3>1 DEF Popped
        <3>3. inbox'[p] \in Seq(Driving) /\ transit[p] \in Seq(Sent)
          BY <1>1, <2>2 DEF Before, TypeOK
        <3> QED  BY <3>1, <3>2, <3>3, NoneBehind
      <2>6. Handshake(p)' /\ Handshake(q)'
        BY <1>1, <1>2, <2>1, <2>2, <2>3, <2>5 DEF Before, Popped, PeerInv, Handshake, Pending, Begun
      <2>7. Receives(p)' /\ Receives(q)'
        BY <1>1, <1>2, <2>1, <2>2, <2>3, <2>5
        DEF Before, Popped, PeerInv, Receives, Pending, Begun, Working
      <2>8. Connecting(p)' /\ Connecting(q)'
        BY <1>1, <1>2, <2>1, <2>2, <2>3, <2>5 DEF Before, Popped, PeerInv, Connecting, Begun
      <2>9. Sending(p)' /\ Sending(q)'
        BY <1>1, <1>2, <2>1, <2>2, <2>3, <2>5 DEF Before, Popped, PeerInv, Sending, Working
      <2>10. Telling(p)' /\ Telling(q)'
        BY <1>1, <1>2, <2>1, <2>3, <2>5 DEF Before, PeerInv, Telling
      <2>11. Counting(p)' /\ Counting(q)'
        <3>1. Unacknowledged(p)' = Unacknowledged(p) /\ Unacknowledged(q)' = Unacknowledged(q)
          BY <1>1, <1>2, <2>1, <2>2, <2>3, <2>5 DEF Before, Popped, Unacknowledged
        <3>2. Unacknowledged(p) \in Nat /\ Unacknowledged(q) \in Nat
          BY <1>1 DEF Before, Unacknowledged
        <3>3. Counting(p)'
          BY <1>1, <1>2, <2>1, <2>2, <2>3, <2>5, <3>1, <3>2
          DEF Before, Popped, PeerInv, Counting, Working
        <3>4. Counting(q)'
          BY <1>1, <1>2, <2>1, <2>2, <2>3, <2>5, <3>1, <3>2
          DEF Before, Popped, PeerInv, Counting, Working
        <3> QED  BY <3>3, <3>4
      <2>12. Asserting(p)' /\ Asserting(q)'
        BY <1>1, <1>2, <2>1, <2>3, <2>5 DEF Before, PeerInv, Asserting
      <2> QED  BY <1>1, <2>4, <2>6, <2>7, <2>8, <2>9, <2>10, <2>11, <2>12, AfterStep DEF PeerInv
    <1>3. CASE driver[p] = "connecting"
      <2>1. /\ Head(inbox[p]).name = "_peerIsConnecting"
            /\ inbox[p] # <<>>
            /\ driver' = Set(driver, p, "connected")
            /\ state' = Set(state, p, "kConnected")
            /\ phase' = Set(phase, p, "open")
            /\ heard' = [heard EXCEPT ![p] = @ + 1]
            /\ io' = Push(io, p, Event("_onWebSocketWriteable"))
            /\ inbox' = Pop(inbox, p)
            /\ UNCHANGED <<started, terminated, closes, hasSocket, writeable, sends>>
            /\ UNCHANGED <<held, buffered, transit, asserted, lateClose>>
        BY <1>3 DEF _peerIsConnecting, Driven, Next1, ConnectCompleted, appVars, ioVars, history
      <2>2. inbox' \in [Peers -> Seq(Driving)] /\ Popped(inbox, inbox', p, "_peerIsConnecting")
        BY <1>1, <1>3, <2>1, AfterPop DEF Before, TypeOK
      <2>3. io' \in [Peers -> Seq(IoEvents)] /\ Pushed(io, io', p, "_onWebSocketWriteable")
        <3>1. PICK e \in IoEvents : e = Event("_onWebSocketWriteable") /\ e.name = "_onWebSocketWriteable"
          BY Posted
        <3>2. io' = Push(io, p, e)
          BY <1>1, <1>3, <2>1, <2>2, <3>1 DEF Before
        <3>3. io \in [Peers -> Seq(IoEvents)] /\ p \in Peers
          BY <1>1 DEF Before, TypeOK
        <3> QED  BY <3>1, <3>2, <3>3, AfterPush
      <2>4. /\ driver'[p] = "connected" /\ driver'[q] = driver[q]
            /\ state'[p] = "kConnected" /\ state'[q] = state[q]
            /\ phase'[p] = "open" /\ phase'[q] = phase[q]
        BY <1>1, <1>3, <2>1, <2>2, <2>3 DEF Before, TypeOK, Set
      <2>5. heard' \in [Peers -> Nat]
        BY <1>1, <2>1, Counted DEF Before, TypeOK
      <2>6. TypeOK'
        BY <1>1, <1>3, <2>1, <2>2, <2>3, <2>4, <2>5 DEF Before, TypeOK, Set
      <2>7. Pending(p, "_peerIsConnecting") > 0
        BY <1>1, <2>2 DEF Before, Popped, Pending
      <2>8. Pending(p, "_peerIsConnecting")' = 0
        <3>1. Pending(p, "_peerIsConnecting") <= 1
          BY <1>1 DEF Before, PeerInv, Handshake
        <3>2. Count(inbox'[p], "_peerIsConnecting") = Count(inbox[p], "_peerIsConnecting") - 1
          BY <2>2 DEF Popped
        <3>3. Count(inbox[p], "_peerIsConnecting") > 0
          BY <2>2 DEF Popped
        <3>4. transit'[p] = transit[p]
          BY <2>1
        <3>5. Count(inbox[p], "_peerIsConnecting") \in Nat /\ Count(transit[p], "_peerIsConnecting") \in Nat
          BY <1>1 DEF Before
        <3> QED  BY <3>1, <3>2, <3>3, <3>4, <3>5 DEF Pending
      <2>9. driver[q] \in Begun
        BY <1>1, <2>7 DEF Before, PeerInv, Handshake
      <2>10. Handshake(p)' /\ Handshake(q)'
        <3>1. Handshake(p)'
          BY <1>1, <1>3, <2>1, <2>2, <2>4, <2>7, <2>8, <2>9
          DEF Before, Popped, PeerInv, Handshake, Pending, Begun
        <3>2. Handshake(q)'
          BY <1>1, <1>3, <2>1, <2>2, <2>4, <2>7, <2>8, <2>9
          DEF Before, Popped, PeerInv, Handshake, Pending, Begun
        <3> QED  BY <3>1, <3>2
      <2>11. Receives(p)' /\ Receives(q)'
        BY <1>1, <1>3, <2>1, <2>2, <2>4, <2>7, <2>8, <2>9
        DEF Before, Popped, PeerInv, Receives, Pending, Begun, Working
      <2>12. Connecting(p)' /\ Connecting(q)'
        BY <1>1, <1>3, <2>1, <2>2, <2>3, <2>4, <2>7, <2>8, <2>9
        DEF Before, Popped, Pushed, PeerInv, Connecting, Begun
      <2>13. Sending(p)' /\ Sending(q)'
        BY <1>1, <1>3, <2>1, <2>2, <2>3, <2>4, <2>7, <2>8, <2>9
        DEF Before, Popped, Pushed, PeerInv, Sending, Working
      <2>14. Telling(p)' /\ Telling(q)'
        BY <1>1, <1>3, <2>1, <2>3, <2>4, <2>7, <2>8, <2>9 DEF Before, Pushed, PeerInv, Telling
      <2>15. Counting(p)' /\ Counting(q)'
        <3>1. Unacknowledged(p)' = Unacknowledged(p) /\ Unacknowledged(q)' = Unacknowledged(q)
          BY <1>1, <1>3, <2>1, <2>2, <2>3, <2>4, <2>7, <2>8, <2>9
          DEF Before, Popped, Pushed, Unacknowledged
        <3>2. Unacknowledged(p) \in Nat /\ Unacknowledged(q) \in Nat
          BY <1>1 DEF Before, Unacknowledged
        <3>3. Counting(p)'
          BY <1>1, <1>3, <2>1, <2>2, <2>3, <2>4, <2>7, <2>8, <2>9, <3>1, <3>2
          DEF Before, Popped, Pushed, PeerInv, Counting, Working
        <3>4. Counting(q)'
          BY <1>1, <1>3, <2>1, <2>2, <2>3, <2>4, <2>7, <2>8, <2>9, <3>1, <3>2
          DEF Before, Popped, Pushed, PeerInv, Counting, Working
        <3> QED  BY <3>3, <3>4
      <2>16. Asserting(p)' /\ Asserting(q)'
        BY <1>1, <1>3, <2>1, <2>4, <2>7, <2>8, <2>9 DEF Before, PeerInv, Asserting
      <2> QED  BY <1>1, <2>6, <2>10, <2>11, <2>12, <2>13, <2>14, <2>15, <2>16, AfterStep DEF PeerInv
    <1>4. CASE driver[p] = "closed"
      <2>1. /\ Head(inbox[p]).name = "_peerIsConnecting"
            /\ inbox[p] # <<>>
            /\ inbox' = Pop(inbox, p)
            /\ UNCHANGED <<state, started, terminated, closes, io, hasSocket, writeable, sends>>
            /\ UNCHANGED <<held, driver, buffered, transit, phase, heard, asserted, lateClose>>
        BY <1>4 DEF _peerIsConnecting, Driven, Next1, ConnectCompleted, appVars, ioVars, history
      <2>2. inbox' \in [Peers -> Seq(Driving)] /\ Popped(inbox, inbox', p, "_peerIsConnecting")
        BY <1>1, <1>4, <2>1, AfterPop DEF Before, TypeOK
      <2>3. TypeOK'
        BY <1>1, <1>4, <2>1, <2>2 DEF Before, TypeOK
      <2>4. Handshake(p)' /\ Handshake(q)'
        BY <1>1, <1>4, <2>1, <2>2 DEF Before, Popped, PeerInv, Handshake, Pending, Begun
      <2>5. Receives(p)' /\ Receives(q)'
        BY <1>1, <1>4, <2>1, <2>2 DEF Before, Popped, PeerInv, Receives, Pending, Begun, Working
      <2>6. Connecting(p)' /\ Connecting(q)'
        BY <1>1, <1>4, <2>1, <2>2 DEF Before, Popped, PeerInv, Connecting, Begun
      <2>7. Sending(p)' /\ Sending(q)'
        BY <1>1, <1>4, <2>1, <2>2 DEF Before, Popped, PeerInv, Sending, Working
      <2>8. Telling(p)' /\ Telling(q)'
        BY <1>1, <1>4, <2>1 DEF Before, PeerInv, Telling
      <2>9. Counting(p)' /\ Counting(q)'
        <3>1. Unacknowledged(p)' = Unacknowledged(p) /\ Unacknowledged(q)' = Unacknowledged(q)
          BY <1>1, <1>4, <2>1, <2>2 DEF Before, Popped, Unacknowledged
        <3>2. Unacknowledged(p) \in Nat /\ Unacknowledged(q) \in Nat
          BY <1>1 DEF Before, Unacknowledged
        <3>3. Counting(p)'
          BY <1>1, <1>4, <2>1, <2>2, <3>1, <3>2 DEF Before, Popped, PeerInv, Counting, Working
        <3>4. Counting(q)'
          BY <1>1, <1>4, <2>1, <2>2, <3>1, <3>2 DEF Before, Popped, PeerInv, Counting, Working
        <3> QED  BY <3>3, <3>4
      <2>10. Asserting(p)' /\ Asserting(q)'
        BY <1>1, <1>4, <2>1 DEF Before, PeerInv, Asserting
      <2> QED  BY <1>1, <2>3, <2>4, <2>5, <2>6, <2>7, <2>8, <2>9, <2>10, AfterStep DEF PeerInv
    <1>5. driver[p] \in {"unconnected", "connecting", "closed"}
      <2>1. inbox' = Pop(inbox, p) /\ inbox[p] # <<>> /\ Head(inbox[p]).name = "_peerIsConnecting"
        BY DEF _peerIsConnecting, Driven, Next1, Fails
      <2>2. Popped(inbox, inbox', p, "_peerIsConnecting")
        BY <1>1, <2>1, AfterPop DEF Before, TypeOK
      <2>3. Pending(p, "_peerIsConnecting") > 0
        BY <1>1, <2>2 DEF Before, Popped, Pending
      <2> QED  BY <1>1, <2>3 DEF Before, PeerInv, Handshake
    <1> QED  BY <1>2, <1>3, <1>4, <1>5

(***************************************************************************)
(* A message is sent, or dropped after the end.                            *)
(***************************************************************************)
LEMMA KeepsDriverSend ==
    ASSUME LoopbackInv, NEW p \in Peers, _send(p)
    PROVE  LoopbackInv'
    <1>1. PICK q : Before(p, q)
      BY BeforeStep
    <1>2. CASE driver[p] = "connected"
      <2>1. /\ Head(inbox[p]).name = "_send"
            /\ inbox[p] # <<>>
            /\ inbox' = Pop(inbox, p)
            /\ transit' = Push(transit, Other(p), Event("_received"))
            /\ UNCHANGED <<state, started, terminated, closes, io, hasSocket, writeable, sends>>
            /\ UNCHANGED <<held, driver, buffered, phase, heard, asserted, lateClose>>
        BY <1>2 DEF _send, Driven, Next1, appVars, ioVars, history
      <2>2. inbox' \in [Peers -> Seq(Driving)] /\ Popped(inbox, inbox', p, "_send")
        BY <1>1, <1>2, <2>1, AfterPop DEF Before, TypeOK
      <2>3. transit' \in [Peers -> Seq(Sent)] /\ Pushed(transit, transit', q, "_received")
        <3>1. PICK e \in Sent : e = Event("_received") /\ e.name = "_received"
          BY Posted
        <3>2. transit' = Push(transit, q, e)
          BY <1>1, <1>2, <2>1, <2>2, <3>1 DEF Before
        <3>3. transit \in [Peers -> Seq(Sent)] /\ q \in Peers
          BY <1>1 DEF Before, TypeOK
        <3> QED  BY <3>1, <3>2, <3>3, AfterPush
      <2>4. TypeOK'
        BY <1>1, <1>2, <2>1, <2>2, <2>3 DEF Before, TypeOK
      <2>5. driver[q] \in Begun
        BY <1>1, <1>2, <2>1, <2>2, <2>3 DEF Before, Popped, Pushed, PeerInv, Handshake
      <2>6. driver[q] \notin Working =>
               Count(inbox[q], "_peerIsConnecting") > 0
               \/ Behind(transit'[q], "_peerIsConnecting", "_received")
        <3>1. SUFFICES ASSUME driver[q] \notin Working, ~(Count(inbox[q], "_peerIsConnecting") > 0)
                        PROVE  Behind(transit'[q], "_peerIsConnecting", "_received")
          OBVIOUS
        <3>2. Pending(q, "_peerIsConnecting") > 0
          BY <1>1, <1>2, <2>5, <3>1 DEF Before, PeerInv, Handshake, Begun, Working
        <3>3. Count(transit[q], "_peerIsConnecting") > 0
          BY <1>1, <3>1, <3>2 DEF Before, Pending
        <3>4. Behind(transit[q], "_peerIsConnecting", "_received")
          BY <1>1, <3>1 DEF Before, PeerInv, Receives
        <3> QED  BY <2>3, <3>3, <3>4 DEF Pushed
      <2>7. Handshake(p)' /\ Handshake(q)'
        BY <1>1, <1>2, <2>1, <2>2, <2>3, <2>5, <2>6
        DEF Before, Popped, Pushed, PeerInv, Handshake, Pending, Begun
      <2>8. Receives(p)' /\ Receives(q)'
        BY <1>1, <1>2, <2>1, <2>2, <2>3, <2>5, <2>6
        DEF Before, Popped, Pushed, PeerInv, Receives, Pending, Begun, Working
      <2>9. Connecting(p)' /\ Connecting(q)'
        BY <1>1, <1>2, <2>1, <2>2, <2>5, <2>6 DEF Before, Popped, PeerInv, Connecting, Begun
      <2>10. Sending(p)' /\ Sending(q)'
        BY <1>1, <1>2, <2>1, <2>2, <2>5, <2>6 DEF Before, Popped, PeerInv, Sending, Working
      <2>11. Telling(p)' /\ Telling(q)'
        BY <1>1, <1>2, <2>1, <2>5, <2>6 DEF Before, PeerInv, Telling
      <2>12. Counting(p)' /\ Counting(q)'
        <3>1. /\ Unacknowledged(p)' = Unacknowledged(p)
              /\ Unacknowledged(q)' = Unacknowledged(q)
          <4>1. /\ Count(inbox'[p], "_send") = Count(inbox[p], "_send") - 1
                /\ Count(inbox'[p], "_received") = Count(inbox[p], "_received")
                /\ Count(inbox'[p], "_ack") = Count(inbox[p], "_ack")
                /\ Count(inbox'[q], "_send") = Count(inbox[q], "_send")
                /\ Count(inbox'[q], "_received") = Count(inbox[q], "_received")
                /\ Count(inbox'[q], "_ack") = Count(inbox[q], "_ack")
                /\ Count(transit'[p], "_received") = Count(transit[p], "_received")
                /\ Count(transit'[q], "_received") = Count(transit[q], "_received") + 1
            BY <1>1, <1>2, <2>1, <2>2, <2>3, <2>5, <2>6 DEF Before, Popped, Pushed
          <4>2. /\ Other(p) = q /\ Other(q) = p /\ held[p] \in Nat /\ held[q] \in Nat
                /\ Count(inbox[p], "_send") \in Nat /\ Count(inbox[p], "_received") \in Nat
                /\ Count(inbox[p], "_ack") \in Nat
                /\ Count(inbox[q], "_send") \in Nat /\ Count(inbox[q], "_received") \in Nat
                /\ Count(inbox[q], "_ack") \in Nat
                /\ Count(transit[p], "_received") \in Nat
                /\ Count(transit[q], "_received") \in Nat
                /\ held'[p] = held[p]
                /\ held'[q] = held[q]
            BY <1>1, <2>1 DEF Before
          <4>3. Unacknowledged(p)' = Unacknowledged(p)
            BY <4>1, <4>2 DEF Unacknowledged
          <4>4. Unacknowledged(q)' = Unacknowledged(q)
            BY <4>1, <4>2 DEF Unacknowledged
          <4> QED  BY <4>3, <4>4
        <3>2. Unacknowledged(p) \in Nat /\ Unacknowledged(q) \in Nat
          BY <1>1 DEF Before, Unacknowledged
        <3>3. Counting(p)'
          BY <1>1, <1>2, <2>1, <2>2, <2>3, <2>5, <2>6, <3>1, <3>2
          DEF Before, Popped, Pushed, PeerInv, Counting, Working
        <3>4. Counting(q)'
          BY <1>1, <1>2, <2>1, <2>2, <2>3, <2>5, <2>6, <3>1, <3>2
          DEF Before, Popped, Pushed, PeerInv, Counting, Working
        <3> QED  BY <3>3, <3>4
      <2>13. Asserting(p)' /\ Asserting(q)'
        BY <1>1, <1>2, <2>1, <2>5, <2>6 DEF Before, PeerInv, Asserting
      <2> QED  BY <1>1, <2>4, <2>7, <2>8, <2>9, <2>10, <2>11, <2>12, <2>13, AfterStep DEF PeerInv
    <1>3. CASE driver[p] = "closed"
      <2>1. /\ Head(inbox[p]).name = "_send"
            /\ inbox[p] # <<>>
            /\ inbox' = Pop(inbox, p)
            /\ UNCHANGED <<state, started, terminated, closes, io, hasSocket, writeable, sends>>
            /\ UNCHANGED <<held, driver, buffered, transit, phase, heard, asserted, lateClose>>
        BY <1>3 DEF _send, Driven, Next1, appVars, ioVars, history
      <2>2. inbox' \in [Peers -> Seq(Driving)] /\ Popped(inbox, inbox', p, "_send")
        BY <1>1, <1>3, <2>1, AfterPop DEF Before, TypeOK
      <2>3. TypeOK'
        BY <1>1, <1>3, <2>1, <2>2 DEF Before, TypeOK
      <2>4. Handshake(p)' /\ Handshake(q)'
        BY <1>1, <1>3, <2>1, <2>2 DEF Before, Popped, PeerInv, Handshake, Pending, Begun
      <2>5. Receives(p)' /\ Receives(q)'
        BY <1>1, <1>3, <2>1, <2>2 DEF Before, Popped, PeerInv, Receives, Pending, Begun, Working
      <2>6. Connecting(p)' /\ Connecting(q)'
        BY <1>1, <1>3, <2>1, <2>2 DEF Before, Popped, PeerInv, Connecting, Begun
      <2>7. Sending(p)' /\ Sending(q)'
        BY <1>1, <1>3, <2>1, <2>2 DEF Before, Popped, PeerInv, Sending, Working
      <2>8. Telling(p)' /\ Telling(q)'
        BY <1>1, <1>3, <2>1 DEF Before, PeerInv, Telling
      <2>9. Counting(p)' /\ Counting(q)'
        <3>1. /\ Unacknowledged(p)' = Unacknowledged(p) - 1
              /\ Unacknowledged(q)' = Unacknowledged(q)
          <4>1. /\ Count(inbox'[p], "_send") = Count(inbox[p], "_send") - 1
                /\ Count(inbox'[p], "_received") = Count(inbox[p], "_received")
                /\ Count(inbox'[p], "_ack") = Count(inbox[p], "_ack")
                /\ Count(inbox'[q], "_send") = Count(inbox[q], "_send")
                /\ Count(inbox'[q], "_received") = Count(inbox[q], "_received")
                /\ Count(inbox'[q], "_ack") = Count(inbox[q], "_ack")
            BY <1>1, <1>3, <2>1, <2>2 DEF Before, Popped
          <4>2. /\ Other(p) = q /\ Other(q) = p /\ held[p] \in Nat /\ held[q] \in Nat
                /\ Count(inbox[p], "_send") \in Nat /\ Count(inbox[p], "_received") \in Nat
                /\ Count(inbox[p], "_ack") \in Nat
                /\ Count(inbox[q], "_send") \in Nat /\ Count(inbox[q], "_received") \in Nat
                /\ Count(inbox[q], "_ack") \in Nat
                /\ Count(transit[p], "_received") \in Nat
                /\ transit'[p] = transit[p]
                /\ Count(transit[q], "_received") \in Nat
                /\ transit'[q] = transit[q]
                /\ held'[p] = held[p]
                /\ held'[q] = held[q]
            BY <1>1, <2>1 DEF Before
          <4>3. Unacknowledged(p)' = Unacknowledged(p) - 1
            BY <4>1, <4>2 DEF Unacknowledged
          <4>4. Unacknowledged(q)' = Unacknowledged(q)
            BY <4>1, <4>2 DEF Unacknowledged
          <4> QED  BY <4>3, <4>4
        <3>2. Unacknowledged(p) \in Nat /\ Unacknowledged(q) \in Nat
          BY <1>1 DEF Before, Unacknowledged
        <3>3. Counting(p)'
          BY <1>1, <1>3, <2>1, <2>2, <3>1, <3>2 DEF Before, Popped, PeerInv, Counting, Working
        <3>4. Counting(q)'
          BY <1>1, <1>3, <2>1, <2>2, <3>1, <3>2 DEF Before, Popped, PeerInv, Counting, Working
        <3> QED  BY <3>3, <3>4
      <2>10. Asserting(p)' /\ Asserting(q)'
        BY <1>1, <1>3, <2>1 DEF Before, PeerInv, Asserting
      <2> QED  BY <1>1, <2>3, <2>4, <2>5, <2>6, <2>7, <2>8, <2>9, <2>10, AfterStep DEF PeerInv
    <1>4. driver[p] \in {"connected", "closed"}
      <2>1. inbox' = Pop(inbox, p) /\ inbox[p] # <<>> /\ Head(inbox[p]).name = "_send"
        BY DEF _send, Driven, Next1, Fails
      <2>2. Popped(inbox, inbox', p, "_send")
        BY <1>1, <2>1, AfterPop DEF Before, TypeOK
      <2> QED  BY <1>1, <2>2 DEF Before, Popped, PeerInv, Sending, Working
    <1> QED  BY <1>2, <1>3, <1>4

(***************************************************************************)
(* A message is received, or destroyed.                                    *)
(***************************************************************************)
LEMMA KeepsReceived ==
    ASSUME LoopbackInv, NEW p \in Peers, _received(p)
    PROVE  LoopbackInv'
    <1>1. PICK q : Before(p, q)
      BY BeforeStep
    <1>2. CASE driver[p] = "connected"
      <2>1. /\ Head(inbox[p]).name = "_received"
            /\ inbox[p] # <<>>
            /\ inbox' = Pop(inbox, p)
            /\ held' = [held EXCEPT ![p] = @ + 1]
            /\ heard' = [heard EXCEPT ![p] = @ + 1]
            /\ UNCHANGED <<state, started, terminated, closes, io, hasSocket, writeable>>
            /\ UNCHANGED <<sends, driver, buffered, transit, phase, asserted, lateClose>>
        BY <1>2 DEF _received, Driven, Next1, appVars
      <2>2. inbox' \in [Peers -> Seq(Driving)] /\ Popped(inbox, inbox', p, "_received")
        BY <1>1, <1>2, <2>1, AfterPop DEF Before, TypeOK
      <2>3. held'[p] = held[p] + 1 /\ held'[q] = held[q]
        BY <1>1, <1>2, <2>1, <2>2 DEF Before, TypeOK, Set
      <2>4. held' \in [Peers -> Nat]
        BY <1>1, <2>1, Counted DEF Before, TypeOK
      <2>5. heard' \in [Peers -> Nat]
        BY <1>1, <2>1, Counted DEF Before, TypeOK
      <2>6. TypeOK'
        BY <1>1, <1>2, <2>1, <2>2, <2>3, <2>4, <2>5 DEF Before, TypeOK
      <2>7. Handshake(p)' /\ Handshake(q)'
        BY <1>1, <1>2, <2>1, <2>2, <2>3 DEF Before, Popped, PeerInv, Handshake, Pending, Begun
      <2>8. Receives(p)' /\ Receives(q)'
        BY <1>1, <1>2, <2>1, <2>2, <2>3
        DEF Before, Popped, PeerInv, Receives, Pending, Begun, Working
      <2>9. Connecting(p)' /\ Connecting(q)'
        BY <1>1, <1>2, <2>1, <2>2, <2>3 DEF Before, Popped, PeerInv, Connecting, Begun
      <2>10. Sending(p)' /\ Sending(q)'
        BY <1>1, <1>2, <2>1, <2>2, <2>3 DEF Before, Popped, PeerInv, Sending, Working
      <2>11. Telling(p)' /\ Telling(q)'
        BY <1>1, <1>2, <2>1, <2>3 DEF Before, PeerInv, Telling
      <2>12. Counting(p)' /\ Counting(q)'
        <3>1. /\ Unacknowledged(p)' = Unacknowledged(p)
              /\ Unacknowledged(q)' = Unacknowledged(q)
          <4>1. /\ Count(inbox'[p], "_send") = Count(inbox[p], "_send")
                /\ Count(inbox'[p], "_received") = Count(inbox[p], "_received") - 1
                /\ Count(inbox'[p], "_ack") = Count(inbox[p], "_ack")
                /\ Count(inbox'[q], "_send") = Count(inbox[q], "_send")
                /\ Count(inbox'[q], "_received") = Count(inbox[q], "_received")
                /\ Count(inbox'[q], "_ack") = Count(inbox[q], "_ack")
            BY <1>1, <1>2, <2>1, <2>2, <2>3 DEF Before, Popped
          <4>2. /\ Other(p) = q /\ Other(q) = p /\ held[p] \in Nat /\ held[q] \in Nat
                /\ Count(inbox[p], "_send") \in Nat /\ Count(inbox[p], "_received") \in Nat
                /\ Count(inbox[p], "_ack") \in Nat
                /\ Count(inbox[q], "_send") \in Nat /\ Count(inbox[q], "_received") \in Nat
                /\ Count(inbox[q], "_ack") \in Nat
                /\ Count(transit[p], "_received") \in Nat
                /\ transit'[p] = transit[p]
                /\ Count(transit[q], "_received") \in Nat
                /\ transit'[q] = transit[q]
            BY <1>1, <2>1 DEF Before
          <4>3. Unacknowledged(p)' = Unacknowledged(p)
            BY <2>3, <4>1, <4>2 DEF Unacknowledged
          <4>4. Unacknowledged(q)' = Unacknowledged(q)
            BY <2>3, <4>1, <4>2 DEF Unacknowledged
          <4> QED  BY <4>3, <4>4
        <3>2. Unacknowledged(p) \in Nat /\ Unacknowledged(q) \in Nat
          BY <1>1 DEF Before, Unacknowledged
        <3>3. Counting(p)'
          BY <1>1, <1>2, <2>1, <2>2, <2>3, <3>1, <3>2 DEF Before, Popped, PeerInv, Counting, Working
        <3>4. Counting(q)'
          BY <1>1, <1>2, <2>1, <2>2, <2>3, <3>1, <3>2 DEF Before, Popped, PeerInv, Counting, Working
        <3> QED  BY <3>3, <3>4
      <2>13. Asserting(p)' /\ Asserting(q)'
        BY <1>1, <1>2, <2>1, <2>3 DEF Before, PeerInv, Asserting
      <2> QED  BY <1>1, <2>6, <2>7, <2>8, <2>9, <2>10, <2>11, <2>12, <2>13, AfterStep DEF PeerInv
    <1>3. CASE driver[p] # "connected"
      <2>1. /\ Head(inbox[p]).name = "_received"
            /\ inbox[p] # <<>>
            /\ inbox' = Push(Pop(inbox, p), Other(p), Event("_ack"))
            /\ UNCHANGED <<state, started, terminated, closes, io, hasSocket, writeable, sends>>
            /\ UNCHANGED <<held, driver, buffered, transit, phase, heard, asserted, lateClose>>
        BY <1>3 DEF _received, Driven, Next1, appVars
      <2>2. PICK mid : mid = Pop(inbox, p)
        OBVIOUS
      <2>3. mid \in [Peers -> Seq(Driving)] /\ Popped(inbox, mid, p, "_received")
        BY <1>1, <1>3, <2>1, <2>2, AfterPop DEF Before, TypeOK
      <2>4. inbox' \in [Peers -> Seq(Driving)] /\ Pushed(mid, inbox', q, "_ack")
        <3>1. PICK e \in Driving : e = Event("_ack") /\ e.name = "_ack"
          BY Posted
        <3>2. inbox' = Push(mid, q, e)
          BY <1>1, <1>3, <2>1, <2>2, <2>3, <3>1 DEF Before
        <3> QED  BY <1>1, <2>3, <3>1, <3>2, AfterPush DEF Before, TypeOK
      <2>5. TypeOK'
        BY <1>1, <1>3, <2>1, <2>2, <2>3, <2>4 DEF Before, TypeOK
      <2>6. Handshake(p)' /\ Handshake(q)'
        BY <1>1, <1>3, <2>1, <2>3, <2>4
        DEF Before, Popped, Pushed, PeerInv, Handshake, Pending, Begun
      <2>7. Receives(p)' /\ Receives(q)'
        BY <1>1, <1>3, <2>1, <2>3, <2>4
        DEF Before, Popped, Pushed, PeerInv, Receives, Pending, Begun, Working
      <2>8. Connecting(p)' /\ Connecting(q)'
        BY <1>1, <1>3, <2>1, <2>3, <2>4 DEF Before, Popped, Pushed, PeerInv, Connecting, Begun
      <2>9. Sending(p)' /\ Sending(q)'
        BY <1>1, <1>3, <2>1, <2>3, <2>4 DEF Before, Popped, Pushed, PeerInv, Sending, Working
      <2>10. Telling(p)' /\ Telling(q)'
        BY <1>1, <1>3, <2>1 DEF Before, PeerInv, Telling
      <2>11. Counting(p)' /\ Counting(q)'
        <3>1. /\ Unacknowledged(p)' = Unacknowledged(p)
              /\ Unacknowledged(q)' = Unacknowledged(q)
          <4>1. /\ Count(inbox'[p], "_send") = Count(inbox[p], "_send")
                /\ Count(inbox'[p], "_received") = Count(inbox[p], "_received") - 1
                /\ Count(inbox'[p], "_ack") = Count(inbox[p], "_ack")
                /\ Count(inbox'[q], "_send") = Count(inbox[q], "_send")
                /\ Count(inbox'[q], "_received") = Count(inbox[q], "_received")
                /\ Count(inbox'[q], "_ack") = Count(inbox[q], "_ack") + 1
            BY <1>1, <1>3, <2>1, <2>3, <2>4 DEF Before, Popped, Pushed
          <4>2. /\ Other(p) = q /\ Other(q) = p /\ held[p] \in Nat /\ held[q] \in Nat
                /\ Count(inbox[p], "_send") \in Nat /\ Count(inbox[p], "_received") \in Nat
                /\ Count(inbox[p], "_ack") \in Nat
                /\ Count(inbox[q], "_send") \in Nat /\ Count(inbox[q], "_received") \in Nat
                /\ Count(inbox[q], "_ack") \in Nat
                /\ Count(transit[p], "_received") \in Nat
                /\ transit'[p] = transit[p]
                /\ Count(transit[q], "_received") \in Nat
                /\ transit'[q] = transit[q]
                /\ held'[p] = held[p]
                /\ held'[q] = held[q]
            BY <1>1, <2>1 DEF Before
          <4>3. Unacknowledged(p)' = Unacknowledged(p)
            BY <4>1, <4>2 DEF Unacknowledged
          <4>4. Unacknowledged(q)' = Unacknowledged(q)
            BY <4>1, <4>2 DEF Unacknowledged
          <4> QED  BY <4>3, <4>4
        <3>2. Unacknowledged(p) \in Nat /\ Unacknowledged(q) \in Nat
          BY <1>1 DEF Before, Unacknowledged
        <3>3. Counting(p)'
          BY <1>1, <1>3, <2>1, <2>3, <2>4, <3>1, <3>2
          DEF Before, Popped, Pushed, PeerInv, Counting, Working
        <3>4. Counting(q)'
          BY <1>1, <1>3, <2>1, <2>3, <2>4, <3>1, <3>2
          DEF Before, Popped, Pushed, PeerInv, Counting, Working
        <3> QED  BY <3>3, <3>4
      <2>12. Asserting(p)' /\ Asserting(q)'
        BY <1>1, <1>3, <2>1 DEF Before, PeerInv, Asserting
      <2> QED  BY <1>1, <2>5, <2>6, <2>7, <2>8, <2>9, <2>10, <2>11, <2>12, AfterStep DEF PeerInv
    <1> QED  BY <1>2, <1>3

(***************************************************************************)
(* A message has been released by the other end.                           *)
(***************************************************************************)
LEMMA KeepsAck ==
    ASSUME LoopbackInv, NEW p \in Peers, _ack(p)
    PROVE  LoopbackInv'
    <1>1. PICK q : Before(p, q)
      BY BeforeStep
    <1>2. CASE driver[p] = "connected" /\ Crosses(buffered[p], buffered[p] - 1)
      <2>1. /\ Head(inbox[p]).name = "_ack"
            /\ inbox[p] # <<>>
            /\ inbox' = Pop(inbox, p)
            /\ buffered' = [buffered EXCEPT ![p] = @ - 1]
            /\ io' = Push(io, p, Event("_onWebSocketWriteable"))
            /\ heard' = [heard EXCEPT ![p] = @ + 1]
            /\ UNCHANGED <<state, started, terminated, closes, hasSocket, writeable, sends>>
            /\ UNCHANGED <<held, driver, transit, phase, asserted, lateClose>>
        BY <1>2 DEF _ack, Driven, Next1, appVars
      <2>2. inbox' \in [Peers -> Seq(Driving)] /\ Popped(inbox, inbox', p, "_ack")
        BY <1>1, <1>2, <2>1, AfterPop DEF Before, TypeOK
      <2>3. io' \in [Peers -> Seq(IoEvents)] /\ Pushed(io, io', p, "_onWebSocketWriteable")
        <3>1. PICK e \in IoEvents : e = Event("_onWebSocketWriteable") /\ e.name = "_onWebSocketWriteable"
          BY Posted
        <3>2. io' = Push(io, p, e)
          BY <1>1, <1>2, <2>1, <2>2, <3>1 DEF Before
        <3>3. io \in [Peers -> Seq(IoEvents)] /\ p \in Peers
          BY <1>1 DEF Before, TypeOK
        <3> QED  BY <3>1, <3>2, <3>3, AfterPush
      <2>4. buffered'[p] = buffered[p] - 1 /\ buffered'[q] = buffered[q]
        BY <1>1, <1>2, <2>1, <2>2, <2>3 DEF Before, TypeOK, Set
      <2>5. buffered[p] > 0
        <3>1. buffered[p] = Unacknowledged(p)
          BY <1>1, <1>2 DEF Before, PeerInv, Counting
        <3>2. Count(inbox[p], "_ack") > 0
          BY <1>1, <1>2, <2>1, <2>2, <2>3, <2>4 DEF Popped
        <3> QED  BY <1>1, <3>1, <3>2 DEF Before, Unacknowledged
      <2>6. buffered' \in [Peers -> Nat]
        BY <1>1, <2>1, <2>5, Counted DEF Before, TypeOK
      <2>7. heard' \in [Peers -> Nat]
        BY <1>1, <2>1, Counted DEF Before, TypeOK
      <2>8. TypeOK'
        BY <1>1, <1>2, <2>1, <2>2, <2>3, <2>4, <2>5, <2>6, <2>7 DEF Before, TypeOK
      <2>9. Handshake(p)' /\ Handshake(q)'
        BY <1>1, <1>2, <2>1, <2>2, <2>4, <2>5 DEF Before, Popped, PeerInv, Handshake, Pending, Begun
      <2>10. Receives(p)' /\ Receives(q)'
        BY <1>1, <1>2, <2>1, <2>2, <2>4, <2>5
        DEF Before, Popped, PeerInv, Receives, Pending, Begun, Working
      <2>11. Connecting(p)' /\ Connecting(q)'
        BY <1>1, <1>2, <2>1, <2>2, <2>3, <2>4, <2>5
        DEF Before, Popped, Pushed, PeerInv, Connecting, Begun
      <2>12. Sending(p)' /\ Sending(q)'
        BY <1>1, <1>2, <2>1, <2>2, <2>3, <2>4, <2>5
        DEF Before, Popped, Pushed, PeerInv, Sending, Working
      <2>13. Telling(p)' /\ Telling(q)'
        BY <1>1, <1>2, <2>1, <2>3, <2>4, <2>5 DEF Before, Pushed, PeerInv, Telling
      <2>14. Counting(p)' /\ Counting(q)'
        <3>1. /\ Unacknowledged(p)' = Unacknowledged(p) - 1
              /\ Unacknowledged(q)' = Unacknowledged(q)
          <4>1. /\ Count(inbox'[p], "_send") = Count(inbox[p], "_send")
                /\ Count(inbox'[p], "_received") = Count(inbox[p], "_received")
                /\ Count(inbox'[p], "_ack") = Count(inbox[p], "_ack") - 1
                /\ Count(inbox'[q], "_send") = Count(inbox[q], "_send")
                /\ Count(inbox'[q], "_received") = Count(inbox[q], "_received")
                /\ Count(inbox'[q], "_ack") = Count(inbox[q], "_ack")
            BY <1>1, <1>2, <2>1, <2>2, <2>3, <2>4, <2>5 DEF Before, Popped, Pushed
          <4>2. /\ Other(p) = q /\ Other(q) = p /\ held[p] \in Nat /\ held[q] \in Nat
                /\ Count(inbox[p], "_send") \in Nat /\ Count(inbox[p], "_received") \in Nat
                /\ Count(inbox[p], "_ack") \in Nat
                /\ Count(inbox[q], "_send") \in Nat /\ Count(inbox[q], "_received") \in Nat
                /\ Count(inbox[q], "_ack") \in Nat
                /\ Count(transit[p], "_received") \in Nat
                /\ transit'[p] = transit[p]
                /\ Count(transit[q], "_received") \in Nat
                /\ transit'[q] = transit[q]
                /\ held'[p] = held[p]
                /\ held'[q] = held[q]
            BY <1>1, <2>1 DEF Before
          <4>3. Unacknowledged(p)' = Unacknowledged(p) - 1
            BY <2>4, <4>1, <4>2 DEF Unacknowledged
          <4>4. Unacknowledged(q)' = Unacknowledged(q)
            BY <2>4, <4>1, <4>2 DEF Unacknowledged
          <4> QED  BY <4>3, <4>4
        <3>2. Unacknowledged(p) \in Nat /\ Unacknowledged(q) \in Nat
          BY <1>1 DEF Before, Unacknowledged
        <3>3. Counting(p)'
          <4>1. (driver[p] # "closed" => buffered[p] = Unacknowledged(p))'
            BY <1>1, <1>2, <2>1, <2>2, <2>3, <2>4, <2>5, <3>1, <3>2
            DEF Before, Popped, Pushed, PeerInv, Counting, Working
          <4>2. (driver[p] \notin Working => buffered[p] = 0)'
            BY <1>1, <1>2, <2>1, <2>2, <2>3, <2>4, <2>5, <3>1, <3>2
            DEF Before, Popped, Pushed, PeerInv, Counting, Working
          <4>3. (driver[p] = "connected" /\ ~writeable[p] =>
                   buffered[p] > SendBuffer \/ Count(io[p], "_onWebSocketWriteable") > 0)'
            BY <1>1, <1>2, <2>1, <2>2, <2>3, <2>4, <2>5, <3>1, <3>2
            DEF Before, Popped, Pushed, PeerInv, Counting, Working
          <4> QED  BY <4>1, <4>2, <4>3 DEF Counting
        <3>4. Counting(q)'
          BY <1>1, <1>2, <2>1, <2>2, <2>3, <2>4, <2>5, <3>1, <3>2
          DEF Before, Popped, Pushed, PeerInv, Counting, Working
        <3> QED  BY <3>3, <3>4
      <2>15. Asserting(p)' /\ Asserting(q)'
        BY <1>1, <1>2, <2>1, <2>4, <2>5 DEF Before, PeerInv, Asserting
      <2> QED  BY <1>1, <2>8, <2>9, <2>10, <2>11, <2>12, <2>13, <2>14, <2>15, AfterStep DEF PeerInv
    <1>3. CASE driver[p] = "connected" /\ ~Crosses(buffered[p], buffered[p] - 1)
      <2>1. /\ Head(inbox[p]).name = "_ack"
            /\ inbox[p] # <<>>
            /\ inbox' = Pop(inbox, p)
            /\ buffered' = [buffered EXCEPT ![p] = @ - 1]
            /\ UNCHANGED <<state, started, terminated, closes, io, hasSocket, writeable, sends>>
            /\ UNCHANGED <<held, driver, transit, phase, heard, asserted, lateClose>>
        BY <1>3 DEF _ack, Driven, Next1, appVars
      <2>2. inbox' \in [Peers -> Seq(Driving)] /\ Popped(inbox, inbox', p, "_ack")
        BY <1>1, <1>3, <2>1, AfterPop DEF Before, TypeOK
      <2>3. buffered'[p] = buffered[p] - 1 /\ buffered'[q] = buffered[q]
        BY <1>1, <1>3, <2>1, <2>2 DEF Before, TypeOK, Set
      <2>4. buffered[p] > 0
        <3>1. buffered[p] = Unacknowledged(p)
          BY <1>1, <1>3 DEF Before, PeerInv, Counting
        <3>2. Count(inbox[p], "_ack") > 0
          BY <1>1, <1>3, <2>1, <2>2, <2>3 DEF Popped
        <3> QED  BY <1>1, <3>1, <3>2 DEF Before, Unacknowledged
      <2>5. buffered' \in [Peers -> Nat]
        BY <1>1, <2>1, <2>4, Counted DEF Before, TypeOK
      <2>6. TypeOK'
        BY <1>1, <1>3, <2>1, <2>2, <2>3, <2>4, <2>5 DEF Before, TypeOK
      <2>7. Handshake(p)' /\ Handshake(q)'
        BY <1>1, <1>3, <2>1, <2>2, <2>3, <2>4 DEF Before, Popped, PeerInv, Handshake, Pending, Begun
      <2>8. Receives(p)' /\ Receives(q)'
        BY <1>1, <1>3, <2>1, <2>2, <2>3, <2>4
        DEF Before, Popped, PeerInv, Receives, Pending, Begun, Working
      <2>9. Connecting(p)' /\ Connecting(q)'
        BY <1>1, <1>3, <2>1, <2>2, <2>3, <2>4 DEF Before, Popped, PeerInv, Connecting, Begun
      <2>10. Sending(p)' /\ Sending(q)'
        BY <1>1, <1>3, <2>1, <2>2, <2>3, <2>4 DEF Before, Popped, PeerInv, Sending, Working
      <2>11. Telling(p)' /\ Telling(q)'
        BY <1>1, <1>3, <2>1, <2>3, <2>4 DEF Before, PeerInv, Telling
      <2>12. Counting(p)' /\ Counting(q)'
        <3>1. /\ Unacknowledged(p)' = Unacknowledged(p) - 1
              /\ Unacknowledged(q)' = Unacknowledged(q)
          <4>1. /\ Count(inbox'[p], "_send") = Count(inbox[p], "_send")
                /\ Count(inbox'[p], "_received") = Count(inbox[p], "_received")
                /\ Count(inbox'[p], "_ack") = Count(inbox[p], "_ack") - 1
                /\ Count(inbox'[q], "_send") = Count(inbox[q], "_send")
                /\ Count(inbox'[q], "_received") = Count(inbox[q], "_received")
                /\ Count(inbox'[q], "_ack") = Count(inbox[q], "_ack")
            BY <1>1, <1>3, <2>1, <2>2, <2>3, <2>4 DEF Before, Popped
          <4>2. /\ Other(p) = q /\ Other(q) = p /\ held[p] \in Nat /\ held[q] \in Nat
                /\ Count(inbox[p], "_send") \in Nat /\ Count(inbox[p], "_received") \in Nat
                /\ Count(inbox[p], "_ack") \in Nat
                /\ Count(inbox[q], "_send") \in Nat /\ Count(inbox[q], "_received") \in Nat
                /\ Count(inbox[q], "_ack") \in Nat
                /\ Count(transit[p], "_received") \in Nat
                /\ transit'[p] = transit[p]
                /\ Count(transit[q], "_received") \in Nat
                /\ transit'[q] = transit[q]
                /\ held'[p] = held[p]
                /\ held'[q] = held[q]
            BY <1>1, <2>1 DEF Before
          <4>3. Unacknowledged(p)' = Unacknowledged(p) - 1
            BY <2>3, <4>1, <4>2 DEF Unacknowledged
          <4>4. Unacknowledged(q)' = Unacknowledged(q)
            BY <2>3, <4>1, <4>2 DEF Unacknowledged
          <4> QED  BY <4>3, <4>4
        <3>2. Unacknowledged(p) \in Nat /\ Unacknowledged(q) \in Nat
          BY <1>1 DEF Before, Unacknowledged
        <3>3. Counting(p)'
          BY <1>1, <1>3, <2>1, <2>2, <2>3, <2>4, <3>1, <3>2
          DEF Before, Popped, PeerInv, Counting, Working, Crosses
        <3>4. Counting(q)'
          BY <1>1, <1>3, <2>1, <2>2, <2>3, <2>4, <3>1, <3>2
          DEF Before, Popped, PeerInv, Counting, Working, Crosses
        <3> QED  BY <3>3, <3>4
      <2>13. Asserting(p)' /\ Asserting(q)'
        BY <1>1, <1>3, <2>1, <2>3, <2>4 DEF Before, PeerInv, Asserting
      <2> QED  BY <1>1, <2>6, <2>7, <2>8, <2>9, <2>10, <2>11, <2>12, <2>13, AfterStep DEF PeerInv
    <1>4. CASE driver[p] # "connected"
      <2>1. /\ Head(inbox[p]).name = "_ack"
            /\ inbox[p] # <<>>
            /\ inbox' = Pop(inbox, p)
            /\ UNCHANGED <<state, started, terminated, closes, io, hasSocket, writeable, sends>>
            /\ UNCHANGED <<held, driver, buffered, transit, phase, heard, asserted, lateClose>>
        BY <1>4 DEF _ack, Driven, Next1, appVars
      <2>2. inbox' \in [Peers -> Seq(Driving)] /\ Popped(inbox, inbox', p, "_ack")
        BY <1>1, <1>4, <2>1, AfterPop DEF Before, TypeOK
      <2>3. TypeOK'
        BY <1>1, <1>4, <2>1, <2>2 DEF Before, TypeOK
      <2>4. driver[p] = "closed"
        <3>1. Count(inbox[p], "_ack") > 0
          BY <2>2 DEF Popped
        <3>2. Unacknowledged(p) > 0
          BY <1>1, <3>1 DEF Before, Unacknowledged
        <3> QED  BY <1>1, <1>4, <3>2 DEF Before, PeerInv, Counting, Working
      <2>5. Handshake(p)' /\ Handshake(q)'
        BY <1>1, <1>4, <2>1, <2>2, <2>4 DEF Before, Popped, PeerInv, Handshake, Pending, Begun
      <2>6. Receives(p)' /\ Receives(q)'
        BY <1>1, <1>4, <2>1, <2>2, <2>4
        DEF Before, Popped, PeerInv, Receives, Pending, Begun, Working
      <2>7. Connecting(p)' /\ Connecting(q)'
        BY <1>1, <1>4, <2>1, <2>2, <2>4 DEF Before, Popped, PeerInv, Connecting, Begun
      <2>8. Sending(p)' /\ Sending(q)'
        BY <1>1, <1>4, <2>1, <2>2, <2>4 DEF Before, Popped, PeerInv, Sending, Working
      <2>9. Telling(p)' /\ Telling(q)'
        BY <1>1, <1>4, <2>1, <2>4 DEF Before, PeerInv, Telling
      <2>10. Counting(p)' /\ Counting(q)'
        <3>1. /\ Unacknowledged(p)' = Unacknowledged(p) - 1
              /\ Unacknowledged(q)' = Unacknowledged(q)
          <4>1. /\ Count(inbox'[p], "_send") = Count(inbox[p], "_send")
                /\ Count(inbox'[p], "_received") = Count(inbox[p], "_received")
                /\ Count(inbox'[p], "_ack") = Count(inbox[p], "_ack") - 1
                /\ Count(inbox'[q], "_send") = Count(inbox[q], "_send")
                /\ Count(inbox'[q], "_received") = Count(inbox[q], "_received")
                /\ Count(inbox'[q], "_ack") = Count(inbox[q], "_ack")
            BY <1>1, <1>4, <2>1, <2>2, <2>4 DEF Before, Popped
          <4>2. /\ Other(p) = q /\ Other(q) = p /\ held[p] \in Nat /\ held[q] \in Nat
                /\ Count(inbox[p], "_send") \in Nat /\ Count(inbox[p], "_received") \in Nat
                /\ Count(inbox[p], "_ack") \in Nat
                /\ Count(inbox[q], "_send") \in Nat /\ Count(inbox[q], "_received") \in Nat
                /\ Count(inbox[q], "_ack") \in Nat
                /\ Count(transit[p], "_received") \in Nat
                /\ transit'[p] = transit[p]
                /\ Count(transit[q], "_received") \in Nat
                /\ transit'[q] = transit[q]
                /\ held'[p] = held[p]
                /\ held'[q] = held[q]
            BY <1>1, <2>1 DEF Before
          <4>3. Unacknowledged(p)' = Unacknowledged(p) - 1
            BY <4>1, <4>2 DEF Unacknowledged
          <4>4. Unacknowledged(q)' = Unacknowledged(q)
            BY <4>1, <4>2 DEF Unacknowledged
          <4> QED  BY <4>3, <4>4
        <3>2. Unacknowledged(p) \in Nat /\ Unacknowledged(q) \in Nat
          BY <1>1 DEF Before, Unacknowledged
        <3>3. Counting(p)'
          BY <1>1, <1>4, <2>1, <2>2, <2>4, <3>1, <3>2 DEF Before, Popped, PeerInv, Counting, Working
        <3>4. Counting(q)'
          BY <1>1, <1>4, <2>1, <2>2, <2>4, <3>1, <3>2 DEF Before, Popped, PeerInv, Counting, Working
        <3> QED  BY <3>3, <3>4
      <2>11. Asserting(p)' /\ Asserting(q)'
        BY <1>1, <1>4, <2>1, <2>4 DEF Before, PeerInv, Asserting
      <2> QED  BY <1>1, <2>3, <2>5, <2>6, <2>7, <2>8, <2>9, <2>10, <2>11, AfterStep DEF PeerInv
    <1> QED  BY <1>2, <1>3, <1>4

(***************************************************************************)
(* The Driver closes, and tells the other end.                             *)
(***************************************************************************)
LEMMA KeepsDriverClose ==
    ASSUME LoopbackInv, NEW p \in Peers, _close(p)
    PROVE  LoopbackInv'
    <1>1. PICK q : Before(p, q)
      BY BeforeStep
    <1>2. CASE driver[p] = "unconnected"
      <2>1. /\ Head(inbox[p]).name = "_close"
            /\ inbox[p] # <<>>
            /\ inbox' = Pop(inbox, p)
            /\ driver' = Set(driver, p, "closed")
            /\ UNCHANGED <<state, started, terminated, closes, io, hasSocket, writeable, sends>>
            /\ UNCHANGED <<held, buffered, transit, phase, heard, asserted, lateClose>>
        BY <1>2 DEF _close, Driven, Next1, Closed, TellsPeer, appVars, ioVars, Fails
      <2>2. inbox' \in [Peers -> Seq(Driving)] /\ Popped(inbox, inbox', p, "_close")
        BY <1>1, <1>2, <2>1, AfterPop DEF Before, TypeOK
      <2>3. driver'[p] = "closed" /\ driver'[q] = driver[q]
        BY <1>1, <1>2, <2>1, <2>2 DEF Before, TypeOK, Set
      <2>4. TypeOK'
        BY <1>1, <1>2, <2>1, <2>2, <2>3 DEF Before, TypeOK, Set
      <2>5. Handshake(p)' /\ Handshake(q)'
        BY <1>1, <1>2, <2>1, <2>2, <2>3 DEF Before, Popped, PeerInv, Handshake, Pending, Begun
      <2>6. Receives(p)' /\ Receives(q)'
        BY <1>1, <1>2, <2>1, <2>2, <2>3
        DEF Before, Popped, PeerInv, Receives, Pending, Begun, Working
      <2>7. Connecting(p)' /\ Connecting(q)'
        BY <1>1, <1>2, <2>1, <2>2, <2>3 DEF Before, Popped, PeerInv, Connecting, Begun
      <2>8. Sending(p)' /\ Sending(q)'
        BY <1>1, <1>2, <2>1, <2>2, <2>3 DEF Before, Popped, PeerInv, Sending, Working
      <2>9. Telling(p)' /\ Telling(q)'
        BY <1>1, <1>2, <2>1, <2>3 DEF Before, PeerInv, Telling
      <2>10. Counting(p)' /\ Counting(q)'
        <3>1. Unacknowledged(p)' = Unacknowledged(p) /\ Unacknowledged(q)' = Unacknowledged(q)
          BY <1>1, <1>2, <2>1, <2>2, <2>3 DEF Before, Popped, Unacknowledged
        <3>2. Unacknowledged(p) \in Nat /\ Unacknowledged(q) \in Nat
          BY <1>1 DEF Before, Unacknowledged
        <3>3. Counting(p)'
          BY <1>1, <1>2, <2>1, <2>2, <2>3, <3>1, <3>2 DEF Before, Popped, PeerInv, Counting, Working
        <3>4. Counting(q)'
          BY <1>1, <1>2, <2>1, <2>2, <2>3, <3>1, <3>2 DEF Before, Popped, PeerInv, Counting, Working
        <3> QED  BY <3>3, <3>4
      <2>11. Asserting(p)' /\ Asserting(q)'
        BY <1>1, <1>2, <2>1, <2>3 DEF Before, PeerInv, Asserting
      <2> QED  BY <1>1, <2>4, <2>5, <2>6, <2>7, <2>8, <2>9, <2>10, <2>11, AfterStep DEF PeerInv
    <1>3. CASE driver[p] \in {"connecting", "connected"}
      <2>1. /\ Head(inbox[p]).name = "_close"
            /\ inbox[p] # <<>>
            /\ inbox' = Pop(inbox, p)
            /\ driver' = Set(driver, p, "closed")
            /\ phase' = Set(phase, p, "closed")
            /\ heard' = [heard EXCEPT ![p] = @ + 1]
            /\ io' = Push(io, p, CloseEvent("_closed", Head(inbox[p]).code))
            /\ transit' = Push(transit, Other(p), CloseEvent("_closed", Head(inbox[p]).code))
            /\ UNCHANGED <<state, started, terminated, closes, hasSocket, writeable>>
            /\ UNCHANGED <<sends, held, buffered, asserted, lateClose>>
        BY <1>3 DEF _close, Driven, Next1, Closed, TellsPeer, appVars, ioVars, Fails
      <2>2. inbox' \in [Peers -> Seq(Driving)] /\ Popped(inbox, inbox', p, "_close")
        BY <1>1, <1>3, <2>1, AfterPop DEF Before, TypeOK
      <2>3. PICK code : code = Head(inbox[p]).code /\ code \in Codes \union {"none", "normal"}
        BY <1>1, <2>1, AfterPop, CodeOf DEF Before, TypeOK
      <2>4. transit' \in [Peers -> Seq(Sent)] /\ Pushed(transit, transit', q, "_closed")
        <3>1. PICK e \in Sent : e = CloseEvent("_closed", code) /\ e.name = "_closed"
          BY <2>3, Posted
        <3>2. transit' = Push(transit, q, e)
          BY <1>1, <1>3, <2>1, <2>2, <2>3, <3>1 DEF Before
        <3>3. transit \in [Peers -> Seq(Sent)] /\ q \in Peers
          BY <1>1 DEF Before, TypeOK
        <3> QED  BY <3>1, <3>2, <3>3, AfterPush
      <2>5. io' \in [Peers -> Seq(IoEvents)] /\ Pushed(io, io', p, "_closed")
        <3>1. PICK e \in IoEvents : e = CloseEvent("_closed", code) /\ e.name = "_closed"
          BY <2>3, Posted
        <3>2. io' = Push(io, p, e)
          BY <1>1, <1>3, <2>1, <2>2, <2>3, <2>4, <3>1 DEF Before
        <3>3. io \in [Peers -> Seq(IoEvents)] /\ p \in Peers
          BY <1>1 DEF Before, TypeOK
        <3> QED  BY <3>1, <3>2, <3>3, AfterPush
      <2>6. /\ driver'[p] = "closed" /\ driver'[q] = driver[q]
            /\ phase'[p] = "closed" /\ phase'[q] = phase[q]
        BY <1>1, <1>3, <2>1, <2>2, <2>3, <2>4, <2>5 DEF Before, TypeOK, Set
      <2>7. heard' \in [Peers -> Nat]
        BY <1>1, <2>1, Counted DEF Before, TypeOK
      <2>8. TypeOK'
        BY <1>1, <1>3, <2>1, <2>2, <2>3, <2>4, <2>5, <2>6, <2>7 DEF Before, TypeOK, Set
      <2>9. Count(io'[p], "_closed") > 0
        BY <1>1, <2>5 DEF Before, Pushed
      <2>10. Handshake(p)' /\ Handshake(q)'
        BY <1>1, <1>3, <2>1, <2>2, <2>4, <2>6, <2>9
        DEF Before, Popped, Pushed, PeerInv, Handshake, Pending, Begun
      <2>11. Receives(p)' /\ Receives(q)'
        BY <1>1, <1>3, <2>1, <2>2, <2>4, <2>6, <2>9
        DEF Before, Popped, Pushed, PeerInv, Receives, Pending, Begun, Working
      <2>12. Connecting(p)' /\ Connecting(q)'
        BY <1>1, <1>3, <2>1, <2>2, <2>5, <2>6, <2>9
        DEF Before, Popped, Pushed, PeerInv, Connecting, Begun
      <2>13. Sending(p)' /\ Sending(q)'
        BY <1>1, <1>3, <2>1, <2>2, <2>5, <2>6, <2>9
        DEF Before, Popped, Pushed, PeerInv, Sending, Working
      <2>14. Telling(p)' /\ Telling(q)'
        BY <1>1, <1>3, <2>1, <2>5, <2>6, <2>9 DEF Before, Pushed, PeerInv, Telling, Connecting
      <2>15. Counting(p)' /\ Counting(q)'
        <3>1. Unacknowledged(p)' = Unacknowledged(p) /\ Unacknowledged(q)' = Unacknowledged(q)
          BY <1>1, <1>3, <2>1, <2>2, <2>4, <2>5, <2>6, <2>9
          DEF Before, Popped, Pushed, Unacknowledged
        <3>2. Unacknowledged(p) \in Nat /\ Unacknowledged(q) \in Nat
          BY <1>1 DEF Before, Unacknowledged
        <3>3. Counting(p)'
          BY <1>1, <1>3, <2>1, <2>2, <2>4, <2>5, <2>6, <2>9, <3>1, <3>2
          DEF Before, Popped, Pushed, PeerInv, Counting, Working
        <3>4. Counting(q)'
          BY <1>1, <1>3, <2>1, <2>2, <2>4, <2>5, <2>6, <2>9, <3>1, <3>2
          DEF Before, Popped, Pushed, PeerInv, Counting, Working
        <3> QED  BY <3>3, <3>4
      <2>16. Asserting(p)' /\ Asserting(q)'
        BY <1>1, <1>3, <2>1, <2>6, <2>9 DEF Before, PeerInv, Asserting
      <2> QED  BY <1>1, <2>8, <2>10, <2>11, <2>12, <2>13, <2>14, <2>15, <2>16, AfterStep DEF PeerInv
    <1>4. CASE driver[p] \notin {"unconnected", "connecting", "connected"}
      <2>1. /\ Head(inbox[p]).name = "_close"
            /\ inbox[p] # <<>>
            /\ inbox' = Pop(inbox, p)
            /\ asserted' = [asserted EXCEPT ![p] = @ \union {"_close"}]
            /\ UNCHANGED <<state, started, terminated, closes, io, hasSocket, writeable, sends>>
            /\ UNCHANGED <<held, driver, buffered, transit, phase, heard, lateClose>>
        BY <1>4 DEF _close, Driven, Next1, Closed, TellsPeer, appVars, ioVars, Fails
      <2>2. inbox' \in [Peers -> Seq(Driving)] /\ Popped(inbox, inbox', p, "_close")
        BY <1>1, <1>4, <2>1, AfterPop DEF Before, TypeOK
      <2>3. /\ asserted'[p] = asserted[p] \union {"_close"}
            /\ asserted'[q] = asserted[q]
        BY <1>1, <1>4, <2>1, <2>2 DEF Before, TypeOK, Set
      <2>4. TypeOK'
        BY <1>1, <1>4, <2>1, <2>2, <2>3 DEF Before, TypeOK
      <2>5. driver[p] = "closed" \/ terminated[p]
        BY <1>1, <1>4, <2>1, <2>2, <2>3 DEF Before, Popped, TypeOK, PeerInv, Connecting, Begun
      <2>6. Handshake(p)' /\ Handshake(q)'
        BY <1>1, <1>4, <2>1, <2>2, <2>3, <2>5 DEF Before, Popped, PeerInv, Handshake, Pending, Begun
      <2>7. Receives(p)' /\ Receives(q)'
        BY <1>1, <1>4, <2>1, <2>2, <2>3, <2>5
        DEF Before, Popped, PeerInv, Receives, Pending, Begun, Working
      <2>8. Connecting(p)' /\ Connecting(q)'
        BY <1>1, <1>4, <2>1, <2>2, <2>3, <2>5 DEF Before, Popped, PeerInv, Connecting, Begun
      <2>9. Sending(p)' /\ Sending(q)'
        BY <1>1, <1>4, <2>1, <2>2, <2>3, <2>5 DEF Before, Popped, PeerInv, Sending, Working
      <2>10. Telling(p)' /\ Telling(q)'
        BY <1>1, <1>4, <2>1, <2>3, <2>5 DEF Before, PeerInv, Telling
      <2>11. Counting(p)' /\ Counting(q)'
        <3>1. Unacknowledged(p)' = Unacknowledged(p) /\ Unacknowledged(q)' = Unacknowledged(q)
          BY <1>1, <1>4, <2>1, <2>2, <2>3, <2>5 DEF Before, Popped, Unacknowledged
        <3>2. Unacknowledged(p) \in Nat /\ Unacknowledged(q) \in Nat
          BY <1>1 DEF Before, Unacknowledged
        <3>3. Counting(p)'
          BY <1>1, <1>4, <2>1, <2>2, <2>3, <2>5, <3>1, <3>2
          DEF Before, Popped, PeerInv, Counting, Working
        <3>4. Counting(q)'
          BY <1>1, <1>4, <2>1, <2>2, <2>3, <2>5, <3>1, <3>2
          DEF Before, Popped, PeerInv, Counting, Working
        <3> QED  BY <3>3, <3>4
      <2>12. Asserting(p)' /\ Asserting(q)'
        BY <1>1, <1>4, <2>1, <2>3, <2>5 DEF Before, PeerInv, Asserting
      <2> QED  BY <1>1, <2>4, <2>6, <2>7, <2>8, <2>9, <2>10, <2>11, <2>12, AfterStep DEF PeerInv
    <1> QED  BY <1>2, <1>3, <1>4

(***************************************************************************)
(* The other end has closed.                                               *)
(***************************************************************************)
LEMMA KeepsDriverClosed ==
    ASSUME LoopbackInv, NEW p \in Peers, _closed(p)
    PROVE  LoopbackInv'
    <1>1. PICK q : Before(p, q)
      BY BeforeStep
    <1>2. CASE driver[p] = "closed"
      <2>1. /\ Head(inbox[p]).name = "_closed"
            /\ inbox[p] # <<>>
            /\ inbox' = Pop(inbox, p)
            /\ UNCHANGED <<state, started, terminated, closes, io, hasSocket, writeable, sends>>
            /\ UNCHANGED <<held, driver, buffered, transit, phase, heard, asserted, lateClose>>
        BY <1>2 DEF _closed, Driven, Next1, Ignores, Closed, appVars, ioVars, history
      <2>2. inbox' \in [Peers -> Seq(Driving)] /\ Popped(inbox, inbox', p, "_closed")
        BY <1>1, <1>2, <2>1, AfterPop DEF Before, TypeOK
      <2>3. TypeOK'
        BY <1>1, <1>2, <2>1, <2>2 DEF Before, TypeOK
      <2>4. Handshake(p)' /\ Handshake(q)'
        BY <1>1, <1>2, <2>1, <2>2 DEF Before, Popped, PeerInv, Handshake, Pending, Begun
      <2>5. Receives(p)' /\ Receives(q)'
        BY <1>1, <1>2, <2>1, <2>2 DEF Before, Popped, PeerInv, Receives, Pending, Begun, Working
      <2>6. Connecting(p)' /\ Connecting(q)'
        BY <1>1, <1>2, <2>1, <2>2 DEF Before, Popped, PeerInv, Connecting, Begun
      <2>7. Sending(p)' /\ Sending(q)'
        BY <1>1, <1>2, <2>1, <2>2 DEF Before, Popped, PeerInv, Sending, Working
      <2>8. Telling(p)' /\ Telling(q)'
        BY <1>1, <1>2, <2>1 DEF Before, PeerInv, Telling
      <2>9. Counting(p)' /\ Counting(q)'
        <3>1. Unacknowledged(p)' = Unacknowledged(p) /\ Unacknowledged(q)' = Unacknowledged(q)
          BY <1>1, <1>2, <2>1, <2>2 DEF Before, Popped, Unacknowledged
        <3>2. Unacknowledged(p) \in Nat /\ Unacknowledged(q) \in Nat
          BY <1>1 DEF Before, Unacknowledged
        <3>3. Counting(p)'
          BY <1>1, <1>2, <2>1, <2>2, <3>1, <3>2 DEF Before, Popped, PeerInv, Counting, Working
        <3>4. Counting(q)'
          BY <1>1, <1>2, <2>1, <2>2, <3>1, <3>2 DEF Before, Popped, PeerInv, Counting, Working
        <3> QED  BY <3>3, <3>4
      <2>10. Asserting(p)' /\ Asserting(q)'
        BY <1>1, <1>2, <2>1 DEF Before, PeerInv, Asserting
      <2> QED  BY <1>1, <2>3, <2>4, <2>5, <2>6, <2>7, <2>8, <2>9, <2>10, AfterStep DEF PeerInv
    <1>3. CASE driver[p] \in {"unconnected", "peerConnecting"}
      <2>1. /\ Head(inbox[p]).name = "_closed"
            /\ inbox[p] # <<>>
            /\ inbox' = Pop(inbox, p)
            /\ driver' = Set(driver, p, "closed")
            /\ UNCHANGED <<state, started, terminated, closes, io, hasSocket, writeable, sends>>
            /\ UNCHANGED <<held, buffered, transit, phase, heard, asserted, lateClose>>
        BY <1>3 DEF _closed, Driven, Next1, Ignores, Closed, appVars, ioVars, history
      <2>2. inbox' \in [Peers -> Seq(Driving)] /\ Popped(inbox, inbox', p, "_closed")
        BY <1>1, <1>3, <2>1, AfterPop DEF Before, TypeOK
      <2>3. driver'[p] = "closed" /\ driver'[q] = driver[q]
        BY <1>1, <1>3, <2>1, <2>2 DEF Before, TypeOK, Set
      <2>4. TypeOK'
        BY <1>1, <1>3, <2>1, <2>2, <2>3 DEF Before, TypeOK, Set
      <2>5. Handshake(p)' /\ Handshake(q)'
        BY <1>1, <1>3, <2>1, <2>2, <2>3 DEF Before, Popped, PeerInv, Handshake, Pending, Begun
      <2>6. Receives(p)' /\ Receives(q)'
        BY <1>1, <1>3, <2>1, <2>2, <2>3
        DEF Before, Popped, PeerInv, Receives, Pending, Begun, Working
      <2>7. Connecting(p)' /\ Connecting(q)'
        BY <1>1, <1>3, <2>1, <2>2, <2>3 DEF Before, Popped, PeerInv, Connecting, Begun
      <2>8. Sending(p)' /\ Sending(q)'
        BY <1>1, <1>3, <2>1, <2>2, <2>3 DEF Before, Popped, PeerInv, Sending, Working
      <2>9. Telling(p)' /\ Telling(q)'
        BY <1>1, <1>3, <2>1, <2>3 DEF Before, PeerInv, Telling
      <2>10. Counting(p)' /\ Counting(q)'
        <3>1. Unacknowledged(p)' = Unacknowledged(p) /\ Unacknowledged(q)' = Unacknowledged(q)
          BY <1>1, <1>3, <2>1, <2>2, <2>3 DEF Before, Popped, Unacknowledged
        <3>2. Unacknowledged(p) \in Nat /\ Unacknowledged(q) \in Nat
          BY <1>1 DEF Before, Unacknowledged
        <3>3. Counting(p)'
          BY <1>1, <1>3, <2>1, <2>2, <2>3, <3>1, <3>2 DEF Before, Popped, PeerInv, Counting, Working
        <3>4. Counting(q)'
          BY <1>1, <1>3, <2>1, <2>2, <2>3, <3>1, <3>2 DEF Before, Popped, PeerInv, Counting, Working
        <3> QED  BY <3>3, <3>4
      <2>11. Asserting(p)' /\ Asserting(q)'
        BY <1>1, <1>3, <2>1, <2>3 DEF Before, PeerInv, Asserting
      <2> QED  BY <1>1, <2>4, <2>5, <2>6, <2>7, <2>8, <2>9, <2>10, <2>11, AfterStep DEF PeerInv
    <1>4. CASE driver[p] \in {"connecting", "connected"}
      <2>1. /\ Head(inbox[p]).name = "_closed"
            /\ inbox[p] # <<>>
            /\ inbox' = Pop(inbox, p)
            /\ driver' = Set(driver, p, "closed")
            /\ phase' = Set(phase, p, "closed")
            /\ heard' = [heard EXCEPT ![p] = @ + 1]
            /\ io' = Push(io, p, CloseEvent("_closed", Head(inbox[p]).code))
            /\ UNCHANGED <<state, started, terminated, closes, hasSocket, writeable>>
            /\ UNCHANGED <<sends, held, buffered, transit, asserted, lateClose>>
        BY <1>4 DEF _closed, Driven, Next1, Ignores, Closed, appVars, ioVars, history
      <2>2. inbox' \in [Peers -> Seq(Driving)] /\ Popped(inbox, inbox', p, "_closed")
        BY <1>1, <1>4, <2>1, AfterPop DEF Before, TypeOK
      <2>3. PICK code : code = Head(inbox[p]).code /\ code \in Codes \union {"none", "normal"}
        BY <1>1, <2>1, AfterPop, CodeOf DEF Before, TypeOK
      <2>4. io' \in [Peers -> Seq(IoEvents)] /\ Pushed(io, io', p, "_closed")
        <3>1. PICK e \in IoEvents : e = CloseEvent("_closed", code) /\ e.name = "_closed"
          BY <2>3, Posted
        <3>2. io' = Push(io, p, e)
          BY <1>1, <1>4, <2>1, <2>2, <2>3, <3>1 DEF Before
        <3>3. io \in [Peers -> Seq(IoEvents)] /\ p \in Peers
          BY <1>1 DEF Before, TypeOK
        <3> QED  BY <3>1, <3>2, <3>3, AfterPush
      <2>5. /\ driver'[p] = "closed" /\ driver'[q] = driver[q]
            /\ phase'[p] = "closed" /\ phase'[q] = phase[q]
        BY <1>1, <1>4, <2>1, <2>2, <2>3, <2>4 DEF Before, TypeOK, Set
      <2>6. heard' \in [Peers -> Nat]
        BY <1>1, <2>1, Counted DEF Before, TypeOK
      <2>7. TypeOK'
        BY <1>1, <1>4, <2>1, <2>2, <2>3, <2>4, <2>5, <2>6 DEF Before, TypeOK, Set
      <2>8. Count(io'[p], "_closed") > 0
        BY <1>1, <2>4 DEF Before, Pushed
      <2>9. Handshake(p)' /\ Handshake(q)'
        BY <1>1, <1>4, <2>1, <2>2, <2>5, <2>8 DEF Before, Popped, PeerInv, Handshake, Pending, Begun
      <2>10. Receives(p)' /\ Receives(q)'
        BY <1>1, <1>4, <2>1, <2>2, <2>5, <2>8
        DEF Before, Popped, PeerInv, Receives, Pending, Begun, Working
      <2>11. Connecting(p)' /\ Connecting(q)'
        BY <1>1, <1>4, <2>1, <2>2, <2>4, <2>5, <2>8
        DEF Before, Popped, Pushed, PeerInv, Connecting, Begun
      <2>12. Sending(p)' /\ Sending(q)'
        BY <1>1, <1>4, <2>1, <2>2, <2>4, <2>5, <2>8
        DEF Before, Popped, Pushed, PeerInv, Sending, Working
      <2>13. Telling(p)' /\ Telling(q)'
        BY <1>1, <1>4, <2>1, <2>4, <2>5, <2>8 DEF Before, Pushed, PeerInv, Telling, Connecting
      <2>14. Counting(p)' /\ Counting(q)'
        <3>1. Unacknowledged(p)' = Unacknowledged(p) /\ Unacknowledged(q)' = Unacknowledged(q)
          BY <1>1, <1>4, <2>1, <2>2, <2>4, <2>5, <2>8 DEF Before, Popped, Pushed, Unacknowledged
        <3>2. Unacknowledged(p) \in Nat /\ Unacknowledged(q) \in Nat
          BY <1>1 DEF Before, Unacknowledged
        <3>3. Counting(p)'
          BY <1>1, <1>4, <2>1, <2>2, <2>4, <2>5, <2>8, <3>1, <3>2
          DEF Before, Popped, Pushed, PeerInv, Counting, Working
        <3>4. Counting(q)'
          BY <1>1, <1>4, <2>1, <2>2, <2>4, <2>5, <2>8, <3>1, <3>2
          DEF Before, Popped, Pushed, PeerInv, Counting, Working
        <3> QED  BY <3>3, <3>4
      <2>15. Asserting(p)' /\ Asserting(q)'
        BY <1>1, <1>4, <2>1, <2>5, <2>8 DEF Before, PeerInv, Asserting
      <2> QED  BY <1>1, <2>7, <2>9, <2>10, <2>11, <2>12, <2>13, <2>14, <2>15, AfterStep DEF PeerInv
    <1>5. driver[p] \in {"unconnected", "peerConnecting", "connecting", "connected", "closed"}
      BY <1>1 DEF Before, TypeOK
    <1> QED  BY <1>2, <1>3, <1>4, <1>5

(***************************************************************************)
(* An event arrives, behind the ones sent before it.                       *)
(***************************************************************************)
LEMMA KeepsArrive ==
    ASSUME LoopbackInv, NEW p \in Peers, Arrive(p)
    PROVE  LoopbackInv'
    <1>1. PICK q : Before(p, q)
      BY BeforeStep
    <1>2. /\ transit[p] # <<>>
          /\ inbox' = Push(inbox, p, Head(transit[p]))
          /\ transit' = Pop(transit, p)
          /\ UNCHANGED <<state, started, terminated, closes, io, hasSocket, writeable, sends>>
          /\ UNCHANGED <<held, driver, buffered, phase, heard, asserted, lateClose>>
      BY DEF Arrive, appVars, ioVars, history
    <1>3. PICK e : e = Head(transit[p]) /\ e \in Sent /\ e \in Driving
      BY <1>1, <1>2, AfterPop DEF Before, TypeOK, Driving
    <1>4. e.name \in {"_peerIsConnecting", "_received", "_closed"}
      BY <1>3 DEF Sent, Events
    <1>5. CASE e.name = "_peerIsConnecting"
      <2>1. /\ transit[p] # <<>>
            /\ inbox' = Push(inbox, p, e)
            /\ transit' = Pop(transit, p)
            /\ UNCHANGED <<state, started, terminated, closes, io, hasSocket, writeable, sends>>
            /\ UNCHANGED <<held, driver, buffered, phase, heard, asserted, lateClose>>
        BY <1>2, <1>3
      <2>2. transit' \in [Peers -> Seq(Sent)] /\ Popped(transit, transit', p, "_peerIsConnecting")
        BY <1>1, <1>2, <1>3, <1>5, <2>1, AfterPop DEF Before, TypeOK
      <2>3. inbox' \in [Peers -> Seq(Driving)] /\ Pushed(inbox, inbox', p, "_peerIsConnecting")
        BY <1>1, <1>2, <1>3, <1>5, <2>1, <2>2, AfterPush DEF Before, TypeOK
      <2>4. TypeOK'
        BY <1>1, <1>2, <1>3, <1>5, <2>1, <2>2, <2>3 DEF Before, TypeOK
      <2>5. Handshake(p)' /\ Handshake(q)'
        BY <1>1, <1>2, <1>3, <1>5, <2>1, <2>2, <2>3
        DEF Before, Popped, Pushed, PeerInv, Handshake, Pending, Begun
      <2>6. Receives(p)' /\ Receives(q)'
        <3>1. Receives(p)'
          <4>1. (Pending(p, "_received") > 0 => driver[p] \in Begun)'
            BY <1>1, <1>2, <1>3, <1>5, <2>1, <2>2, <2>3
            DEF Before, Popped, Pushed, PeerInv, Receives, Pending, Begun, Working
          <4>2. (driver[p] \notin Working => Behind(inbox[p], "_peerIsConnecting", "_received"))'
            BY <1>1, <1>2, <1>3, <1>5, <2>1, <2>2, <2>3
            DEF Before, Popped, Pushed, PeerInv, Receives, Pending, Begun, Working
          <4>3. (driver[p] \notin Working =>
                   Count(inbox[p], "_peerIsConnecting") > 0
                   \/ Behind(transit[p], "_peerIsConnecting", "_received"))'
            BY <1>1, <1>2, <1>3, <1>5, <2>1, <2>2, <2>3
            DEF Before, Popped, Pushed, PeerInv, Receives, Pending, Begun, Working
          <4> QED  BY <4>1, <4>2, <4>3 DEF Receives
        <3>2. Receives(q)'
          BY <1>1, <1>2, <1>3, <1>5, <2>1, <2>2, <2>3
          DEF Before, Popped, Pushed, PeerInv, Receives, Pending, Begun, Working
        <3> QED  BY <3>1, <3>2
      <2>7. Connecting(p)' /\ Connecting(q)'
        BY <1>1, <1>2, <1>3, <1>5, <2>1, <2>3 DEF Before, Pushed, PeerInv, Connecting, Begun
      <2>8. Sending(p)' /\ Sending(q)'
        BY <1>1, <1>2, <1>3, <1>5, <2>1, <2>3 DEF Before, Pushed, PeerInv, Sending, Working
      <2>9. Telling(p)' /\ Telling(q)'
        BY <1>1, <1>2, <1>3, <1>5, <2>1 DEF Before, PeerInv, Telling
      <2>10. Counting(p)' /\ Counting(q)'
        <3>1. Unacknowledged(p)' = Unacknowledged(p) /\ Unacknowledged(q)' = Unacknowledged(q)
          BY <1>1, <1>2, <1>3, <1>5, <2>1, <2>2, <2>3 DEF Before, Popped, Pushed, Unacknowledged
        <3>2. Unacknowledged(p) \in Nat /\ Unacknowledged(q) \in Nat
          BY <1>1 DEF Before, Unacknowledged
        <3>3. Counting(p)'
          BY <1>1, <1>2, <1>3, <1>5, <2>1, <2>2, <2>3, <3>1, <3>2
          DEF Before, Popped, Pushed, PeerInv, Counting, Working
        <3>4. Counting(q)'
          BY <1>1, <1>2, <1>3, <1>5, <2>1, <2>2, <2>3, <3>1, <3>2
          DEF Before, Popped, Pushed, PeerInv, Counting, Working
        <3> QED  BY <3>3, <3>4
      <2>11. Asserting(p)' /\ Asserting(q)'
        BY <1>1, <1>2, <1>3, <1>5, <2>1 DEF Before, PeerInv, Asserting
      <2> QED  BY <1>1, <2>4, <2>5, <2>6, <2>7, <2>8, <2>9, <2>10, <2>11, AfterStep DEF PeerInv
    <1>6. CASE e.name = "_received"
      <2>1. /\ transit[p] # <<>>
            /\ inbox' = Push(inbox, p, e)
            /\ transit' = Pop(transit, p)
            /\ UNCHANGED <<state, started, terminated, closes, io, hasSocket, writeable, sends>>
            /\ UNCHANGED <<held, driver, buffered, phase, heard, asserted, lateClose>>
        BY <1>2, <1>3
      <2>2. transit' \in [Peers -> Seq(Sent)] /\ Popped(transit, transit', p, "_received")
        BY <1>1, <1>2, <1>3, <1>6, <2>1, AfterPop DEF Before, TypeOK
      <2>3. inbox' \in [Peers -> Seq(Driving)] /\ Pushed(inbox, inbox', p, "_received")
        BY <1>1, <1>2, <1>3, <1>6, <2>1, <2>2, AfterPush DEF Before, TypeOK
      <2>4. TypeOK'
        BY <1>1, <1>2, <1>3, <1>6, <2>1, <2>2, <2>3 DEF Before, TypeOK
      <2>5. driver[p] \notin Working => Count(inbox[p], "_peerIsConnecting") > 0
        BY <1>1, <1>2, <1>3, <1>6, <2>1, <2>2, <2>3 DEF Before, Popped, Pushed, PeerInv, Receives
      <2>6. Handshake(p)' /\ Handshake(q)'
        BY <1>1, <1>2, <1>3, <1>6, <2>1, <2>2, <2>3, <2>5
        DEF Before, Popped, Pushed, PeerInv, Handshake, Pending, Begun
      <2>7. Receives(p)' /\ Receives(q)'
        <3>1. Receives(p)'
          <4>1. (Pending(p, "_received") > 0 => driver[p] \in Begun)'
            BY <1>1, <1>2, <1>3, <1>6, <2>1, <2>2, <2>3, <2>5
            DEF Before, Popped, Pushed, PeerInv, Receives, Pending, Begun, Working
          <4>2. (driver[p] \notin Working => Behind(inbox[p], "_peerIsConnecting", "_received"))'
            BY <1>1, <1>2, <1>3, <1>6, <2>1, <2>2, <2>3, <2>5
            DEF Before, Popped, Pushed, PeerInv, Receives, Pending, Begun, Working
          <4>3. (driver[p] \notin Working =>
                   Count(inbox[p], "_peerIsConnecting") > 0
                   \/ Behind(transit[p], "_peerIsConnecting", "_received"))'
            BY <1>1, <1>2, <1>3, <1>6, <2>1, <2>2, <2>3, <2>5
            DEF Before, Popped, Pushed, PeerInv, Receives, Pending, Begun, Working
          <4> QED  BY <4>1, <4>2, <4>3 DEF Receives
        <3>2. Receives(q)'
          BY <1>1, <1>2, <1>3, <1>6, <2>1, <2>2, <2>3, <2>5
          DEF Before, Popped, Pushed, PeerInv, Receives, Pending, Begun, Working
        <3> QED  BY <3>1, <3>2
      <2>8. Connecting(p)' /\ Connecting(q)'
        BY <1>1, <1>2, <1>3, <1>6, <2>1, <2>3, <2>5 DEF Before, Pushed, PeerInv, Connecting, Begun
      <2>9. Sending(p)' /\ Sending(q)'
        BY <1>1, <1>2, <1>3, <1>6, <2>1, <2>3, <2>5 DEF Before, Pushed, PeerInv, Sending, Working
      <2>10. Telling(p)' /\ Telling(q)'
        BY <1>1, <1>2, <1>3, <1>6, <2>1, <2>5 DEF Before, PeerInv, Telling
      <2>11. Counting(p)' /\ Counting(q)'
        <3>1. /\ Unacknowledged(p)' = Unacknowledged(p)
              /\ Unacknowledged(q)' = Unacknowledged(q)
          <4>1. /\ Count(inbox'[p], "_send") = Count(inbox[p], "_send")
                /\ Count(inbox'[p], "_received") = Count(inbox[p], "_received") + 1
                /\ Count(inbox'[p], "_ack") = Count(inbox[p], "_ack")
                /\ Count(inbox'[q], "_send") = Count(inbox[q], "_send")
                /\ Count(inbox'[q], "_received") = Count(inbox[q], "_received")
                /\ Count(inbox'[q], "_ack") = Count(inbox[q], "_ack")
                /\ Count(transit'[p], "_received") = Count(transit[p], "_received") - 1
                /\ Count(transit'[q], "_received") = Count(transit[q], "_received")
            BY <1>1, <1>2, <1>3, <1>6, <2>1, <2>2, <2>3, <2>5 DEF Before, Popped, Pushed
          <4>2. /\ Other(p) = q /\ Other(q) = p /\ held[p] \in Nat /\ held[q] \in Nat
                /\ Count(inbox[p], "_send") \in Nat /\ Count(inbox[p], "_received") \in Nat
                /\ Count(inbox[p], "_ack") \in Nat
                /\ Count(inbox[q], "_send") \in Nat /\ Count(inbox[q], "_received") \in Nat
                /\ Count(inbox[q], "_ack") \in Nat
                /\ Count(transit[p], "_received") \in Nat
                /\ Count(transit[q], "_received") \in Nat
                /\ held'[p] = held[p]
                /\ held'[q] = held[q]
            BY <1>1, <2>1 DEF Before
          <4>3. Unacknowledged(p)' = Unacknowledged(p)
            BY <4>1, <4>2 DEF Unacknowledged
          <4>4. Unacknowledged(q)' = Unacknowledged(q)
            BY <4>1, <4>2 DEF Unacknowledged
          <4> QED  BY <4>3, <4>4
        <3>2. Unacknowledged(p) \in Nat /\ Unacknowledged(q) \in Nat
          BY <1>1 DEF Before, Unacknowledged
        <3>3. Counting(p)'
          BY <1>1, <1>2, <1>3, <1>6, <2>1, <2>2, <2>3, <2>5, <3>1, <3>2
          DEF Before, Popped, Pushed, PeerInv, Counting, Working
        <3>4. Counting(q)'
          BY <1>1, <1>2, <1>3, <1>6, <2>1, <2>2, <2>3, <2>5, <3>1, <3>2
          DEF Before, Popped, Pushed, PeerInv, Counting, Working
        <3> QED  BY <3>3, <3>4
      <2>12. Asserting(p)' /\ Asserting(q)'
        BY <1>1, <1>2, <1>3, <1>6, <2>1, <2>5 DEF Before, PeerInv, Asserting
      <2> QED  BY <1>1, <2>4, <2>6, <2>7, <2>8, <2>9, <2>10, <2>11, <2>12, AfterStep DEF PeerInv
    <1>7. CASE e.name = "_closed"
      <2>1. /\ transit[p] # <<>>
            /\ inbox' = Push(inbox, p, e)
            /\ transit' = Pop(transit, p)
            /\ UNCHANGED <<state, started, terminated, closes, io, hasSocket, writeable, sends>>
            /\ UNCHANGED <<held, driver, buffered, phase, heard, asserted, lateClose>>
        BY <1>2, <1>3
      <2>2. transit' \in [Peers -> Seq(Sent)] /\ Popped(transit, transit', p, "_closed")
        BY <1>1, <1>2, <1>3, <1>7, <2>1, AfterPop DEF Before, TypeOK
      <2>3. inbox' \in [Peers -> Seq(Driving)] /\ Pushed(inbox, inbox', p, "_closed")
        BY <1>1, <1>2, <1>3, <1>7, <2>1, <2>2, AfterPush DEF Before, TypeOK
      <2>4. TypeOK'
        BY <1>1, <1>2, <1>3, <1>7, <2>1, <2>2, <2>3 DEF Before, TypeOK
      <2>5. Handshake(p)' /\ Handshake(q)'
        BY <1>1, <1>2, <1>3, <1>7, <2>1, <2>2, <2>3
        DEF Before, Popped, Pushed, PeerInv, Handshake, Pending, Begun
      <2>6. Receives(p)' /\ Receives(q)'
        BY <1>1, <1>2, <1>3, <1>7, <2>1, <2>2, <2>3
        DEF Before, Popped, Pushed, PeerInv, Receives, Pending, Begun, Working
      <2>7. Connecting(p)' /\ Connecting(q)'
        BY <1>1, <1>2, <1>3, <1>7, <2>1, <2>3 DEF Before, Pushed, PeerInv, Connecting, Begun
      <2>8. Sending(p)' /\ Sending(q)'
        BY <1>1, <1>2, <1>3, <1>7, <2>1, <2>3 DEF Before, Pushed, PeerInv, Sending, Working
      <2>9. Telling(p)' /\ Telling(q)'
        BY <1>1, <1>2, <1>3, <1>7, <2>1 DEF Before, PeerInv, Telling
      <2>10. Counting(p)' /\ Counting(q)'
        <3>1. Unacknowledged(p)' = Unacknowledged(p) /\ Unacknowledged(q)' = Unacknowledged(q)
          BY <1>1, <1>2, <1>3, <1>7, <2>1, <2>2, <2>3 DEF Before, Popped, Pushed, Unacknowledged
        <3>2. Unacknowledged(p) \in Nat /\ Unacknowledged(q) \in Nat
          BY <1>1 DEF Before, Unacknowledged
        <3>3. Counting(p)'
          BY <1>1, <1>2, <1>3, <1>7, <2>1, <2>2, <2>3, <3>1, <3>2
          DEF Before, Popped, Pushed, PeerInv, Counting, Working
        <3>4. Counting(q)'
          BY <1>1, <1>2, <1>3, <1>7, <2>1, <2>2, <2>3, <3>1, <3>2
          DEF Before, Popped, Pushed, PeerInv, Counting, Working
        <3> QED  BY <3>3, <3>4
      <2>11. Asserting(p)' /\ Asserting(q)'
        BY <1>1, <1>2, <1>3, <1>7, <2>1 DEF Before, PeerInv, Asserting
      <2> QED  BY <1>1, <2>4, <2>5, <2>6, <2>7, <2>8, <2>9, <2>10, <2>11, AfterStep DEF PeerInv
    <1> QED  BY <1>4, <1>5, <1>6, <1>7

(***************************************************************************)
(* Every step of the system keeps the invariant.                           *)
(***************************************************************************)
LEMMA LoopbackStep ==
    ASSUME LoopbackInv, [Next]_vars
    PROVE  LoopbackInv'
    <1>1. ASSUME NEW p \in Peers, Start(p) \/ Terminate(p) \/ (\E code \in Codes : Close(p, code)) \/ Send(p)
          PROVE  LoopbackInv'
      BY <1>1, KeepsStart, KeepsTerminate, KeepsClose, KeepsSend
    <1>2. ASSUME NEW p \in Peers, IoSteps(p)
          PROVE  LoopbackInv'
      BY <1>2, KeepsRelease, KeepsOnWriteable, KeepsOnClose, KeepsOnClosed DEF IoSteps
    <1>3. ASSUME NEW p \in Peers, DriverSteps(p)
          PROVE  LoopbackInv'
      BY <1>3, KeepsConnect, KeepsPeerIsConnecting, KeepsDriverSend, KeepsReceived, KeepsAck,
         KeepsDriverClose, KeepsDriverClosed
      DEF DriverSteps
    <1>4. CASE UNCHANGED vars
      <2>1. TypeOK'
        BY <1>4 DEF LoopbackInv, TypeOK, vars, appVars, ioVars, wsVars, history
      <2>2. ASSUME NEW p \in Peers PROVE PeerInv(p)'
        <3>1. PeerInv(p)
          BY DEF LoopbackInv
        <3> QED  BY <1>4, <3>1
          DEF PeerInv, Handshake, Receives, Connecting, Sending, Telling, Counting, Asserting, Pending,
              Unacknowledged, vars, appVars, ioVars, wsVars, history, Begun, Working
      <2> QED  BY <2>1, <2>2 DEF LoopbackInv
    <1> QED  BY <1>1, <1>2, <1>3, <1>4, KeepsArrive DEF Next

(***************************************************************************)
(* The invariant, for any buffer size and any number of messages and of    *)
(* calls of close().                                                       *)
(***************************************************************************)
THEOREM LoopbackInvariant == Spec => []LoopbackInv
    <1>1. Init => LoopbackInv
      <2> SUFFICES ASSUME Init PROVE LoopbackInv
        OBVIOUS
      <2>1. TypeOK
        <3>1. <<>> \in Seq(IoEvents) /\ <<>> \in Seq(Driving) /\ <<>> \in Seq(Sent)
          OBVIOUS
        <3> QED  BY <3>1 DEF Init, Everywhere, TypeOK
      <2>2. ASSUME NEW n PROVE Count(<<>>, n) = 0
        BY EmptyMailbox
      <2>3. ASSUME NEW a, NEW b PROVE Behind(<<>>, a, b)
        BY DEF Behind
      <2>4. ASSUME NEW p \in Peers PROVE PeerInv(p)
        <3>1. Other(p) \in Peers
          BY TwoPeers
        <3>2. /\ io[p] = <<>> /\ inbox[p] = <<>> /\ transit[p] = <<>> /\ held[p] = 0
              /\ inbox[Other(p)] = <<>> /\ transit[Other(p)] = <<>> /\ held[Other(p)] = 0
              /\ driver[p] = "unconnected" /\ driver[Other(p)] = "unconnected"
              /\ state[p] = "kClosed" /\ started[p] = FALSE /\ terminated[p] = FALSE
              /\ writeable[p] = FALSE /\ buffered[p] = 0
              /\ phase[p] = "unopened" /\ asserted[p] = {}
          BY <3>1 DEF Init, Everywhere
        <3>3. Handshake(p) /\ Receives(p)
          BY <2>2, <2>3, <3>2 DEF Handshake, Receives, Pending, Begun, Working
        <3>4. Connecting(p) /\ Sending(p) /\ Telling(p) /\ Asserting(p)
          BY <2>2, <2>3, <3>2 DEF Connecting, Sending, Telling, Asserting, Begun, Working
        <3>5. Unacknowledged(p) = 0
          BY <2>2, <3>2 DEF Unacknowledged
        <3>6. Counting(p)
          BY <3>2, <3>5 DEF Counting, Working
        <3> QED  BY <3>3, <3>4, <3>6 DEF PeerInv
      <2> QED  BY <2>1, <2>4 DEF LoopbackInv
    <1>2. LoopbackInv /\ [Next]_vars => LoopbackInv'
      BY LoopbackStep
    <1> QED  BY <1>1, <1>2, PTL DEF Spec

(***************************************************************************)
(* Only the Asserts of _close, _connect and terminate can fail, and in the *)
(* known situations; a message is received only after the handshake.       *)
(***************************************************************************)
THEOREM AssertsAreTheKnownOnes == Spec => []OnlyKnownAsserts
    <1>1. ASSUME LoopbackInv PROVE OnlyKnownAsserts
      <2> SUFFICES ASSUME NEW p \in Peers
                   PROVE  Asserting(p) /\ (Driven(p, "_received") => driver[p] \in {"connected", "closed"})
        BY DEF OnlyKnownAsserts, Asserting
      <2>1. TypeOK /\ PeerInv(p)
        BY <1>1 DEF LoopbackInv
      <2>2. ASSUME Driven(p, "_received"), driver[p] \notin Working PROVE FALSE
        <3>1. Behind(inbox[p], "_peerIsConnecting", "_received")
          BY <2>1, <2>2 DEF PeerInv, Receives
        <3>2. inbox[p] \in Seq(Driving) /\ inbox[p] # <<>> /\ Head(inbox[p]).name = "_received"
          BY <2>1, <2>2 DEF TypeOK, Driven, Next1
        <3> QED  BY <3>1, <3>2, BehindHead
      <2> QED  BY <2>1, <2>2 DEF PeerInv, Working
    <1> QED  BY <1>1, LoopbackInvariant, PTL

(***************************************************************************)
(* A BLIPIO that has stopped sending is told to go on, and _bufferedBytes  *)
(* counts exactly what is still to be released.                            *)
(***************************************************************************)
THEOREM StoppedSenderIsWoken == Spec => []WakeupComes
    <1>1. ASSUME LoopbackInv PROVE WakeupComes
      <2> SUFFICES ASSUME NEW p \in Peers, driver[p] = "connected"
                   PROVE  /\ buffered[p] = Unacknowledged(p)
                          /\ ~writeable[p] =>
                                 buffered[p] > SendBuffer \/ Count(io[p], "_onWebSocketWriteable") > 0
        BY DEF WakeupComes
      <2> QED  BY <1>1 DEF LoopbackInv, PeerInv, Counting
    <1> QED  BY <1>1, LoopbackInvariant, PTL

(***************************************************************************)
(* _state settles, though three threads assign it.                         *)
(***************************************************************************)
THEOREM EndReachesState == Spec => []StateSettles
    <1>1. ASSUME LoopbackInv PROVE StateSettles
      <2> SUFFICES ASSUME NEW p \in Peers, phase[p] = "closed", AtRest(p), ~lateClose[p]
                   PROVE  state[p] \in {"kClosed", "kDisconnected"}
        BY DEF StateSettles
      <2>1. io[p] = <<>> /\ io[p] \in Seq(IoEvents)
        BY <1>1 DEF AtRest, LoopbackInv, TypeOK
      <2>2. ~(Count(io[p], "_closed") > 0)
        BY <2>1, EmptyMailbox
      <2> QED  BY <1>1, <2>2 DEF LoopbackInv, PeerInv, Telling
    <1> QED  BY <1>1, LoopbackInvariant, PTL

(***************************************************************************)
(* A step of the contract with p's delegate, or none.                      *)
(***************************************************************************)
Tells(p) ==
    \/ /\ phase[p] = "unopened" /\ phase'[p] = "open" /\ heard'[p] = heard[p] + 1
    \/ /\ phase[p] = "open" /\ phase'[p] = phase[p] /\ heard'[p] = heard[p] + 1
    \/ /\ phase[p] # "closed" /\ phase'[p] = "closed" /\ heard'[p] = heard[p] + 1
    \/ phase'[p] = phase[p] /\ heard'[p] = heard[p]

\* It is a step of WebSocketContract, or leaves its variables unchanged.
LEMMA TellsIsContract ==
    ASSUME NEW p \in Peers, Tells(p)
    PROVE  Contract(p)!ContractNext \/ UNCHANGED Contract(p)!cvars
    BY DEF Tells, Contract!ContractNext, Contract!Connected, Contract!Transfer, Contract!Closed,
       Contract!cvars

\* One call of p's delegate, and none of the other's.
LEMMA OneIsTold ==
    ASSUME TypeOK, NEW p \in Peers, NEW r \in Peers, NEW to,
           phase' = Set(phase, p, to), heard' = [heard EXCEPT ![p] = @ + 1],
           \/ phase[p] = "unopened" /\ to = "open"
           \/ phase[p] = "open" /\ to = "open"
           \/ phase[p] # "closed" /\ to = "closed"
    PROVE  Tells(r)
    <1>1. phase \in [Peers -> {"unopened", "open", "closed"}] /\ heard \in [Peers -> Nat]
      BY DEF TypeOK
    <1>2. CASE r = p
      BY <1>1, <1>2 DEF Set, Tells
    <1>3. CASE r # p
      BY <1>1, <1>3 DEF Set, Tells
    <1> QED  BY <1>2, <1>3

(***************************************************************************)
(* Every step keeps both contracts.                                        *)
(***************************************************************************)
LEMMA ContractStep ==
    ASSUME LoopbackInv, [Next]_vars, NEW r \in Peers
    PROVE  Tells(r)
    <1>1. CASE UNCHANGED <<phase, heard>>
      BY <1>1 DEF Tells
    <1>2. TypeOK
      BY DEF LoopbackInv
    <1>3. ASSUME NEW p \in Peers, ConnectCompleted(p), driver[p] \in {"peerConnecting", "connecting"}
          PROVE  Tells(r)
      <2>1. phase[p] = "unopened"
        BY <1>3 DEF LoopbackInv, PeerInv, Telling
      <2>2. phase' = Set(phase, p, "open") /\ heard' = [heard EXCEPT ![p] = @ + 1]
        BY <1>3 DEF ConnectCompleted
      <2> QED  BY <1>2, <2>1, <2>2, OneIsTold
    <1>4. ASSUME NEW p \in Peers, driver[p] = "connected", UNCHANGED phase,
                 heard' = [heard EXCEPT ![p] = @ + 1]
          PROVE  Tells(r)
      <2>1. phase[p] = "open"
        BY <1>4 DEF LoopbackInv, PeerInv, Telling
      <2>2. phase' = Set(phase, p, "open")
        BY <1>2, <1>4, <2>1 DEF TypeOK, Set
      <2> QED  BY <1>2, <1>4, <2>1, <2>2, OneIsTold
    <1>5. ASSUME NEW p \in Peers, NEW code, Closed(p, code), driver[p] # "closed"
          PROVE  Tells(r)
      <2>1. phase[p] # "closed"
        BY <1>2, <1>5 DEF LoopbackInv, PeerInv, Telling, TypeOK
      <2>2. CASE driver[p] \in {"unconnected", "peerConnecting"}
        BY <1>1, <1>5, <2>2 DEF Closed
      <2>3. CASE driver[p] \notin {"unconnected", "peerConnecting"}
        <3>1. phase' = Set(phase, p, "closed") /\ heard' = [heard EXCEPT ![p] = @ + 1]
          BY <1>5, <2>3 DEF Closed
        <3> QED  BY <1>2, <2>1, <3>1, OneIsTold
      <2> QED  BY <2>2, <2>3
    <1>6. ASSUME NEW p \in Peers, Start(p) \/ Terminate(p) \/ (\E code \in Codes : Close(p, code)) \/ Send(p)
          PROVE  Tells(r)
      BY <1>1, <1>6 DEF Start, Terminate, Close, Send, history
    <1>7. ASSUME NEW p \in Peers, IoSteps(p) \/ Arrive(p)
          PROVE  Tells(r)
      BY <1>1, <1>7 DEF IoSteps, Release, OnWriteable, OnClose, OnClosed, Arrive, history
    <1>8. ASSUME NEW p \in Peers, _connect(p) PROVE Tells(r)
      BY <1>1, <1>3, <1>8 DEF _connect, Connects, Fails
    <1>9. ASSUME NEW p \in Peers, _peerIsConnecting(p) PROVE Tells(r)
      BY <1>1, <1>3, <1>9 DEF _peerIsConnecting, Fails, history
    <1>10. ASSUME NEW p \in Peers, _send(p) PROVE Tells(r)
      BY <1>1, <1>10 DEF _send, Fails, history
    <1>11. ASSUME NEW p \in Peers, _received(p) PROVE Tells(r)
      BY <1>1, <1>4, <1>11 DEF _received
    <1>12. ASSUME NEW p \in Peers, _ack(p) PROVE Tells(r)
      BY <1>1, <1>4, <1>12 DEF _ack
    <1>13. ASSUME NEW p \in Peers, _close(p) PROVE Tells(r)
      <2>1. CASE driver[p] \in {"unconnected", "connecting", "connected"}
        <3>1. Closed(p, Head(inbox[p]).code)
          BY <1>13, <2>1 DEF _close
        <3> QED  BY <1>5, <2>1, <3>1
      <2>2. CASE driver[p] \notin {"unconnected", "connecting", "connected"}
        BY <1>1, <1>13, <2>2 DEF _close, Fails
      <2> QED  BY <2>1, <2>2
    <1>14. ASSUME NEW p \in Peers, _closed(p) PROVE Tells(r)
      <2>1. CASE driver[p] = "closed"
        BY <1>1, <1>14, <2>1 DEF _closed, Ignores, history
      <2>2. CASE driver[p] # "closed"
        <3>1. Closed(p, Head(inbox[p]).code)
          BY <1>14, <2>2 DEF _closed, Ignores
        <3> QED  BY <1>5, <2>2, <3>1
      <2> QED  BY <2>1, <2>2
    <1>15. ASSUME NEW p \in Peers, DriverSteps(p) PROVE Tells(r)
      BY <1>8, <1>9, <1>10, <1>11, <1>12, <1>13, <1>14, <1>15 DEF DriverSteps
    <1>16. CASE UNCHANGED vars
      BY <1>1, <1>16 DEF vars, history
    <1> QED  BY <1>6, <1>7, <1>15, <1>16 DEF Next

(***************************************************************************)
(* LoopbackWebSocket implements WebSocketContract at both ends at once:    *)
(* each delegate is told of the connection at most once, of messages and   *)
(* of room to write only while connected, and of the end once, last.       *)
(***************************************************************************)
THEOREM BothContractsAreKept == Spec => KeepsContract
    <1>1. Init => \A p \in Peers : Contract(p)!ContractInit
      BY DEF Init, Everywhere, Contract!ContractInit
    <1>2. LoopbackInv /\ [Next]_vars =>
              [\A p \in Peers : Contract(p)!ContractNext \/ UNCHANGED Contract(p)!cvars]_vars
      BY ContractStep, TellsIsContract
    <1> QED  BY <1>1, <1>2, LoopbackInvariant, PTL DEF Spec, KeepsContract
==============================================================================
