---------------------------- MODULE BLIPIO_proofs ----------------------------
(***************************************************************************)
(* Proofs about BLIPIO, for any sizes, any number of requests and frames,  *)
(* and with closing, network failures and exceptions at any time.          *)
(*                                                                         *)
(* The parts of the invariant are about values (queues, streams, sets of   *)
(* messages), so that most lemmas are about these and not about steps.     *)
(***************************************************************************)
EXTENDS BLIPIO, WellFoundedInduction, SequenceTheorems, TLAPS

------------------------------------------------------------------------------
(***************************************************************************)
(* The invariant.                                                          *)
(***************************************************************************)
IsReq(m) == m.type = "REQ"
IsReply(m) == m.type \in {"RES", "ERR"}

\* A request of which no frame has been sent.
New(m) == m.type = "REQ" /\ m.bytesSent = 0

\* The same request, or a response to the same request.
Twins(a, b) ==
    \/ IsReq(a) /\ IsReq(b) /\ a.id = b.id
    \/ IsReply(a) /\ IsReply(b) /\ a.number = b.number

\* The messages in a mailbox, and in the two queues.
PostedIn(mb) == {e.msg : e \in {e \in ToSet(mb) : e.ev = "queueMessage"}}
HeldIn(out, ice) == ToSet(out) \union ToSet(ice)

Posted(p) == PostedIn(mailbox[p])
Held(p) == HeldIn(outbox[p], icebox[p])
Mine(p) == Posted(p) \union Held(p)

\* What p has written and the actor at the other end has not handled, in order.
Stream(p) == (batch[Other(p)] \o incoming[Other(p)]) \o wire[p]

\* The actor still handles frames, and accepts messages.
Live(p) == closingWithError[p] = "none" /\ socket[p] # "gone"

\* Where the actor can be.
Control(p) ==
    /\ batch[p] # <<>> => running[p] # "idle" /\ Live(p)
    /\ closingWithError[p] # "none" => closeSent[p]
    /\ writing[p] => outbox[p] # <<>>
    /\ Event("closed") \in ToSet(mailbox[p]) => socket[p] # "open"
    /\ running[p] = "closed" => socket[p] # "open" /\ incoming[p] = <<>>
    /\ socket[p] = "gone" => incoming[p] = <<>> /\ outbox[p] = <<>>

\* Why messages wait in the outbox.
Wakeup(p) ==
    /\ outbox[p] # <<>> /\ writeable[p] => writing[p]
    /\ ~writeable[p] =>
          \/ Event("onWebSocketWriteable") \in ToSet(mailbox[p])
          \/ buffered[p] > SendBuffer
          \/ closeSent[p] \/ socket[p] # "open"

\* A message is in one place only.
Alone(mb, out, ice) ==
    /\ \A i, j \in DOMAIN mb :
          mb[i].ev = "queueMessage" /\ mb[j].ev = "queueMessage" /\ Twins(mb[i].msg, mb[j].msg) => i = j
    /\ \A i, j \in DOMAIN out : Twins(out[i], out[j]) => i = j
    /\ \A i, j \in DOMAIN ice : Twins(ice[i], ice[j]) => i = j
    /\ \A m \in PostedIn(mb), x \in HeldIn(out, ice) : ~Twins(m, x)
    /\ \A m \in ToSet(out), x \in ToSet(ice) : ~Twins(m, x)

\* Requests that have not been begun wait in the order of their numbers.
NewInOrder(out) ==
    \A i, j \in DOMAIN out : i < j /\ New(out[i]) /\ New(out[j]) => out[i].number < out[j].number

\* The messages as they are posted, and numbered.  `made' are the requests made.
PostedOK(M, made) ==
    \A m \in M :
        /\ IsReq(m) => m.id \in 1..made /\ m.number = 0 /\ m.bytesSent = 0
        /\ ~IsReq(m) => m.number > 0

HeldOK(M, last) ==
    \A m \in M : m.number > 0 /\ (IsReq(m) => m.number = m.id /\ m.id <= last)

Queues(p) ==
    /\ Alone(mailbox[p], outbox[p], icebox[p])
    /\ NewInOrder(outbox[p])
    /\ \A m \in ToSet(icebox[p]) : m.bytesSent > 0
    /\ PostedOK(Posted(p), Len(progress[p]))
    /\ HeldOK(Held(p), lastMessageNo[p])
    /\ lastMessageNo[p] <= Len(progress[p])

\* The requests in the mailbox are those made and not numbered, in order.
InMail(mb, last, made) ==
    /\ \A i, j \in DOMAIN mb :
          /\ i < j
          /\ mb[i].ev = "queueMessage" /\ IsReq(mb[i].msg)
          /\ mb[j].ev = "queueMessage" /\ IsReq(mb[j].msg)
          => mb[i].msg.id < mb[j].msg.id
    /\ \A m \in PostedIn(mb) : IsReq(m) => m.id > last
    /\ \A n \in last+1..made : \E m \in PostedIn(mb) : IsReq(m) /\ m.id = n

Mail(p) == Live(p) => InMail(mailbox[p], lastMessageNo[p], Len(progress[p]))

\* Whether a request wants a reply is known at both ends.
Flags(p) ==
    /\ \A m \in Mine(p) : IsReq(m) => m.noReply = progress[p][m.id].noReply
    /\ \A f \in ToSet(Stream(p)) : IsReq(f) =>
          f.number \in DOMAIN progress[p] /\ f.noReply = progress[p][f.number].noReply
    /\ \A n \in DOMAIN pendingRequests[Other(p)] :
          n \in DOMAIN progress[p] /\ pendingRequests[Other(p)][n].noReply = progress[p][n].noReply

\* Responses are to requests that have been received whole, one to each.
Answered(M, due, num, pend) ==
    /\ DOMAIN pend \subseteq 1..num
    /\ due \subseteq (1..num) \ DOMAIN pend
    /\ \A m \in M : IsReply(m) => m.number \in (1..num) \ (DOMAIN pend \union due)

Answers(p) == Answered(Mine(p), toRespond[p], numReceived[p], pendingRequests[p])

\* Requests under way begin in order, and nothing comes after their last frame.
InOrder(s, num, pend) ==
    /\ \A i \in DOMAIN s : IsReq(s[i]) =>
          \A n \in num+1..s[i].number-1 : \E j \in 1..i-1 : IsReq(s[j]) /\ s[j].number = n
    /\ \A i, j \in DOMAIN s :
          i < j /\ IsReq(s[i]) /\ IsReq(s[j]) /\ s[i].number = s[j].number => s[i].more
    /\ \A f \in ToSet(s) : IsReq(f) /\ f.number <= num => f.number \in DOMAIN pend

RequestsInOrder(p) ==
    Live(Other(p)) => InOrder(Stream(p), numReceived[Other(p)], pendingRequests[Other(p)])

\* The request n has been begun.
Begun(n, s, num) == n \in 1..num \/ \E f \in ToSet(s) : IsReq(f) /\ f.number = n

\* What is on its way is what has been taken from the queues.
Continues(M, last, s, num, pend) ==
    /\ \A m \in M : New(m) => ~Begun(m.number, s, num)
    /\ \A n \in 1..last : Begun(n, s, num) \/ \E m \in M : New(m) /\ m.number = n
    /\ num <= last /\ \A f \in ToSet(s) : IsReq(f) => f.number <= last
    /\ \A m \in M : IsReq(m) /\ ~New(m) =>
          /\ Begun(m.number, s, num)
          /\ m.number <= num => m.number \in DOMAIN pend
          /\ \A f \in ToSet(s) : IsReq(f) /\ f.number = m.number => f.more

RequestsContinue(p) ==
    Live(p) /\ Live(Other(p)) /\ ~closeSent[p] =>
        Continues(Held(p), lastMessageNo[p], Stream(p), numReceived[Other(p)],
                  pendingRequests[Other(p)])

\* The requests that p waits for the answers to.
Awaited(M, last, pend) ==
    /\ \A n \in DOMAIN pend : n <= last /\ pend[n].id = n
    /\ \A m \in M : IsReq(m) => m.id \notin DOMAIN pend

Awaits(p) ==
    /\ Awaited(Mine(p), lastMessageNo[p], pendingResponses[p])
    /\ \A n \in DOMAIN pendingResponses[p] : ~progress[p][n].noReply

\* Those include every one that is answered, or will be: the responses M at the
\* other end, the frames t of responses, the frames s of requests.
Expected(M, due, s, t, pend) ==
    /\ \A f \in ToSet(t) : IsReply(f) => f.number \in DOMAIN pend
    /\ \A i, j \in DOMAIN t :
          i < j /\ IsReply(t[i]) /\ IsReply(t[j]) /\ t[i].number = t[j].number => t[i].more
    /\ \A m \in M : IsReply(m) =>
          /\ m.number \in DOMAIN pend
          /\ \A f \in ToSet(t) : IsReply(f) /\ f.number = m.number => f.more
    /\ \A n \in due :
          /\ n \in DOMAIN pend
          /\ \A f \in ToSet(t) : ~(IsReply(f) /\ f.number = n)
    /\ \A f \in ToSet(s) : IsReq(f) /\ ~f.more /\ ~f.noReply =>
          /\ f.number \in DOMAIN pend
          /\ \A g \in ToSet(t) : ~(IsReply(g) /\ g.number = f.number)

AnswersExpected(p) ==
    Live(p) => Expected(Mine(Other(p)), toRespond[Other(p)], Stream(p), Stream(Other(p)),
                        pendingResponses[p])

\* A request that wants a reply has ended, or waits.
NotTwice(p) ==
    \A id \in DOMAIN progress[p] : ~progress[p][id].noReply =>
        /\ Len(progress[p][id].ends) <= 1
        /\ progress[p][id].ends # <<>> =>
              id \notin DOMAIN pendingResponses[p] /\ \A m \in Mine(p) : IsReq(m) => m.id # id

NotLost(p) ==
    \A id \in DOMAIN progress[p] : ~progress[p][id].noReply /\ progress[p][id].ends = <<>> =>
        id \in DOMAIN pendingResponses[p] \/ \E m \in Mine(p) : IsReq(m) /\ m.id = id

\* The case of BLIPConnection.cc:450: the last frame of an error may throw.
ErrorsMade == \E p \in Peers : \E r \in Replies[p] : r.type = "ERR"
ErrorsMayThrow == Throwing /\ ErrorsMade

Kinds(p) == \A m \in Mine(p) \union ToSet(Stream(p)) : m.type = "ERR" => ErrorsMade
------------------------------------------------------------------------------
(***************************************************************************)
(* The two peers, and sequences.                                           *)
(***************************************************************************)

\* Each peer is the other's other.
LEMMA TwoPeers ==
    ASSUME NEW p \in Peers
    PROVE  /\ Other(p) \in Peers /\ Other(p) # p /\ Other(Other(p)) = p
           /\ \A q \in Peers : q = p \/ q = Other(p)
    <1>1. PICK a, b \in Peers : a # b /\ Peers = {a, b}
      BY BLIPIOAssumption
    <1>2. \A q \in Peers : Other(q) \in Peers /\ Other(q) # q
      BY <1>1 DEF Other
    <1> QED  BY <1>1, <1>2

\* A set of numbers has a least element ...
LEMMA Least ==
    ASSUME NEW T \in SUBSET Nat, T # {}
    PROVE  \E x \in T : \A y \in T : x <= y
    <1>1. PICK x \in T : \A y \in T : ~(<<y, x>> \in OpToRel(<, Nat))
      BY NatLessThanWellFounded, WFMin, Zenon
    <1>2. \A y \in T : ~(y < x)
      BY <1>1 DEF OpToRel
    <1> QED  BY <1>2

\* ... which Min finds ...
LEMMA MinFinds ==
    ASSUME NEW T \in SUBSET Nat, T # {}
    PROVE  Min(T) \in T
    <1>1. \E x \in T : \A y \in T : x <= y
      BY Least
    <1> QED  BY <1>1 DEF Min

\* ... and Max the greatest, if the set is bounded.
LEMMA MaxFinds ==
    ASSUME NEW n \in Nat, NEW T \in SUBSET (1..n), T # {}
    PROVE  Max(T) \in T /\ \A y \in T : y <= Max(T)
    <1> DEFINE U == {n - x : x \in T}
    <1>1. \A x \in T : n - x \in Nat /\ x \in Nat
      OBVIOUS
    <1>2. PICK u \in U : \A v \in U : u <= v
      BY <1>1, Least
    <1>3. PICK x \in T : u = n - x
      OBVIOUS
    <1>4. \A y \in T : x >= y
      <2>1. ASSUME NEW y \in T PROVE x >= y
        <3>1. n - x <= n - y
          BY <1>2, <1>3
        <3> QED  BY <1>1, <3>1
      <2> QED  BY <2>1
    <1>5. Max(T) \in T /\ \A y \in T : Max(T) >= y
      BY <1>4 DEF Max
    <1> QED  BY <1>1, <1>5

\* What is left of a queue, and what was taken from it.
LEMMA Shorter ==
    ASSUME NEW S, NEW s \in Seq(S), s # <<>>
    PROVE  /\ Head(s) \in S /\ Tail(s) \in Seq(S) /\ Len(s) \in Nat \ {0}
           /\ Head(s) = s[1] /\ 1 \in DOMAIN s /\ DOMAIN s = 1..Len(s)
           /\ DOMAIN Tail(s) = 1..Len(s)-1 /\ \A i \in 1..Len(s)-1 : Tail(s)[i] = s[i + 1]
           /\ ToSet(s) = {Head(s)} \union ToSet(Tail(s))
    <1>1. Len(s) \in Nat /\ Len(s) # 0
      BY EmptySeq
    <1>2. /\ Head(s) = s[1] /\ Head(s) \in S /\ Tail(s) \in Seq(S) /\ Len(Tail(s)) = Len(s) - 1
          /\ \A i \in 1..Len(s)-1 : Tail(s)[i] = s[i + 1]
      BY <1>1, HeadTailProperties
    <1>3. DOMAIN s = 1..Len(s) /\ DOMAIN Tail(s) = 1..Len(s)-1
      BY <1>1, <1>2
    <1>4. \A x \in ToSet(s) : x = Head(s) \/ x \in ToSet(Tail(s))
      <2>1. ASSUME NEW i \in 1..Len(s), i # 1 PROVE s[i] \in ToSet(Tail(s))
        <3>1. i - 1 \in 1..Len(s)-1 /\ (i - 1) + 1 = i
          BY <1>1, <2>1
        <3>2. Tail(s)[i - 1] = s[i]
          BY <1>2, <3>1
        <3> QED  BY <1>3, <3>1, <3>2 DEF ToSet
      <2> QED  BY <1>2, <1>3, <2>1 DEF ToSet
    <1>5. \A x \in ToSet(Tail(s)) : x \in ToSet(s)
      <2>1. ASSUME NEW i \in 1..Len(s)-1 PROVE Tail(s)[i] \in ToSet(s)
        BY <1>1, <1>2, <1>3 DEF ToSet
      <2> QED  BY <1>3, <2>1 DEF ToSet
    <1>6. Head(s) \in ToSet(s)
      BY <1>1, <1>2, <1>3 DEF ToSet
    <1>7. ToSet(s) = {Head(s)} \union ToSet(Tail(s))
      BY <1>4, <1>5, <1>6
    <1> QED  BY <1>1, <1>2, <1>3, <1>7

LEMMA Longer ==
    ASSUME NEW S, NEW s \in Seq(S), NEW e \in S
    PROVE  /\ Append(s, e) \in Seq(S) /\ Append(s, e) # <<>> /\ Len(s) \in Nat
           /\ DOMAIN s = 1..Len(s) /\ DOMAIN Append(s, e) = 1..Len(s)+1
           /\ Append(s, e)[Len(s) + 1] = e /\ \A i \in 1..Len(s) : Append(s, e)[i] = s[i]
           /\ ToSet(Append(s, e)) = ToSet(s) \union {e}
    <1>1. /\ Len(s) \in Nat /\ Append(s, e) \in Seq(S) /\ Append(s, e) # <<>>
          /\ DOMAIN s = 1..Len(s) /\ DOMAIN Append(s, e) = 1..Len(s)+1
          /\ Append(s, e)[Len(s) + 1] = e /\ \A i \in 1..Len(s) : Append(s, e)[i] = s[i]
      BY AppendProperties
    <1>2. \A x \in ToSet(Append(s, e)) : x \in ToSet(s) \/ x = e
      <2>1. ASSUME NEW i \in 1..Len(s)+1, i # Len(s) + 1 PROVE Append(s, e)[i] \in ToSet(s)
        BY <1>1, <2>1 DEF ToSet
      <2> QED  BY <1>1, <2>1 DEF ToSet
    <1>3. \A x \in ToSet(s) : x \in ToSet(Append(s, e))
      <2>1. ASSUME NEW i \in 1..Len(s) PROVE s[i] \in ToSet(Append(s, e))
        BY <1>1 DEF ToSet
      <2> QED  BY <1>1, <2>1 DEF ToSet
    <1>4. e \in ToSet(Append(s, e))
      BY <1>1 DEF ToSet
    <1>5. ToSet(Append(s, e)) = ToSet(s) \union {e}
      BY <1>2, <1>3, <1>4
    <1> QED  BY <1>1, <1>5

LEMMA Nothing ==
    ToSet(<<>>) = {} /\ DOMAIN <<>> = {} /\ Len(<<>>) = 0 /\ PostedIn(<<>>) = {}
    <1>1. DOMAIN <<>> = {} /\ Len(<<>>) = 0
      OBVIOUS
    <1> QED  BY <1>1 DEF ToSet, PostedIn

\* Two sequences, one behind the other.
LEMMA Joined ==
    ASSUME NEW S, NEW s \in Seq(S), NEW t \in Seq(S)
    PROVE  /\ s \o t \in Seq(S) /\ s \o <<>> = s /\ <<>> \o t = t
           /\ t # <<>> => s \o t = Append(s, Head(t)) \o Tail(t)
           /\ s # <<>> => s \o t # <<>> /\ Head(s \o t) = Head(s) /\ Tail(s \o t) = Tail(s) \o t
           /\ \A e \in S : s \o Append(t, e) = Append(s \o t, e)
    <1>1. s \o t \in Seq(S) /\ s \o <<>> = s /\ <<>> \o t = t
      BY ConcatProperties, ConcatEmptySeq
    <1>2. ASSUME t # <<>> PROVE s \o t = Append(s, Head(t)) \o Tail(t)
      <2>1. t = <<Head(t)>> \o Tail(t) /\ Head(t) \in S /\ Tail(t) \in Seq(S)
        BY <1>2
      <2>2. (s \o <<Head(t)>>) \o Tail(t) = s \o (<<Head(t)>> \o Tail(t))
        <3>1. <<Head(t)>> \in Seq(S)
          BY <2>1
        <3> QED  BY <2>1, <3>1, ConcatAssociative
      <2>3. s \o <<Head(t)>> = Append(s, Head(t))
        BY <2>1, AppendIsConcat
      <2> QED  BY <2>1, <2>2, <2>3
    <1>3. ASSUME s # <<>>
          PROVE  s \o t # <<>> /\ Head(s \o t) = Head(s) /\ Tail(s \o t) = Tail(s) \o t
      BY <1>3
    <1>4. ASSUME NEW e \in S PROVE s \o Append(t, e) = Append(s \o t, e)
      BY <1>1
    <1> QED  BY <1>1, <1>2, <1>3, <1>4
------------------------------------------------------------------------------
(***************************************************************************)
(* The queues.                                                             *)
(***************************************************************************)

\* requeue puts a message somewhere between the others; a message not begun goes
\* behind all others that are not.
LEMMA Requeued ==
    ASSUME NEW q \in Seq(Messages), NEW m \in Messages
    PROVE  /\ requeue(q, m) \in Seq(Messages) /\ requeue(q, m) # <<>>
           /\ DOMAIN requeue(q, m) = 1..Len(q)+1 /\ DOMAIN q = 1..Len(q) /\ Len(q) \in Nat
           /\ ToSet(requeue(q, m)) = ToSet(q) \union {m}
           /\ \E k \in 1..Len(q)+1 :
                 /\ requeue(q, m)[k] = m
                 /\ \A i \in 1..Len(q)+1 : i < k => i \in 1..Len(q) /\ requeue(q, m)[i] = q[i]
                 /\ \A i \in 1..Len(q)+1 : i > k => i-1 \in 1..Len(q) /\ requeue(q, m)[i] = q[i - 1]
                 /\ m.bytesSent = 0 => \A i \in 1..Len(q) : q[i].bytesSent = 0 => i < k
    <1> DEFINE r == requeue(q, m)
               n == Len(q)
    <1>1. n \in Nat /\ DOMAIN q = 1..n /\ \A i \in 1..n : q[i] \in Messages
      OBVIOUS
    <1>2. \E k \in 1..n+1 :
             /\ r = SubSeq(q, 1, k - 1) \o <<m>> \o SubSeq(q, k, n)
             /\ m.bytesSent = 0 => \A i \in 1..n : q[i].bytesSent = 0 => i < k
      <2> DEFINE W == {i \in 1..n : q[i].urgent \/ (m.bytesSent = 0 /\ q[i].bytesSent = 0)}
                 l == LastNotOvertaken(q, m)
                 after == IF l = 0 THEN 1 ELSE IF q[l].urgent /\ l < n THEN l + 1 ELSE l
      <2>1. CASE ~(m.urgent /\ n > 1)
        <3>1. r = Append(q, m)
          BY <2>1 DEF requeue
        <3>2. SubSeq(q, 1, n) = q /\ SubSeq(q, n + 1, n) = <<>> /\ (n + 1) - 1 = n
          BY <1>1, SubSeqFull, SubSeqEmpty
        <3>3. Append(q, m) = (q \o <<m>>) \o <<>>
          BY ConcatEmptySeq, AppendIsConcat
        <3>4. r = SubSeq(q, 1, (n + 1) - 1) \o <<m>> \o SubSeq(q, n + 1, n)
          BY <3>1, <3>2, <3>3
        <3>5. n + 1 \in 1..n+1 /\ \A i \in 1..n : i < n + 1
          BY <1>1
        <3> QED  BY <3>4, <3>5
      <2>2. CASE m.urgent /\ n > 1
        <3>1. l = IF W # {} THEN Max(W) ELSE 0
          BY DEF LastNotOvertaken, SelectLastInSeq
        <3>2. /\ l \in 0..n /\ (l = 0 => W = {}) /\ \A i \in W : i <= l
          <4>1. CASE W = {}
            BY <1>1, <3>1, <4>1
          <4>2. CASE W # {}
            <5>1. W \in SUBSET (1..n)
              OBVIOUS
            <5>2. Max(W) \in W /\ \A i \in W : i <= Max(W)
              BY <1>1, <4>2, <5>1, MaxFinds
            <5> HIDE DEF W
            <5>3. l \in W /\ \A i \in W : i <= l
              BY <3>1, <4>2, <5>2
            <5> HIDE DEF l
            <5>4. l \in 1..n
              BY <5>1, <5>3
            <5> QED  BY <1>1, <4>2, <5>3, <5>4
          <4> QED  BY <4>1, <4>2
        <3>3. r = InsertAt(q, after + 1, m)
          BY <2>2 DEF requeue
        <3>4. after + 1 \in 1..n+1 /\ after >= l /\ after + 1 - 1 = after /\ after \in Nat
          BY <1>1, <2>2, <3>2
        <3>5. r = SubSeq(q, 1, (after + 1) - 1) \o <<m>> \o SubSeq(q, after + 1, n)
          BY <3>3 DEF InsertAt
        <3>6. ASSUME m.bytesSent = 0, NEW i \in 1..n, q[i].bytesSent = 0 PROVE i < after + 1
          <4>1. i \in W
            BY <3>6
          <4>2. i <= l
            BY <3>2, <4>1
          <4> HIDE DEF after, l
          <4> QED  BY <1>1, <3>2, <3>4, <4>2
        <3> HIDE DEF after
        <3> QED  BY <3>4, <3>5, <3>6
      <2> QED  BY <2>1, <2>2
    <1>3. PICK k \in 1..n+1 :
             /\ r = SubSeq(q, 1, k - 1) \o <<m>> \o SubSeq(q, k, n)
             /\ m.bytesSent = 0 => \A i \in 1..n : q[i].bytesSent = 0 => i < k
      BY <1>2
    <1> HIDE DEF r
    <1> DEFINE a == SubSeq(q, 1, k - 1)
               b == SubSeq(q, k, n)
    <1>4. a \in Seq(Messages) /\ Len(a) = k - 1 /\ \A i \in 1..k-1 : a[i] = q[i]
      BY <1>1
    <1>5. b \in Seq(Messages) /\ Len(b) = n - k + 1 /\ \A i \in 1..n-k+1 : b[i] = q[k + i - 1]
      BY <1>1
    <1> HIDE DEF a, b, n
    <1> DEFINE c == a \o <<m>>
    <1>6. c \in Seq(Messages) /\ Len(c) = k /\ c[k] = m /\ \A i \in 1..k-1 : c[i] = a[i]
      BY <1>1, <1>4
    <1>7. r = c \o b
      BY <1>3 DEF a, b, c, n
    <1> HIDE DEF c
    <1>8. /\ r \in Seq(Messages) /\ Len(r) = n + 1
          /\ \A i \in 1..k : r[i] = c[i]
          /\ \A i \in 1..n-k+1 : r[k + i] = b[i]
      <2>1. c \o b \in Seq(Messages) /\ Len(c \o b) = Len(c) + Len(b)
        BY <1>5, <1>6
      <2>2. Len(c) + Len(b) = n + 1
        BY <1>1, <1>5, <1>6
      <2>3. \A i \in 1..k : (c \o b)[i] = c[i]
        BY <1>1, <1>5, <1>6
      <2>4. \A i \in 1..n-k+1 : (c \o b)[k + i] = b[i]
        BY <1>1, <1>5, <1>6
      <2> QED  BY <1>7, <2>1, <2>2, <2>3, <2>4
    <1>9. r[k] = m
      BY <1>1, <1>6, <1>8
    <1>10. ASSUME NEW i \in 1..n+1, i < k PROVE i \in 1..n /\ r[i] = q[i]
      BY <1>1, <1>4, <1>6, <1>8, <1>10
    <1>11. ASSUME NEW i \in 1..n+1, i > k PROVE i-1 \in 1..n /\ r[i] = q[i - 1]
      <2>1. i - k \in 1..n-k+1 /\ k + (i - k) = i /\ k + (i - k) - 1 = i - 1 /\ i - 1 \in 1..n
        BY <1>1, <1>11
      <2>2. r[k + (i - k)] = b[i - k] /\ b[i - k] = q[k + (i - k) - 1]
        BY <1>5, <1>8, <2>1
      <2> QED  BY <2>1, <2>2
    <1>12. DOMAIN r = 1..n+1 /\ r # <<>>
      BY <1>1, <1>8
    <1>13. ToSet(r) = ToSet(q) \union {m}
      <2>1. ASSUME NEW i \in 1..n+1 PROVE r[i] \in ToSet(q) \union {m}
        <3>1. i < k \/ i = k \/ i > k
          BY <1>1
        <3> QED  BY <1>1, <1>9, <1>10, <1>11, <3>1 DEF ToSet
      <2>2. ASSUME NEW i \in 1..n PROVE q[i] \in ToSet(r)
        <3>1. CASE i < k
          BY <1>1, <1>10, <1>12, <3>1 DEF ToSet
        <3>2. CASE ~(i < k)
          <4>1. i + 1 \in 1..n+1 /\ i + 1 > k /\ (i + 1) - 1 = i
            BY <1>1, <3>2
          <4>2. r[i + 1] = q[i]
            BY <1>11, <4>1
          <4> QED  BY <1>12, <4>1, <4>2 DEF ToSet
        <3> QED  BY <3>1, <3>2
      <2>3. m \in ToSet(r)
        BY <1>9, <1>12 DEF ToSet
      <2> QED  BY <1>1, <1>12, <2>1, <2>2, <2>3 DEF ToSet
    <1>14. m.bytesSent = 0 => \A i \in 1..n : q[i].bytesSent = 0 => i < k
      BY <1>3
    <1> QED  BY <1>1, <1>8, <1>9, <1>10, <1>11, <1>12, <1>13, <1>14 DEF r, n

\* A message that is taken out of the icebox.
LEMMA Removed ==
    ASSUME NEW q \in Seq(Messages), NEW k \in 1..Len(q)
    PROVE  /\ RemoveAt(q, k) \in Seq(Messages)
           /\ DOMAIN RemoveAt(q, k) = 1..Len(q)-1 /\ DOMAIN q = 1..Len(q) /\ Len(q) \in Nat
           /\ \A i \in 1..Len(q)-1 : i < k => RemoveAt(q, k)[i] = q[i]
           /\ \A i \in 1..Len(q)-1 : i >= k => RemoveAt(q, k)[i] = q[i + 1]
           /\ ToSet(RemoveAt(q, k)) \subseteq ToSet(q)
    <1> DEFINE r == RemoveAt(q, k)
               n == Len(q)
               a == SubSeq(q, 1, k - 1)
               b == SubSeq(q, k + 1, n)
    <1>1. n \in Nat /\ DOMAIN q = 1..n /\ k \in 1..n
      OBVIOUS
    <1>2. a \in Seq(Messages) /\ Len(a) = k - 1 /\ \A i \in 1..k-1 : a[i] = q[i]
      BY <1>1
    <1>3. b \in Seq(Messages) /\ Len(b) = n - k /\ \A i \in 1..n-k : b[i] = q[k + i]
      <2>1. b \in Seq(Messages) /\ Len(b) = n - (k + 1) + 1
        <3>1. \A x \in Nat : \A y \in 1..x : y + 1 \in Int /\ (y + 1 <= x \/ x - (y + 1) + 1 = 0)
          OBVIOUS
        <3>2. k + 1 \in Int /\ (k + 1 <= n \/ n - (k + 1) + 1 = 0)
          BY <1>1, <3>1
        <3>3. \A i \in (k+1)..n : q[i] \in Messages
          BY <1>1
        <3>4. b \in Seq(Messages) /\ Len(b) = IF k + 1 <= n THEN n - (k + 1) + 1 ELSE 0
          <4>1. n \in Int
            BY <1>1
          <4> HIDE DEF n
          <4> QED  BY <3>2, <3>3, <4>1, SubSeqProperties, Zenon
        <3> HIDE DEF b, n
        <3> QED  BY <3>2, <3>4
      <2>2. \A i \in 1..n-(k+1)+1 : b[i] = q[(k + 1) + i - 1]
        BY <1>1
      <2>3. n - (k + 1) + 1 = n - k /\ \A i \in 1..n-k : (k + 1) + i - 1 = k + i
        BY <1>1
      <2> HIDE DEF b
      <2> QED  BY <2>1, <2>2, <2>3
    <1>4. r = a \o b
      BY DEF RemoveAt
    <1> HIDE DEF r, a, b, n
    <1>5. /\ r \in Seq(Messages) /\ Len(r) = n - 1
          /\ \A i \in 1..k-1 : r[i] = a[i]
          /\ \A i \in 1..n-k : r[k - 1 + i] = b[i]
      <2>1. a \o b \in Seq(Messages) /\ Len(a \o b) = Len(a) + Len(b)
        BY <1>2, <1>3, ConcatProperties
      <2>2. Len(a) + Len(b) = n - 1
        BY <1>1, <1>2, <1>3
      <2>3. \A i \in 1..k-1 : (a \o b)[i] = a[i]
        BY <1>1, <1>2, <1>3
      <2>4. \A i \in 1..n-k : (a \o b)[k - 1 + i] = b[i]
        BY <1>1, <1>2, <1>3, ConcatProperties
      <2> QED  BY <1>4, <2>1, <2>2, <2>3, <2>4
    <1>6. ASSUME NEW i \in 1..n-1, i < k PROVE r[i] = q[i]
      BY <1>1, <1>2, <1>5, <1>6
    <1>7. ASSUME NEW i \in 1..n-1, i >= k PROVE r[i] = q[i + 1]
      <2>1. i - k + 1 \in 1..n-k /\ k - 1 + (i - k + 1) = i /\ k + (i - k + 1) = i + 1
        BY <1>1, <1>7
      <2>2. r[k - 1 + (i - k + 1)] = b[i - k + 1] /\ b[i - k + 1] = q[k + (i - k + 1)]
        BY <1>3, <1>5, <2>1
      <2> QED  BY <2>1, <2>2
    <1>8. DOMAIN r = 1..n-1
      BY <1>1, <1>5
    <1>9. ToSet(r) \subseteq ToSet(q)
      <2>1. ASSUME NEW i \in 1..n-1 PROVE r[i] \in ToSet(q)
        <3>1. i \in 1..n /\ i + 1 \in 1..n /\ (i < k \/ i >= k)
          BY <1>1
        <3> QED  BY <1>1, <1>6, <1>7, <3>1 DEF ToSet
      <2> QED  BY <1>8, <2>1 DEF ToSet
    <1> QED  BY <1>1, <1>5, <1>6, <1>7, <1>8, <1>9 DEF r, n

\* A message that is changed where it is.
LEMMA Replaced ==
    ASSUME NEW q \in Seq(Messages), NEW k \in 1..Len(q), NEW m \in Messages
    PROVE  /\ [q EXCEPT ![k] = m] \in Seq(Messages)
           /\ DOMAIN [q EXCEPT ![k] = m] = DOMAIN q /\ k \in DOMAIN q
           /\ \A i \in DOMAIN q : [q EXCEPT ![k] = m][i] = IF i = k THEN m ELSE q[i]
           /\ ToSet([q EXCEPT ![k] = m]) \subseteq ToSet(q) \union {m}
           /\ m \in ToSet([q EXCEPT ![k] = m])
           /\ \A x \in ToSet(q) : x = q[k] \/ x \in ToSet([q EXCEPT ![k] = m])
           /\ q[k] \in ToSet(q)
    <1> DEFINE r == [q EXCEPT ![k] = m]
    <1>1. Len(q) \in Nat /\ DOMAIN q = 1..Len(q) /\ k \in DOMAIN q
      OBVIOUS
    <1>2. r \in Seq(Messages) /\ DOMAIN r = DOMAIN q
      OBVIOUS
    <1>3. \A i \in DOMAIN q : r[i] = IF i = k THEN m ELSE q[i]
      OBVIOUS
    <1> HIDE DEF r
    <1>4. ToSet(r) \subseteq ToSet(q) \union {m} /\ m \in ToSet(r) /\ q[k] \in ToSet(q)
      BY <1>1, <1>2, <1>3 DEF ToSet
    <1>5. \A x \in ToSet(q) : x = q[k] \/ x \in ToSet(r)
      BY <1>1, <1>2, <1>3 DEF ToSet
    <1> QED  BY <1>1, <1>2, <1>3, <1>4, <1>5 DEF r

\* What findMessage returns.
LEMMA Found ==
    ASSUME NEW q \in Seq(Messages), NEW n, NEW response
    PROVE  findMessage(q, n, response) \in 0..Len(q)
    <1> DEFINE I == {i \in 1..Len(q) : q[i].number = n /\ isResponse(q[i]) = response}
    <1>1. findMessage(q, n, response) = IF I # {} THEN Min(I) ELSE 0
      BY DEF findMessage, SelectInSeq
    <1>2. Len(q) \in Nat /\ I \in SUBSET Nat /\ I \in SUBSET (1..Len(q))
      OBVIOUS
    <1>3. I # {} => Min(I) \in I
      BY <1>2, MinFinds
    <1> HIDE DEF I
    <1>4. CASE I = {}
      BY <1>1, <1>2, <1>4
    <1>5. CASE I # {}
      <2>1. findMessage(q, n, response) \in 1..Len(q)
        BY <1>1, <1>2, <1>3, <1>5
      <2> QED  BY <1>2, <2>1
    <1> QED  BY <1>4, <1>5
------------------------------------------------------------------------------
(***************************************************************************)
(* Types.                                                                  *)
(***************************************************************************)
\* What the application, and acknowledge, hand to queueMessage.
LEMMA NewMessages ==
    /\ \A p \in Peers : \A shape \in Shapes[p], id \in Nat :
          /\ NewRequest(shape, id) \in Messages
          /\ Queued(NewRequest(shape, id)) \in Events
          /\ NewRequest(shape, id).type = "REQ" /\ NewRequest(shape, id).id = id
          /\ NewRequest(shape, id).number = 0 /\ NewRequest(shape, id).bytesSent = 0
          /\ NewRequest(shape, id).noReply = shape.noReply
          /\ shape.noReply \in BOOLEAN
    /\ \A p \in Peers : \A reply \in Replies[p], n \in Nat :
          /\ NewResponse(reply, n) \in Messages
          /\ Queued(NewResponse(reply, n)) \in Events
          /\ NewResponse(reply, n).type = reply.type
          /\ IsReply(NewResponse(reply, n)) /\ NewResponse(reply, n).number = n
    /\ \A type \in {"ACKREQ", "ACKRES"}, n \in Nat, count \in Nat :
          /\ NewAck(type, n, count) \in Messages
          /\ Queued(NewAck(type, n, count)) \in Events
          /\ NewAck(type, n, count).type = type /\ NewAck(type, n, count).number = n
    <1>1. AckSize \in Nat \ {0}
      BY BLIPIOAssumption
    <1>2. ASSUME NEW p \in Peers, NEW shape \in Shapes[p], NEW id \in Nat
          PROVE  /\ NewRequest(shape, id) \in Messages
                 /\ Queued(NewRequest(shape, id)) \in Events
                 /\ NewRequest(shape, id).type = "REQ" /\ NewRequest(shape, id).id = id
                 /\ NewRequest(shape, id).number = 0 /\ NewRequest(shape, id).bytesSent = 0
                 /\ NewRequest(shape, id).noReply = shape.noReply
                 /\ shape.noReply \in BOOLEAN
      <2>1. shape \in [size : Nat \ {0}, urgent : BOOLEAN, noReply : BOOLEAN]
        BY BLIPIOAssumption
      <2>2. NewRequest(shape, id) \in Messages
        BY <2>1 DEF NewRequest, Messages, MessageTypes
      <2> QED  BY <2>1, <2>2 DEF NewRequest, Queued, Events
    <1>3. ASSUME NEW p \in Peers, NEW reply \in Replies[p], NEW n \in Nat
          PROVE  /\ NewResponse(reply, n) \in Messages
                 /\ Queued(NewResponse(reply, n)) \in Events
                 /\ NewResponse(reply, n).type = reply.type
                 /\ IsReply(NewResponse(reply, n)) /\ NewResponse(reply, n).number = n
      <2>1. reply \in [type : {"RES", "ERR"}, size : Nat \ {0}, urgent : BOOLEAN]
        BY BLIPIOAssumption
      <2>2. NewResponse(reply, n) \in Messages
        BY <2>1 DEF NewResponse, Messages, MessageTypes
      <2> QED  BY <2>1, <2>2 DEF NewResponse, Queued, Events, IsReply
    <1>4. ASSUME NEW type \in {"ACKREQ", "ACKRES"}, NEW n \in Nat, NEW count \in Nat
          PROVE  /\ NewAck(type, n, count) \in Messages
                 /\ Queued(NewAck(type, n, count)) \in Events
                 /\ NewAck(type, n, count).type = type /\ NewAck(type, n, count).number = n
      <2>1. NewAck(type, n, count) \in Messages
        BY <1>1 DEF NewAck, Messages, MessageTypes
      <2> QED  BY <2>1 DEF NewAck, Queued, Events
    <1> QED  BY <1>2, <1>3, <1>4

\* The maps of incoming messages.
LEMMA PendingMaps ==
    ASSUME NEW map, IsPending(map), NEW n \in Nat \ {0}
    PROVE  /\ IsPending(Without(map, n)) /\ DOMAIN Without(map, n) = DOMAIN map \ {n}
           /\ \A k \in DOMAIN map \ {n} : Without(map, n)[k] = map[k]
           /\ \A in \in Incomings :
                 /\ IsPending(With(map, n, in)) /\ DOMAIN With(map, n, in) = DOMAIN map \union {n}
                 /\ With(map, n, in)[n] = in
                 /\ \A k \in DOMAIN map \ {n} : With(map, n, in)[k] = map[k]
    BY DEF IsPending, With, Without

LEMMA CountedIs ==
    ASSUME NEW in \in Incomings, NEW f \in Frames
    PROVE  /\ Counted(in, f) \in Incomings
           /\ Counted(in, f).noReply = in.noReply /\ Counted(in, f).id = in.id
    <1>1. AckThreshold \in Nat \ {0}
      BY BLIPIOAssumption
    <1>2. in.raw + f.size \in Nat /\ in.unacked + f.size \in Nat
      BY <1>1 DEF Incomings, Frames
    <1>3. (IF AckDue(in, f) THEN 0 ELSE in.unacked + f.size) \in 0..AckThreshold-1
      BY <1>1, <1>2 DEF AckDue
    <1>4. Counted(in, f) =
             [in EXCEPT !.raw = in.raw + f.size,
                        !.unacked = IF AckDue(in, f) THEN 0 ELSE in.unacked + f.size]
      BY DEF Counted
    <1> QED  BY <1>2, <1>3, <1>4 DEF Incomings

\* A MessageIn made for the first frame of a request, or by createResponse.
LEMMA NewIncomings ==
    \A id \in Nat, noReply \in BOOLEAN :
        /\ NewIncoming(id, noReply) \in Incomings
        /\ NewIncoming(id, noReply).id = id /\ NewIncoming(id, noReply).noReply = noReply
    <1>1. AckThreshold \in Nat \ {0}
      BY BLIPIOAssumption
    <1>2. 0 \in 0..AckThreshold-1
      BY <1>1
    <1> QED  BY <1>2 DEF NewIncoming, Incomings

\* acknowledge posts nothing, or an ACK.
LEMMA AckPosted ==
    ASSUME NEW in \in Incomings, NEW f \in Frames, NEW type \in {"ACKREQ", "ACKRES"},
           NEW mb \in Seq(Events)
    PROVE  \/ mb \o Acknowledgement(in, f, type) = mb
           \/ \E m \in Messages :
                 /\ isAck(m) /\ m.number > 0 /\ Queued(m) \in Events
                 /\ mb \o Acknowledgement(in, f, type) = Append(mb, Queued(m))
    <1>1. CASE ~AckDue(in, f)
      <2>1. Acknowledgement(in, f, type) = <<>>
        BY <1>1 DEF Acknowledgement
      <2> QED  BY <2>1, ConcatEmptySeq
    <1>2. CASE AckDue(in, f)
      <2> DEFINE m == NewAck(type, f.number, in.raw + f.size)
      <2>1. Acknowledgement(in, f, type) = <<Queued(m)>>
        BY <1>2 DEF Acknowledgement
      <2>2. f.number \in Nat \ {0} /\ in.raw + f.size \in Nat
        BY DEF Frames, Incomings
      <2>3. m \in Messages /\ Queued(m) \in Events /\ m.type = type /\ m.number = f.number
        BY <2>2, NewMessages
      <2> HIDE DEF m
      <2>4. isAck(m) /\ m.number > 0
        BY <2>2, <2>3 DEF isAck
      <2>5. mb \o <<Queued(m)>> = Append(mb, Queued(m))
        BY <2>3, AppendIsConcat
      <2> QED  BY <2>1, <2>3, <2>4, <2>5
    <1> QED  BY <1>1, <1>2

\* Ending requests changes nothing but their ends.
LEMMA EndedIs ==
    ASSUME TypeOK, NEW p \in Peers, NEW ids, NEW how \in {"complete", "disconnected"}
    PROVE  /\ Ended(p, ids, how) \in Seq(Requests)
           /\ Len(Ended(p, ids, how)) = Len(progress[p])
           /\ DOMAIN Ended(p, ids, how) = DOMAIN progress[p]
           /\ \A i \in DOMAIN progress[p] :
                 /\ Ended(p, ids, how)[i].noReply = progress[p][i].noReply
                 /\ i \notin ids => Ended(p, ids, how)[i].ends = progress[p][i].ends
                 /\ i \in ids => Ended(p, ids, how)[i].ends = Append(progress[p][i].ends, how)
    <1> DEFINE s == progress[p]
               n == Len(s)
               t == [i \in 1..n |-> IF i \in ids THEN [s[i] EXCEPT !.ends = Append(@, how)] ELSE s[i]]
    <1>1. s \in Seq(Requests) /\ n \in Nat /\ DOMAIN s = 1..n /\ \A i \in 1..n : s[i] \in Requests
      <2>1. s \in Seq(Requests)
        BY DEF TypeOK
      <2> QED  BY <2>1
    <1>2. Ended(p, ids, how) = t
      BY <1>1 DEF Ended
    <1> HIDE DEF s, n
    <1>3. ASSUME NEW i \in 1..n
          PROVE  /\ t[i] \in Requests /\ t[i].noReply = s[i].noReply
                 /\ i \notin ids => t[i].ends = s[i].ends
                 /\ i \in ids => t[i].ends = Append(s[i].ends, how)
      <2>1. t[i] = IF i \in ids THEN [s[i] EXCEPT !.ends = Append(s[i].ends, how)] ELSE s[i]
        OBVIOUS
      <2>2. s[i] \in Requests /\ Append(s[i].ends, how) \in Seq({"complete", "disconnected"})
        BY <1>1, AppendProperties DEF Requests
      <2> HIDE DEF t
      <2> QED  BY <2>1, <2>2 DEF Requests
    <1>4. t \in Seq(Requests) /\ Len(t) = n /\ DOMAIN t = 1..n
      <2>1. t \in [1..n -> Requests]
        BY <1>3
      <2> HIDE DEF t
      <2> QED  BY <1>1, <2>1
    <1> HIDE DEF t
    <1> QED  BY <1>1, <1>2, <1>3, <1>4 DEF s, n

\* The frame that is sent, and what remains.
LEMMA SentIs ==
    ASSUME NEW m \in Messages, m.number > 0, NEW rest,
           NEW size, size = SmallerOf(m.left, FrameRoom(m, rest))
    PROVE  /\ size \in Nat \ {0} /\ FrameOf(m, size) \in Frames
           /\ FrameOf(m, size).type = m.type /\ FrameOf(m, size).number = m.number
           /\ FrameOf(m, size).noReply = m.noReply
           /\ Sent(m, size).left > 0 =>
                 /\ Sent(m, size) \in Messages /\ Sent(m, size).bytesSent > 0
                 /\ ~isAck(m) /\ FrameOf(m, size).more
           /\ Sent(m, size).left <= 0 /\ ~isAck(m) => ~FrameOf(m, size).more
           /\ Sent(m, size).type = m.type /\ Sent(m, size).number = m.number
           /\ Sent(m, size).id = m.id /\ Sent(m, size).noReply = m.noReply
           /\ Sent(m, size).urgent = m.urgent
    <1>1. FrameRoom(m, rest) \in Nat \ {0}
      BY BLIPIOAssumption DEF FrameRoom
    <1>2. m.left \in Nat \ {0}
      BY DEF Messages
    <1>3. size \in Nat \ {0} /\ size <= m.left
      BY <1>1, <1>2 DEF SmallerOf
    <1>4. FrameOf(m, size) \in Frames
      BY <1>2, <1>3 DEF FrameOf, Frames, Messages
    <1>5. /\ FrameOf(m, size).type = m.type /\ FrameOf(m, size).number = m.number
          /\ FrameOf(m, size).noReply = m.noReply /\ (FrameOf(m, size).more <=> m.left > size)
      BY DEF FrameOf
    <1>6. CASE isAck(m)
      <2>1. Sent(m, size) = [m EXCEPT !.left = 0, !.bytesSent = m.bytesSent + size]
        BY <1>6 DEF Sent
      <2>2. Sent(m, size).left = 0
        BY <2>1 DEF Messages
      <2> QED  BY <1>3, <1>4, <1>5, <1>6, <2>1, <2>2 DEF Messages
    <1>7. CASE ~isAck(m)
      <2>1. Sent(m, size) = [m EXCEPT !.left = m.left - size, !.bytesSent = m.bytesSent + size,
                                      !.unacked = m.unacked + size]
        BY <1>7 DEF Sent
      <2>2. m.bytesSent + size \in Nat \ {0} /\ m.unacked + size \in Nat /\ m.left - size \in Nat
        BY <1>2, <1>3 DEF Messages
      <2>3. Sent(m, size).left = m.left - size /\ Sent(m, size).bytesSent = m.bytesSent + size
        BY <2>1 DEF Messages
      <2>4. m.left - size > 0 => Sent(m, size) \in Messages
        <3>1. m.left - size > 0 => m.left - size \in Nat \ {0}
          BY <2>2
        <3> QED  BY <2>1, <2>2, <3>1 DEF Messages
      <2>5. (m.left - size > 0 <=> m.left > size) /\ (m.left - size <= 0 <=> ~(m.left > size))
        BY <1>2, <1>3
      <2>6. Sent(m, size).bytesSent > 0
        BY <2>2, <2>3
      <2>7. /\ Sent(m, size).type = m.type /\ Sent(m, size).number = m.number
            /\ Sent(m, size).id = m.id /\ Sent(m, size).noReply = m.noReply
            /\ Sent(m, size).urgent = m.urgent
        BY <2>1 DEF Messages
      <2> QED  BY <1>3, <1>4, <1>5, <1>7, <2>3, <2>4, <2>5, <2>6, <2>7
    <1> QED  BY <1>6, <1>7

\* An ACK changes nothing but how much is not acknowledged.
LEMMA AckedIs ==
    ASSUME NEW m \in Messages, NEW count \in Nat
    PROVE  /\ Acked(m, count) \in Messages
           /\ Acked(m, count).type = m.type /\ Acked(m, count).number = m.number
           /\ Acked(m, count).id = m.id /\ Acked(m, count).noReply = m.noReply
           /\ Acked(m, count).bytesSent = m.bytesSent
    <1>1. CASE ~(count <= m.bytesSent)
      BY <1>1 DEF Acked
    <1>2. CASE count <= m.bytesSent
      <2>1. Acked(m, count) = [m EXCEPT !.unacked = SmallerOf(m.unacked, m.bytesSent - count)]
        BY <1>2 DEF Acked
      <2>2. SmallerOf(m.unacked, m.bytesSent - count) \in Nat
        BY <1>2 DEF SmallerOf, Messages
      <2> QED  BY <2>1, <2>2 DEF Messages
    <1> QED  BY <1>1, <1>2

LEMMA FramesIn ==
    ASSUME NEW s \in Seq(Frames)
    PROVE  \A f \in ToSet(s) : f \in Frames /\ f.number \in Nat \ {0}
    <1>1. \A f \in ToSet(s) : f \in Frames
      BY DEF ToSet
    <1> QED  BY <1>1 DEF Frames
------------------------------------------------------------------------------
(***************************************************************************)
(* Messages in the mailbox and in the queues.                              *)
(***************************************************************************)
NoTwin(m, M) == \A x \in M : ~Twins(m, x) /\ ~Twins(x, m)

\* What is posted.
LEMMA PostedMore ==
    ASSUME NEW mb \in Seq(Events), NEW e \in Events
    PROVE  /\ e.ev = "queueMessage" => PostedIn(Append(mb, e)) = PostedIn(mb) \union {e.msg}
           /\ e.ev # "queueMessage" => PostedIn(Append(mb, e)) = PostedIn(mb)
    <1>1. ToSet(Append(mb, e)) = ToSet(mb) \union {e}
      BY Longer
    <1> QED  BY <1>1 DEF PostedIn

LEMMA PostedLess ==
    ASSUME NEW mb \in Seq(Events), mb # <<>>
    PROVE  /\ Head(mb).ev = "queueMessage" =>
                 PostedIn(mb) = {Head(mb).msg} \union PostedIn(Tail(mb)) /\ Head(mb).msg \in Messages
           /\ Head(mb).ev # "queueMessage" => PostedIn(Tail(mb)) = PostedIn(mb)
           /\ \A e : e \in ToSet(mb) => e = Head(mb) \/ e \in ToSet(Tail(mb))
    <1>1. ToSet(mb) = {Head(mb)} \union ToSet(Tail(mb)) /\ Head(mb) \in Events
      BY Shorter
    <1>2. Head(mb).ev = "queueMessage" => Head(mb).msg \in Messages
      BY <1>1 DEF Events
    <1> QED  BY <1>1, <1>2 DEF PostedIn

LEMMA PostedAre ==
    ASSUME NEW mb \in Seq(Events)
    PROVE  /\ PostedIn(mb) \subseteq Messages
           /\ \A i \in DOMAIN mb : mb[i].ev = "queueMessage" => mb[i].msg \in PostedIn(mb)
           /\ \A m \in PostedIn(mb) : \E i \in DOMAIN mb : mb[i].ev = "queueMessage" /\ mb[i].msg = m
    <1>1. \A i \in DOMAIN mb : mb[i] \in Events /\ mb[i] \in ToSet(mb)
      BY DEF ToSet
    <1>2. \A e \in Events : e.ev = "queueMessage" => e.msg \in Messages
      BY DEF Events
    <1>3. \A e \in ToSet(mb) : \E i \in DOMAIN mb : e = mb[i]
      BY DEF ToSet
    <1> QED  BY <1>1, <1>2, <1>3 DEF PostedIn

LEMMA TwinsSymmetric ==
    \A a, b : Twins(a, b) <=> Twins(b, a)
    BY DEF Twins

\* A message keeps its twins when its type, number and id stay.
LEMMA TwinsKept ==
    ASSUME NEW a, NEW b, a.type = b.type, a.number = b.number, a.id = b.id
    PROVE  \A x : (Twins(a, x) <=> Twins(b, x)) /\ (Twins(x, a) <=> Twins(x, b))
    BY DEF Twins, IsReq, IsReply

\* Taking a message from its place ...
LEMMA AloneTaken ==
    ASSUME NEW mb \in Seq(Events), NEW out \in Seq(Messages), NEW ice \in Seq(Messages),
           Alone(mb, out, ice), mb # <<>>
    PROVE  /\ Alone(Tail(mb), out, ice)
           /\ Head(mb).ev = "queueMessage" =>
                 NoTwin(Head(mb).msg, PostedIn(Tail(mb)) \union HeldIn(out, ice))
    <1>1. /\ Tail(mb) \in Seq(Events) /\ Head(mb) = mb[1] /\ 1 \in DOMAIN mb /\ Len(mb) \in Nat
          /\ DOMAIN Tail(mb) = 1..Len(mb)-1 /\ DOMAIN mb = 1..Len(mb)
          /\ \A i \in 1..Len(mb)-1 : Tail(mb)[i] = mb[i + 1]
      BY Shorter
    <1>2. PostedIn(Tail(mb)) \subseteq PostedIn(mb)
      BY PostedLess
    <1>3. \A i \in 1..Len(mb)-1 : i + 1 \in DOMAIN mb /\ i + 1 # 1
      BY <1>1
    <1>4. Alone(Tail(mb), out, ice)
      <2>1. ASSUME NEW i \in DOMAIN Tail(mb), NEW j \in DOMAIN Tail(mb),
                   Tail(mb)[i].ev = "queueMessage", Tail(mb)[j].ev = "queueMessage",
                   Twins(Tail(mb)[i].msg, Tail(mb)[j].msg)
            PROVE  i = j
        <3>1. i + 1 = j + 1
          BY <1>1, <1>3, <2>1 DEF Alone
        <3> QED  BY <1>1, <3>1
      <2> QED  BY <1>2, <2>1 DEF Alone
    <1>5. ASSUME Head(mb).ev = "queueMessage"
          PROVE  NoTwin(Head(mb).msg, PostedIn(Tail(mb)) \union HeldIn(out, ice))
      <2>1. Head(mb).msg \in PostedIn(mb)
        BY <1>1, <1>5, PostedAre
      <2>2. \A x \in HeldIn(out, ice) : ~Twins(Head(mb).msg, x)
        BY <2>1 DEF Alone
      <2>3. ASSUME NEW x \in PostedIn(Tail(mb)) PROVE ~Twins(Head(mb).msg, x)
        <3>1. PICK i \in DOMAIN Tail(mb) : Tail(mb)[i].ev = "queueMessage" /\ Tail(mb)[i].msg = x
          BY <1>1, PostedAre
        <3>2. mb[i + 1].ev = "queueMessage" /\ mb[i + 1].msg = x /\ i + 1 \in DOMAIN mb /\ i + 1 # 1
          BY <1>1, <1>3, <3>1
        <3> QED  BY <1>1, <1>5, <3>2 DEF Alone
      <2> QED  BY <2>2, <2>3, TwinsSymmetric DEF NoTwin
    <1> QED  BY <1>4, <1>5

LEMMA AlonePopped ==
    ASSUME NEW mb \in Seq(Events), NEW out \in Seq(Messages), NEW ice \in Seq(Messages),
           Alone(mb, out, ice), out # <<>>
    PROVE  /\ Alone(mb, Tail(out), ice)
           /\ NoTwin(Head(out), PostedIn(mb) \union HeldIn(Tail(out), ice))
    <1>1. /\ Head(out) = out[1] /\ 1 \in DOMAIN out /\ Len(out) \in Nat
          /\ DOMAIN Tail(out) = 1..Len(out)-1 /\ DOMAIN out = 1..Len(out)
          /\ \A i \in 1..Len(out)-1 : Tail(out)[i] = out[i + 1]
          /\ ToSet(out) = {Head(out)} \union ToSet(Tail(out))
      BY Shorter
    <1>2. HeldIn(Tail(out), ice) \subseteq HeldIn(out, ice) /\ Head(out) \in HeldIn(out, ice)
      BY <1>1 DEF HeldIn
    <1>3. \A i \in 1..Len(out)-1 : i + 1 \in DOMAIN out /\ i + 1 # 1
      BY <1>1
    <1>4. Alone(mb, Tail(out), ice)
      <2>1. ASSUME NEW i \in DOMAIN Tail(out), NEW j \in DOMAIN Tail(out), Twins(Tail(out)[i], Tail(out)[j])
            PROVE  i = j
        <3>1. i + 1 = j + 1
          BY <1>1, <1>3, <2>1 DEF Alone
        <3> QED  BY <1>1, <3>1
      <2> QED  BY <1>1, <1>2, <2>1 DEF Alone
    <1>5. \A x \in PostedIn(mb) \union ToSet(ice) : ~Twins(Head(out), x)
      BY <1>1, <1>2, TwinsSymmetric DEF Alone
    <1>6. ASSUME NEW x \in ToSet(Tail(out)) PROVE ~Twins(Head(out), x)
      <2>1. PICK i \in DOMAIN Tail(out) : x = Tail(out)[i]
        BY DEF ToSet
      <2>2. x = out[i + 1] /\ i + 1 \in DOMAIN out /\ i + 1 # 1
        BY <1>1, <1>3, <2>1
      <2> QED  BY <1>1, <2>2 DEF Alone
    <1> QED  BY <1>4, <1>5, <1>6, TwinsSymmetric DEF NoTwin, HeldIn

LEMMA AloneThawed ==
    ASSUME NEW mb \in Seq(Events), NEW out \in Seq(Messages), NEW ice \in Seq(Messages),
           Alone(mb, out, ice), NEW k \in 1..Len(ice)
    PROVE  /\ Alone(mb, out, RemoveAt(ice, k))
           /\ NoTwin(ice[k], PostedIn(mb) \union HeldIn(out, RemoveAt(ice, k)))
    <1> DEFINE r == RemoveAt(ice, k)
    <1>1. /\ DOMAIN r = 1..Len(ice)-1 /\ DOMAIN ice = 1..Len(ice) /\ Len(ice) \in Nat
          /\ ToSet(r) \subseteq ToSet(ice)
      BY Removed
    <1>a. /\ \A i \in 1..Len(ice)-1 : i < k => r[i] = ice[i]
          /\ \A i \in 1..Len(ice)-1 : i >= k => r[i] = ice[i + 1]
      BY Removed
    <1> HIDE DEF r
    <1>2. ASSUME NEW i \in DOMAIN r
          PROVE  \E j \in DOMAIN ice : r[i] = ice[j] /\ j # k /\ (j = i \/ j = i + 1)
                                       /\ (j = i <=> i < k) /\ (j = i + 1 <=> i >= k)
      <2>0. /\ i \in 1..Len(ice)-1 /\ i \in DOMAIN ice /\ i + 1 \in DOMAIN ice
            /\ k \in Int /\ i \in Int /\ (i < k \/ i >= k)
        BY <1>1
      <2>1. CASE i < k
        <3>1. r[i] = ice[i]
          BY <1>a, <2>0, <2>1
        <3>2. i # k /\ i # i + 1 /\ ~(i >= k)
          BY <2>0, <2>1
        <3> QED  BY <2>0, <2>1, <3>1, <3>2
      <2>2. CASE i >= k
        <3>1. r[i] = ice[i + 1]
          BY <1>a, <2>0, <2>2
        <3>2. i + 1 # k /\ i # i + 1 /\ ~(i < k)
          BY <2>0, <2>2
        <3> QED  BY <2>0, <2>2, <3>1, <3>2
      <2> QED  BY <2>0, <2>1, <2>2
    <1> HIDE DEF r
    <1>3. HeldIn(out, r) \subseteq HeldIn(out, ice) /\ ice[k] \in HeldIn(out, ice) /\ ice[k] \in ToSet(ice)
      BY <1>1 DEF HeldIn, ToSet
    <1>4. Alone(mb, out, r)
      <2>1. ASSUME NEW i \in DOMAIN r, NEW j \in DOMAIN r, Twins(r[i], r[j])
            PROVE  i = j
        <3>1. PICK x \in DOMAIN ice : r[i] = ice[x] /\ (x = i <=> i < k) /\ (x = i + 1 <=> i >= k)
          BY <1>2
        <3>2. PICK y \in DOMAIN ice : r[j] = ice[y] /\ (y = j <=> j < k) /\ (y = j + 1 <=> j >= k)
          BY <1>2
        <3>3. x = y
          BY <2>1, <3>1, <3>2 DEF Alone
        <3> QED  BY <1>1, <3>1, <3>2, <3>3
      <2> QED  BY <1>1, <1>3, <2>1 DEF Alone
    <1>5. \A x \in PostedIn(mb) \union ToSet(out) : ~Twins(ice[k], x)
      BY <1>3, TwinsSymmetric DEF Alone
    <1>6. ASSUME NEW x \in ToSet(r) PROVE ~Twins(ice[k], x)
      <2>1. PICK i \in DOMAIN r : x = r[i]
        BY DEF ToSet
      <2>2. PICK j \in DOMAIN ice : x = ice[j] /\ j # k
        BY <1>2, <2>1
      <2> QED  BY <1>1, <2>2 DEF Alone
    <1>7. NoTwin(ice[k], PostedIn(mb) \union HeldIn(out, r))
      BY <1>5, <1>6, TwinsSymmetric DEF NoTwin, HeldIn
    <1> QED  BY <1>4, <1>7 DEF r

\* ... and putting it into another.
LEMMA AlonePosted ==
    ASSUME NEW mb \in Seq(Events), NEW out \in Seq(Messages), NEW ice \in Seq(Messages),
           Alone(mb, out, ice), NEW e \in Events,
           e.ev = "queueMessage" => NoTwin(e.msg, PostedIn(mb) \union HeldIn(out, ice))
    PROVE  Alone(Append(mb, e), out, ice)
    <1> DEFINE r == Append(mb, e)
               n == Len(mb) + 1
    <1>1. /\ DOMAIN r = 1..n /\ DOMAIN mb = 1..Len(mb) /\ Len(mb) \in Nat
          /\ r[n] = e /\ \A i \in DOMAIN mb : r[i] = mb[i]
      BY Longer
    <1>2. \A i \in DOMAIN r : i = n \/ i \in DOMAIN mb
      BY <1>1
    <1>3. \A x \in PostedIn(r) : x \in PostedIn(mb) \/ (e.ev = "queueMessage" /\ x = e.msg)
      BY PostedMore
    <1> HIDE DEF r, n
    <1>4. ASSUME NEW i \in DOMAIN r, NEW j \in DOMAIN r, r[i].ev = "queueMessage",
                 r[j].ev = "queueMessage", Twins(r[i].msg, r[j].msg)
          PROVE  i = j
      <2>1. CASE i \in DOMAIN mb /\ j \in DOMAIN mb
        BY <1>1, <1>4, <2>1 DEF Alone
      <2>2. CASE i = n /\ j = n
        BY <2>2
      <2>3. CASE i \in DOMAIN mb /\ j = n
        BY <1>1, <1>4, <2>3, PostedAre DEF NoTwin
      <2>4. CASE i = n /\ j \in DOMAIN mb
        BY <1>1, <1>4, <2>4, PostedAre DEF NoTwin
      <2> QED  BY <1>2, <2>1, <2>2, <2>3, <2>4
    <1>5. \A m \in PostedIn(r), x \in HeldIn(out, ice) : ~Twins(m, x)
      BY <1>3 DEF Alone, NoTwin
    <1>6. Alone(r, out, ice)
      BY <1>4, <1>5 DEF Alone
    <1> QED  BY <1>6 DEF r

LEMMA AloneQueued ==
    ASSUME NEW mb \in Seq(Events), NEW out \in Seq(Messages), NEW ice \in Seq(Messages),
           Alone(mb, out, ice), NEW m \in Messages,
           NoTwin(m, PostedIn(mb) \union HeldIn(out, ice))
    PROVE  Alone(mb, requeue(out, m), ice)
    <1> DEFINE r == requeue(out, m)
    <1>1. /\ DOMAIN r = 1..Len(out)+1 /\ DOMAIN out = 1..Len(out) /\ Len(out) \in Nat
          /\ ToSet(r) = ToSet(out) \union {m}
      BY Requeued
    <1>2. PICK k \in 1..Len(out)+1 :
             /\ r[k] = m
             /\ \A i \in 1..Len(out)+1 : i < k => i \in 1..Len(out) /\ r[i] = out[i]
             /\ \A i \in 1..Len(out)+1 : i > k => i-1 \in 1..Len(out) /\ r[i] = out[i - 1]
      BY Requeued
    <1> HIDE DEF r
    <1>3. ASSUME NEW i \in DOMAIN r, i # k
          PROVE  \E j \in DOMAIN out : r[i] = out[j] /\ (i < k => j = i) /\ (i > k => j = i - 1)
      BY <1>1, <1>2, <1>3
    <1>4. ASSUME NEW i \in DOMAIN r, NEW j \in DOMAIN r, Twins(r[i], r[j]) PROVE i = j
      <2>1. CASE i = k /\ j = k
        BY <2>1
      <2>2. CASE i = k /\ j # k
        <3>1. r[j] \in ToSet(out)
          BY <1>3, <2>2 DEF ToSet
        <3> QED  BY <1>2, <1>4, <2>2, <3>1 DEF NoTwin, HeldIn
      <2>3. CASE i # k /\ j = k
        <3>1. r[i] \in ToSet(out)
          BY <1>3, <2>3 DEF ToSet
        <3> QED  BY <1>2, <1>4, <2>3, <3>1 DEF NoTwin, HeldIn
      <2>4. CASE i # k /\ j # k
        <3>1. PICK x \in DOMAIN out : r[i] = out[x] /\ (i < k => x = i) /\ (i > k => x = i - 1)
          BY <1>3, <2>4
        <3>2. PICK y \in DOMAIN out : r[j] = out[y] /\ (j < k => y = j) /\ (j > k => y = j - 1)
          BY <1>3, <2>4
        <3>3. x = y
          BY <1>4, <3>1, <3>2 DEF Alone
        <3> QED  BY <1>1, <2>4, <3>1, <3>2, <3>3
      <2> QED  BY <2>1, <2>2, <2>3, <2>4
    <1>5. \A x \in PostedIn(mb), y \in HeldIn(r, ice) : ~Twins(x, y)
      BY <1>1 DEF Alone, NoTwin, HeldIn
    <1>6. \A x \in ToSet(r), y \in ToSet(ice) : ~Twins(x, y)
      BY <1>1 DEF Alone, NoTwin, HeldIn
    <1>7. Alone(mb, r, ice)
      BY <1>4, <1>5, <1>6 DEF Alone
    <1> QED  BY <1>7 DEF r

LEMMA AloneFrozen ==
    ASSUME NEW mb \in Seq(Events), NEW out \in Seq(Messages), NEW ice \in Seq(Messages),
           Alone(mb, out, ice), NEW m \in Messages,
           NoTwin(m, PostedIn(mb) \union HeldIn(out, ice))
    PROVE  Alone(mb, out, Append(ice, m))
    <1> DEFINE r == Append(ice, m)
               n == Len(ice) + 1
    <1>1. /\ DOMAIN r = 1..n /\ DOMAIN ice = 1..Len(ice) /\ Len(ice) \in Nat
          /\ r[n] = m /\ (\A i \in DOMAIN ice : r[i] = ice[i]) /\ ToSet(r) = ToSet(ice) \union {m}
      BY Longer
    <1>2. \A i \in DOMAIN r : i = n \/ i \in DOMAIN ice
      BY <1>1
    <1> HIDE DEF r, n
    <1>3. ASSUME NEW i \in DOMAIN r, NEW j \in DOMAIN r, Twins(r[i], r[j])
          PROVE  i = j
      <2>1. CASE i \in DOMAIN ice /\ j \in DOMAIN ice
        BY <1>1, <1>3, <2>1 DEF Alone
      <2>2. CASE i = n /\ j = n
        BY <2>2
      <2>3. CASE i \in DOMAIN ice /\ j = n
        BY <1>1, <1>3, <2>3 DEF NoTwin, HeldIn, ToSet
      <2>4. CASE i = n /\ j \in DOMAIN ice
        BY <1>1, <1>3, <2>4 DEF NoTwin, HeldIn, ToSet
      <2> QED  BY <1>2, <2>1, <2>2, <2>3, <2>4
    <1>4. \A x \in PostedIn(mb), y \in HeldIn(out, r) : ~Twins(x, y)
      BY <1>1 DEF Alone, NoTwin, HeldIn
    <1>5. \A x \in ToSet(out), y \in ToSet(r) : ~Twins(x, y)
      BY <1>1 DEF Alone, NoTwin, HeldIn
    <1>6. Alone(mb, out, r)
      BY <1>3, <1>4, <1>5 DEF Alone
    <1> QED  BY <1>6 DEF r

\* An ACK that is counted does not move the message.
LEMMA AloneReplaced ==
    ASSUME NEW mb \in Seq(Events), NEW out \in Seq(Messages), NEW ice \in Seq(Messages),
           Alone(mb, out, ice), NEW m \in Messages, NEW k
    PROVE  /\ /\ k \in 1..Len(out)
              /\ m.type = out[k].type /\ m.number = out[k].number /\ m.id = out[k].id
              => Alone(mb, [out EXCEPT ![k] = m], ice)
           /\ /\ k \in 1..Len(ice)
              /\ m.type = ice[k].type /\ m.number = ice[k].number /\ m.id = ice[k].id
              => Alone(mb, out, [ice EXCEPT ![k] = m])
    <1>1. ASSUME k \in 1..Len(out), m.type = out[k].type, m.number = out[k].number, m.id = out[k].id
          PROVE  Alone(mb, [out EXCEPT ![k] = m], ice)
      <2> DEFINE r == [out EXCEPT ![k] = m]
      <2>1. /\ DOMAIN r = DOMAIN out /\ k \in DOMAIN out /\ out[k] \in ToSet(out)
            /\ \A i \in DOMAIN out : r[i] = IF i = k THEN m ELSE out[i]
            /\ ToSet(r) \subseteq ToSet(out) \union {m}
        BY <1>1, Replaced
      <2> HIDE DEF r
      <2>2. \A x : (Twins(m, x) <=> Twins(out[k], x)) /\ (Twins(x, m) <=> Twins(x, out[k]))
        BY <1>1, TwinsKept
      <2>3. \A i, j \in DOMAIN r : Twins(r[i], r[j]) <=> Twins(out[i], out[j])
        BY <2>1, <2>2
      <2>4. \A i, j \in DOMAIN r : Twins(r[i], r[j]) => i = j
        BY <2>1, <2>3 DEF Alone
      <2>5. \A x \in PostedIn(mb), y \in HeldIn(r, ice) : ~Twins(x, y)
        BY <2>1, <2>2 DEF Alone, HeldIn
      <2>6. \A x \in ToSet(r), y \in ToSet(ice) : ~Twins(x, y)
        BY <2>1, <2>2 DEF Alone, HeldIn
      <2>7. Alone(mb, r, ice)
        BY <2>4, <2>5, <2>6 DEF Alone
      <2> QED  BY <2>7 DEF r
    <1>2. ASSUME k \in 1..Len(ice), m.type = ice[k].type, m.number = ice[k].number, m.id = ice[k].id
          PROVE  Alone(mb, out, [ice EXCEPT ![k] = m])
      <2> DEFINE r == [ice EXCEPT ![k] = m]
      <2>1. /\ DOMAIN r = DOMAIN ice /\ k \in DOMAIN ice /\ ice[k] \in ToSet(ice)
            /\ \A i \in DOMAIN ice : r[i] = IF i = k THEN m ELSE ice[i]
            /\ ToSet(r) \subseteq ToSet(ice) \union {m}
        BY <1>2, Replaced
      <2> HIDE DEF r
      <2>2. \A x : (Twins(m, x) <=> Twins(ice[k], x)) /\ (Twins(x, m) <=> Twins(x, ice[k]))
        BY <1>2, TwinsKept
      <2>3. \A i, j \in DOMAIN r : Twins(r[i], r[j]) <=> Twins(ice[i], ice[j])
        BY <2>1, <2>2
      <2>4. \A i, j \in DOMAIN r : Twins(r[i], r[j]) => i = j
        BY <2>1, <2>3 DEF Alone
      <2>5. \A x \in PostedIn(mb), y \in HeldIn(out, r) : ~Twins(x, y)
        BY <2>1, <2>2 DEF Alone, HeldIn
      <2>6. \A x \in ToSet(out), y \in ToSet(r) : ~Twins(x, y)
        BY <2>1, <2>2 DEF Alone, HeldIn
      <2>7. Alone(mb, out, r)
        BY <2>4, <2>5, <2>6 DEF Alone
      <2> QED  BY <2>7 DEF r
    <1> QED  BY <1>1, <1>2
------------------------------------------------------------------------------
(***************************************************************************)
(* The order of requests in the mailbox and in the outbox.                 *)
(***************************************************************************)
LEMMA NewPopped ==
    ASSUME NEW q \in Seq(Messages), NewInOrder(q), q # <<>>
    PROVE  /\ NewInOrder(Tail(q))
           /\ New(Head(q)) => \A x \in ToSet(Tail(q)) : New(x) => Head(q).number < x.number
    <1>1. /\ Head(q) = q[1] /\ 1 \in DOMAIN q /\ Len(q) \in Nat
          /\ DOMAIN Tail(q) = 1..Len(q)-1 /\ DOMAIN q = 1..Len(q)
          /\ \A i \in 1..Len(q)-1 : Tail(q)[i] = q[i + 1]
      BY Shorter
    <1>2. \A i \in DOMAIN Tail(q) : i + 1 \in DOMAIN q /\ 1 < i + 1 /\ Tail(q)[i] = q[i + 1]
      BY <1>1
    <1>3. \A i, j \in DOMAIN Tail(q) : i < j => i + 1 < j + 1
      BY <1>1
    <1>4. NewInOrder(Tail(q))
      BY <1>2, <1>3 DEF NewInOrder
    <1>5. ASSUME New(Head(q)), NEW x \in ToSet(Tail(q)), New(x) PROVE Head(q).number < x.number
      <2>1. PICK i \in DOMAIN Tail(q) : x = Tail(q)[i]
        BY DEF ToSet
      <2> QED  BY <1>1, <1>2, <1>5, <2>1 DEF NewInOrder
    <1> QED  BY <1>4, <1>5

LEMMA NewQueued ==
    ASSUME NEW q \in Seq(Messages), NewInOrder(q), NEW m \in Messages,
           New(m) => \A x \in ToSet(q) : New(x) => x.number < m.number
    PROVE  NewInOrder(requeue(q, m))
    <1> DEFINE r == requeue(q, m)
    <1>1. DOMAIN r = 1..Len(q)+1 /\ DOMAIN q = 1..Len(q) /\ Len(q) \in Nat
      BY Requeued
    <1>2. PICK k \in 1..Len(q)+1 :
             /\ r[k] = m
             /\ \A i \in 1..Len(q)+1 : i < k => i \in 1..Len(q) /\ r[i] = q[i]
             /\ \A i \in 1..Len(q)+1 : i > k => i-1 \in 1..Len(q) /\ r[i] = q[i - 1]
             /\ m.bytesSent = 0 => \A i \in 1..Len(q) : q[i].bytesSent = 0 => i < k
      BY Requeued
    <1> HIDE DEF r
    <1>3. ASSUME NEW i \in DOMAIN r, i # k
          PROVE  \E j \in DOMAIN q : r[i] = q[j] /\ (i < k => j = i) /\ (i > k => j = i - 1)
      BY <1>1, <1>2, <1>3
    <1>4. ASSUME NEW i \in DOMAIN r, NEW j \in DOMAIN r, i < j, New(r[i]), New(r[j])
          PROVE  r[i].number < r[j].number
      <2>1. CASE i = k
        <3>1. PICK y \in DOMAIN q : r[j] = q[y] /\ y = j - 1
          BY <1>1, <1>3, <1>4, <2>1
        <3>2. y < k
          BY <1>1, <1>2, <1>4, <2>1, <3>1 DEF New
        <3> QED  BY <1>1, <1>4, <2>1, <3>1, <3>2
      <2>2. CASE j = k
        <3>1. r[i] \in ToSet(q)
          BY <1>1, <1>3, <1>4, <2>2 DEF ToSet
        <3> QED  BY <1>2, <1>4, <2>2, <3>1
      <2>3. CASE i # k /\ j # k
        <3>1. PICK x \in DOMAIN q : r[i] = q[x] /\ (i < k => x = i) /\ (i > k => x = i - 1)
          BY <1>3, <2>3
        <3>2. PICK y \in DOMAIN q : r[j] = q[y] /\ (j < k => y = j) /\ (j > k => y = j - 1)
          BY <1>3, <2>3
        <3>3. x < y
          BY <1>1, <1>4, <2>3, <3>1, <3>2
        <3> QED  BY <1>4, <3>1, <3>2, <3>3 DEF NewInOrder
      <2> QED  BY <2>1, <2>2, <2>3
    <1>5. NewInOrder(r)
      BY <1>4 DEF NewInOrder
    <1> QED  BY <1>5 DEF r

LEMMA NewReplaced ==
    ASSUME NEW q \in Seq(Messages), NewInOrder(q), NEW k \in 1..Len(q), NEW m \in Messages,
           m.type = q[k].type, m.number = q[k].number, m.bytesSent = q[k].bytesSent
    PROVE  NewInOrder([q EXCEPT ![k] = m])
    <1> DEFINE r == [q EXCEPT ![k] = m]
    <1>1. /\ DOMAIN r = DOMAIN q
          /\ \A i \in DOMAIN q : r[i] = IF i = k THEN m ELSE q[i]
      BY Replaced
    <1> HIDE DEF r
    <1>2. \A i \in DOMAIN q : (New(r[i]) <=> New(q[i])) /\ r[i].number = q[i].number
      BY <1>1 DEF New
    <1>3. NewInOrder(r)
      BY <1>1, <1>2 DEF NewInOrder
    <1> QED  BY <1>3 DEF r

\* A request is posted with the next id ...
LEMMA InMailPosted ==
    ASSUME NEW mb \in Seq(Events), NEW last \in Nat, NEW made \in Nat, InMail(mb, last, made),
           NEW e \in Events
    PROVE  /\ e.ev # "queueMessage" \/ ~IsReq(e.msg) => InMail(Append(mb, e), last, made)
           /\ /\ e.ev = "queueMessage" /\ IsReq(e.msg) /\ e.msg.id = made + 1 /\ last <= made
              /\ PostedOK(PostedIn(mb), made)
              => InMail(Append(mb, e), last, made + 1)
    <1> DEFINE r == Append(mb, e)
               n == Len(mb) + 1
    <1>1. /\ DOMAIN r = 1..n /\ DOMAIN mb = 1..Len(mb) /\ Len(mb) \in Nat
          /\ r[n] = e /\ \A i \in DOMAIN mb : r[i] = mb[i]
      BY Longer
    <1>2. \A i \in DOMAIN r : i = n \/ (i \in DOMAIN mb /\ i < n)
      BY <1>1
    <1>a. n \in Int /\ \A i \in DOMAIN r : i \in Int /\ i <= n
      BY <1>1
    <1>3. /\ \A x \in PostedIn(r) : x \in PostedIn(mb) \/ (e.ev = "queueMessage" /\ x = e.msg)
          /\ \A x \in PostedIn(mb) : x \in PostedIn(r)
          /\ e.ev = "queueMessage" => e.msg \in PostedIn(r)
      BY PostedMore
    <1> HIDE DEF r, n
    <1>4. ASSUME e.ev # "queueMessage" \/ ~IsReq(e.msg) PROVE InMail(r, last, made)
      <2>1. ASSUME NEW i \in DOMAIN r, NEW j \in DOMAIN r, i < j,
                   r[i].ev = "queueMessage", IsReq(r[i].msg), r[j].ev = "queueMessage", IsReq(r[j].msg)
            PROVE  r[i].msg.id < r[j].msg.id
        <3>1. i \in DOMAIN mb /\ j \in DOMAIN mb
          BY <1>1, <1>2, <1>4, <2>1
        <3> QED  BY <1>1, <2>1, <3>1 DEF InMail
      <2>2. \A m \in PostedIn(r) : IsReq(m) => m.id > last
        BY <1>3, <1>4 DEF InMail
      <2>3. \A x \in last+1..made : \E m \in PostedIn(r) : IsReq(m) /\ m.id = x
        BY <1>3 DEF InMail
      <2> QED  BY <2>1, <2>2, <2>3 DEF InMail
    <1>5. ASSUME e.ev = "queueMessage", IsReq(e.msg), e.msg.id = made + 1, last <= made,
                 PostedOK(PostedIn(mb), made)
          PROVE  InMail(r, last, made + 1)
      <2>1. ASSUME NEW i \in DOMAIN r, NEW j \in DOMAIN r, i < j,
                   r[i].ev = "queueMessage", IsReq(r[i].msg), r[j].ev = "queueMessage", IsReq(r[j].msg)
            PROVE  r[i].msg.id < r[j].msg.id
        <3>1. i \in DOMAIN mb
          BY <1>2, <1>a, <2>1
        <3>2. CASE j \in DOMAIN mb
          BY <1>1, <2>1, <3>1, <3>2 DEF InMail
        <3>3. CASE j = n
          <4>1. r[i].msg \in PostedIn(mb)
            BY <1>1, <2>1, <3>1, PostedAre
          <4>2. r[i].msg.id \in 1..made
            BY <2>1, <4>1, <1>5 DEF PostedOK
          <4>3. r[j].msg.id = made + 1
            BY <1>1, <1>5, <3>3
          <4> QED  BY <4>2, <4>3
        <3> QED  BY <1>2, <3>2, <3>3
      <2>2. \A m \in PostedIn(r) : IsReq(m) => m.id > last
        <3>1. made + 1 > last
          BY <1>5
        <3> QED  BY <1>3, <1>5, <3>1 DEF InMail
      <2>3. \A x \in last+1..made+1 : \E m \in PostedIn(r) : IsReq(m) /\ m.id = x
        <3>1. \A x \in last+1..made+1 : x \in last+1..made \/ x = made + 1
          OBVIOUS
        <3> QED  BY <1>3, <1>5, <3>1 DEF InMail
      <2> QED  BY <2>1, <2>2, <2>3 DEF InMail
    <1> QED  BY <1>4, <1>5 DEF r

\* ... and taken with the next number.
LEMMA InMailTaken ==
    ASSUME NEW mb \in Seq(Events), NEW last \in Nat, NEW made \in Nat, InMail(mb, last, made),
           mb # <<>>, PostedOK(PostedIn(mb), made)
    PROVE  /\ Head(mb).ev # "queueMessage" \/ ~IsReq(Head(mb).msg) => InMail(Tail(mb), last, made)
           /\ Head(mb).ev = "queueMessage" /\ IsReq(Head(mb).msg) =>
                 Head(mb).msg.id = last + 1 /\ InMail(Tail(mb), last + 1, made)
    <1> DEFINE r == Tail(mb)
               e == Head(mb)
    <1>1. /\ e = mb[1] /\ 1 \in DOMAIN mb /\ Len(mb) \in Nat /\ r \in Seq(Events)
          /\ DOMAIN r = 1..Len(mb)-1 /\ DOMAIN mb = 1..Len(mb)
          /\ \A i \in 1..Len(mb)-1 : r[i] = mb[i + 1]
      BY Shorter
    <1>2. \A i \in DOMAIN r : i + 1 \in DOMAIN mb /\ 1 < i + 1 /\ r[i] = mb[i + 1] /\ i \in Int
      BY <1>1
    <1>3. /\ e.ev = "queueMessage" => PostedIn(mb) = {e.msg} \union PostedIn(r)
          /\ e.ev # "queueMessage" => PostedIn(r) = PostedIn(mb)
      BY PostedLess
    <1> HIDE DEF r, e
    <1>4. ASSUME NEW i \in DOMAIN r, NEW j \in DOMAIN r, i < j,
                 r[i].ev = "queueMessage", IsReq(r[i].msg), r[j].ev = "queueMessage", IsReq(r[j].msg)
          PROVE  r[i].msg.id < r[j].msg.id
      <2>1. i + 1 < j + 1
        BY <1>2, <1>4
      <2> QED  BY <1>2, <1>4, <2>1 DEF InMail
    <1>5. ASSUME e.ev # "queueMessage" \/ ~IsReq(e.msg) PROVE InMail(r, last, made)
      <2>1. \A m \in PostedIn(r) : IsReq(m) => m.id > last
        BY <1>3 DEF InMail
      <2>2. \A x \in last+1..made : \E m \in PostedIn(r) : IsReq(m) /\ m.id = x
        BY <1>3, <1>5 DEF InMail
      <2> QED  BY <1>4, <2>1, <2>2 DEF InMail
    <1>6. ASSUME e.ev = "queueMessage", IsReq(e.msg)
          PROVE  e.msg.id = last + 1 /\ InMail(r, last + 1, made)
      <2>1. \A m \in PostedIn(r) : IsReq(m) => e.msg.id < m.id
        <3>1. ASSUME NEW m \in PostedIn(r), IsReq(m) PROVE e.msg.id < m.id
          <4>1. PICK i \in DOMAIN r : r[i].ev = "queueMessage" /\ r[i].msg = m
            BY <1>1, PostedAre
          <4> QED  BY <1>1, <1>2, <1>6, <3>1, <4>1 DEF InMail
        <3> QED  BY <3>1
      <2>2. e.msg.id \in last+1..made
        BY <1>3, <1>6 DEF InMail, PostedOK
      <2>3. PICK m \in PostedIn(mb) : IsReq(m) /\ m.id = last + 1
        BY <2>2 DEF InMail
      <2>4. e.msg.id = last + 1
        BY <1>3, <1>6, <2>1, <2>2, <2>3
      <2>5. \A x \in PostedIn(r) : IsReq(x) => x.id > last + 1
        BY <2>1, <2>4
      <2>6. ASSUME NEW x \in (last+1)+1..made PROVE \E y \in PostedIn(r) : IsReq(y) /\ y.id = x
        <3>1. x \in last+1..made /\ x # last + 1
          OBVIOUS
        <3>2. PICK y \in PostedIn(mb) : IsReq(y) /\ y.id = x
          BY <3>1 DEF InMail
        <3> QED  BY <1>3, <1>6, <2>4, <3>1, <3>2
      <2> QED  BY <1>4, <2>4, <2>5, <2>6 DEF InMail
    <1> QED  BY <1>5, <1>6 DEF r, e
------------------------------------------------------------------------------
(***************************************************************************)
(* Frames under way.                                                       *)
(***************************************************************************)

\* The next frame is sent.
LEMMA InOrderSent ==
    ASSUME NEW s \in Seq(Frames), NEW num \in Nat, NEW pend, InOrder(s, num, pend), NEW f \in Frames,
           IsReq(f) =>
              /\ \A n \in num+1..f.number-1 : \E g \in ToSet(s) : IsReq(g) /\ g.number = n
              /\ \A g \in ToSet(s) : IsReq(g) /\ g.number = f.number => g.more
              /\ f.number <= num => f.number \in DOMAIN pend
    PROVE  InOrder(Append(s, f), num, pend)
    <1> DEFINE r == Append(s, f)
               k == Len(s) + 1
    <1>1. /\ DOMAIN r = 1..k /\ DOMAIN s = 1..Len(s) /\ Len(s) \in Nat
          /\ r[k] = f /\ (\A i \in DOMAIN s : r[i] = s[i]) /\ ToSet(r) = ToSet(s) \union {f}
      BY Longer
    <1>2. \A i \in DOMAIN r : i = k \/ i \in DOMAIN s
      BY <1>1
    <1>3. /\ k \in Int /\ \A i \in DOMAIN r : i \in Int /\ i <= k
          /\ \A i \in DOMAIN s : i \in 1..k-1 /\ \A j \in 1..i-1 : j \in DOMAIN s
      BY <1>1
    <1> HIDE DEF r, k
    <1>4. ASSUME NEW i \in DOMAIN r, IsReq(r[i]), NEW n \in num+1..r[i].number-1
          PROVE  \E j \in 1..i-1 : IsReq(r[j]) /\ r[j].number = n
      <2>1. CASE i = k
        <3>1. PICK g \in ToSet(s) : IsReq(g) /\ g.number = n
          BY <1>1, <1>4, <2>1
        <3>2. PICK j \in DOMAIN s : g = s[j]
          BY DEF ToSet
        <3> QED  BY <1>1, <1>3, <2>1, <3>1, <3>2
      <2>2. CASE i \in DOMAIN s
        <3>1. PICK j \in 1..i-1 : IsReq(s[j]) /\ s[j].number = n
          BY <1>1, <1>4, <2>2 DEF InOrder
        <3> QED  BY <1>1, <1>3, <2>2, <3>1
      <2> QED  BY <1>2, <2>1, <2>2
    <1>5. ASSUME NEW i \in DOMAIN r, NEW j \in DOMAIN r, i < j, IsReq(r[i]), IsReq(r[j]),
                 r[i].number = r[j].number
          PROVE  r[i].more
      <2>1. i \in DOMAIN s
        BY <1>2, <1>3, <1>5
      <2>2. CASE j = k
        BY <1>1, <1>5, <2>1, <2>2 DEF ToSet
      <2>3. CASE j \in DOMAIN s
        BY <1>1, <1>5, <2>1, <2>3 DEF InOrder
      <2> QED  BY <1>2, <2>2, <2>3
    <1>6. \A g \in ToSet(r) : IsReq(g) /\ g.number <= num => g.number \in DOMAIN pend
      BY <1>1 DEF InOrder
    <1>7. InOrder(r, num, pend)
      BY <1>4, <1>5, <1>6 DEF InOrder
    <1> QED  BY <1>7 DEF r

\* What pendingRequest and the loop make of num and pend, for the frame f.
Follows(f, num, pend, num2, pend2) ==
    /\ num2 = IF f.number \in DOMAIN pend THEN num ELSE f.number
    /\ DOMAIN pend2 = IF f.more THEN DOMAIN pend \union {f.number} ELSE DOMAIN pend \ {f.number}

\* The next frame is handled; if it is one of a request, that is expected.
LEMMA InOrderHandled ==
    ASSUME NEW s \in Seq(Frames), s # <<>>, NEW num \in Nat, NEW pend, InOrder(s, num, pend),
           DOMAIN pend \subseteq 1..num
    PROVE  /\ ~IsReq(Head(s)) => InOrder(Tail(s), num, pend)
           /\ IsReq(Head(s)) => Head(s).number \in DOMAIN pend \/ Head(s).number = num + 1
           /\ \A num2 \in Nat : \A pend2 :
                 IsReq(Head(s)) /\ Follows(Head(s), num, pend, num2, pend2) =>
                    InOrder(Tail(s), num2, pend2)
    <1> DEFINE r == Tail(s)
               f == Head(s)
    <1>1. /\ f = s[1] /\ 1 \in DOMAIN s /\ Len(s) \in Nat /\ f \in Frames
          /\ DOMAIN r = 1..Len(s)-1 /\ DOMAIN s = 1..Len(s)
          /\ (\A i \in 1..Len(s)-1 : r[i] = s[i + 1])
          /\ ToSet(s) = {f} \union ToSet(r)
      BY Shorter
    <1>2. \A i \in DOMAIN r : i + 1 \in DOMAIN s /\ 1 < i + 1 /\ r[i] = s[i + 1] /\ i \in Int
      BY <1>1
    <1> HIDE DEF r, f
    <1>3. f.number \in Nat \ {0} /\ \A g \in ToSet(r) : g \in Frames /\ g.number \in Nat
      <2>1. \A g \in ToSet(s) : g \in Frames
        BY DEF ToSet
      <2> QED  BY <1>1, <2>1 DEF Frames
    <1>4. ASSUME NEW i \in DOMAIN r, NEW j \in DOMAIN r, i < j, IsReq(r[i]), IsReq(r[j]),
                 r[i].number = r[j].number
          PROVE  r[i].more
      <2>1. i + 1 < j + 1
        BY <1>2, <1>4
      <2> QED  BY <1>2, <1>4, <2>1 DEF InOrder
    \* A frame before another, in r
    <1>5. ASSUME NEW i \in DOMAIN r, IsReq(r[i]), NEW n \in num+1..r[i].number-1,
                 ~(IsReq(f) /\ f.number = n)
          PROVE  \E j \in 1..i-1 : IsReq(r[j]) /\ r[j].number = n
      <2>1. PICK j \in 1..(i+1)-1 : IsReq(s[j]) /\ s[j].number = n
        BY <1>2, <1>5 DEF InOrder
      <2>2. j # 1
        BY <1>1, <1>5, <2>1
      <2>3. j - 1 \in 1..i-1 /\ j - 1 \in DOMAIN r /\ (j - 1) + 1 = j
        BY <1>1, <1>2, <2>2
      <2>4. r[j - 1] = s[j]
        BY <1>2, <2>3
      <2> QED  BY <2>1, <2>3, <2>4
    <1>6. ASSUME ~IsReq(f) PROVE InOrder(r, num, pend)
      <2>1. \A g \in ToSet(r) : IsReq(g) /\ g.number <= num => g.number \in DOMAIN pend
        BY <1>1 DEF InOrder
      <2> QED  BY <1>4, <1>5, <1>6, <2>1 DEF InOrder
    <1>7. ASSUME IsReq(f) PROVE f.number \in DOMAIN pend \/ f.number = num + 1
      <2>1. f.number <= num => f.number \in DOMAIN pend
        BY <1>1, <1>7 DEF InOrder
      <2>2. ~(num + 1 \in num+1..f.number-1)
        <3>1. 1..1-1 = {}
          OBVIOUS
        <3> QED  BY <1>1, <1>7, <3>1 DEF InOrder
      <2> QED  BY <1>3, <2>1, <2>2
    <1>8. ASSUME NEW num2 \in Nat, NEW pend2, IsReq(f), Follows(f, num, pend, num2, pend2)
          PROVE  InOrder(r, num2, pend2)
      <2>1. num2 >= num /\ (num2 = num \/ (num2 = num + 1 /\ f.number = num + 1)) /\ f.number <= num2
        BY <1>3, <1>7, <1>8 DEF Follows
      <2>2. ASSUME NEW i \in DOMAIN r, IsReq(r[i]), NEW n \in num2+1..r[i].number-1
            PROVE  \E j \in 1..i-1 : IsReq(r[j]) /\ r[j].number = n
        <3>1. r[i].number \in Nat
          BY <1>3, <2>2 DEF ToSet
        <3>2. n \in num+1..r[i].number-1 /\ f.number # n
          BY <1>3, <2>1, <3>1
        <3> QED  BY <1>5, <2>2, <3>2
      <2>3. ASSUME NEW g \in ToSet(r), IsReq(g), g.number <= num2 PROVE g.number \in DOMAIN pend2
        <3>1. CASE g.number = f.number
          <4>1. PICK i \in DOMAIN r : g = r[i]
            BY DEF ToSet
          <4>2. f.more
            BY <1>1, <1>2, <1>8, <2>3, <3>1, <4>1 DEF InOrder
          <4> QED  BY <1>8, <3>1, <4>2 DEF Follows
        <3>2. CASE g.number # f.number
          <4>1. g.number <= num
            BY <1>3, <2>1, <2>3, <3>2
          <4>2. g.number \in DOMAIN pend
            BY <1>1, <2>3, <4>1 DEF InOrder
          <4> QED  BY <1>8, <3>2, <4>2 DEF Follows
        <3> QED  BY <3>1, <3>2
      <2> QED  BY <1>4, <2>2, <2>3 DEF InOrder
    <1> QED  BY <1>6, <1>7, <1>8 DEF r, f

\* Requests go on.
LEMMA ContinuesHandled ==
    ASSUME NEW s \in Seq(Frames), s # <<>>, NEW num \in Nat, NEW pend, NEW M \in SUBSET Messages,
           NEW last \in Nat, Continues(M, last, s, num, pend), InOrder(s, num, pend),
           DOMAIN pend \subseteq 1..num
    PROVE  /\ ~IsReq(Head(s)) => Continues(M, last, Tail(s), num, pend)
           /\ \A num2 \in Nat : \A pend2 :
                 IsReq(Head(s)) /\ Follows(Head(s), num, pend, num2, pend2) =>
                    Continues(M, last, Tail(s), num2, pend2)
    <1> DEFINE r == Tail(s)
               f == Head(s)
    <1>1. ToSet(s) = {f} \union ToSet(r) /\ f \in Frames
      BY Shorter
    <1>2. IsReq(f) => f.number \in DOMAIN pend \/ f.number = num + 1
      BY InOrderHandled
    <1> HIDE DEF r, f
    <1>3. f.number \in Nat \ {0} /\ \A m \in M : m.number \in Nat
      BY <1>1 DEF Frames, Messages
    <1>4. ASSUME ~IsReq(f) PROVE Continues(M, last, r, num, pend)
      <2>1. \A n : Begun(n, r, num) <=> Begun(n, s, num)
        BY <1>1, <1>4 DEF Begun
      <2> QED  BY <1>1, <2>1 DEF Continues
    <1>5. ASSUME NEW num2 \in Nat, NEW pend2, IsReq(f), Follows(f, num, pend, num2, pend2)
          PROVE  Continues(M, last, r, num2, pend2)
      <2>1. num2 >= num /\ (num2 = num \/ (num2 = num + 1 /\ f.number = num + 1)) /\ f.number \in 1..num2
        BY <1>2, <1>3, <1>5 DEF Follows
      <2>2. \A n : n \in 1..num2 <=> n \in 1..num \/ n = f.number
        <3>1. f.number \in DOMAIN pend => f.number \in 1..num /\ num2 = num
          BY <1>5 DEF Follows
        <3>2. f.number \notin DOMAIN pend => num2 = f.number /\ f.number = num + 1
          BY <1>2, <1>5 DEF Follows
        <3>3. \A x \in 1..num2 : x \in 1..num \/ x = num2
          BY <2>1
        <3>4. \A x \in 1..num : x \in 1..num2
          BY <2>1
        <3> QED  BY <2>1, <3>1, <3>2, <3>3, <3>4
      <2>3. \A n : Begun(n, r, num2) <=> Begun(n, s, num)
        BY <1>1, <1>5, <2>2 DEF Begun
      <2>4. num2 <= last
        BY <1>1, <1>5, <2>1 DEF Continues
      <2>5. ASSUME NEW m \in M, IsReq(m), ~New(m), m.number <= num2 PROVE m.number \in DOMAIN pend2
        <3>1. CASE m.number = f.number
          <4>1. f.more
            BY <1>1, <1>5, <2>5, <3>1 DEF Continues
          <4> QED  BY <1>5, <3>1, <4>1 DEF Follows
        <3>2. CASE m.number # f.number
          <4>1. m.number <= num
            BY <1>3, <2>1, <2>5, <3>2
          <4>2. m.number \in DOMAIN pend
            BY <2>5, <4>1 DEF Continues
          <4> QED  BY <1>5, <3>2, <4>2 DEF Follows
        <3> QED  BY <3>1, <3>2
      <2>6. /\ \A m \in M : New(m) => ~Begun(m.number, r, num2)
            /\ \A n \in 1..last : Begun(n, r, num2) \/ \E m \in M : New(m) /\ m.number = n
            /\ \A g \in ToSet(r) : IsReq(g) => g.number <= last
        BY <1>1, <2>3 DEF Continues
      <2>7. \A m \in M : IsReq(m) /\ ~New(m) =>
               /\ Begun(m.number, r, num2)
               /\ \A g \in ToSet(r) : IsReq(g) /\ g.number = m.number => g.more
        BY <1>1, <2>3 DEF Continues
      <2> QED  BY <2>4, <2>5, <2>6, <2>7 DEF Continues
    <1> QED  BY <1>4, <1>5 DEF r, f
------------------------------------------------------------------------------
(***************************************************************************)
(* Sets of messages: those that wait, and those that are under way.        *)
(***************************************************************************)
Counts(m) == IsReq(m) \/ IsReply(m)

\* The same message, for those who look for it ...
Like(m, x) ==
    /\ m.type = x.type /\ m.noReply = x.noReply
    /\ IsReq(m) => m.id = x.id
    /\ IsReply(m) => m.number = x.number

\* ... and for those who send it.
Alike(m, x) ==
    /\ m.type = x.type /\ m.noReply = x.noReply /\ m.id = x.id /\ m.number = x.number
    /\ m.bytesSent = x.bytesSent

Within(M, N) == \A m \in M : Counts(m) => \E x \in N : Like(m, x)
AllAlike(M, N) == \A m \in M : Counts(m) => \E x \in N : Alike(m, x)

LEMMA AlikeWithin ==
    ASSUME NEW M, NEW N, AllAlike(M, N)
    PROVE  Within(M, N)
    BY DEF AllAlike, Within, Alike, Like

LEMMA WithinItself ==
    ASSUME NEW M, NEW N, M \subseteq N
    PROVE  AllAlike(M, N) /\ Within(M, N)
    BY DEF AllAlike, Within, Alike, Like

LEMMA WithinBoth ==
    ASSUME NEW A, NEW B, NEW C, NEW D, Within(A, C), Within(B, D)
    PROVE  Within(A \union B, C \union D)
    BY DEF Within

\* Requests that are counted, but not sent.
LEMMA ContinuesAlike ==
    ASSUME NEW M, NEW N, AllAlike(M, N), AllAlike(N, M), NEW last, NEW s, NEW num, NEW pend,
           Continues(M, last, s, num, pend)
    PROVE  Continues(N, last, s, num, pend)
    <1>1. \A m \in N : IsReq(m) =>
             \E x \in M : IsReq(x) /\ x.number = m.number /\ (New(m) <=> New(x))
      BY DEF AllAlike, Alike, Counts, IsReq, New
    <1>2. \A m \in M : New(m) => \E x \in N : New(x) /\ x.number = m.number
      BY DEF AllAlike, Alike, Counts, IsReq, New
    <1>3. \A m \in N : New(m) => IsReq(m)
      BY DEF New, IsReq
    <1>4. \A m \in N : New(m) => ~Begun(m.number, s, num)
      BY <1>1, <1>3 DEF Continues
    <1>5. \A n \in 1..last : Begun(n, s, num) \/ \E m \in N : New(m) /\ m.number = n
      BY <1>2 DEF Continues
    <1>6. ASSUME NEW m \in N, IsReq(m), ~New(m)
          PROVE  /\ Begun(m.number, s, num)
                 /\ m.number <= num => m.number \in DOMAIN pend
                 /\ \A f \in ToSet(s) : IsReq(f) /\ f.number = m.number => f.more
      <2>1. PICK x \in M : IsReq(x) /\ x.number = m.number /\ ~New(x)
        BY <1>1, <1>6
      <2> QED  BY <2>1 DEF Continues
    <1> QED  BY <1>4, <1>5, <1>6 DEF Continues

\* A request is numbered.
LEMMA ContinuesQueued ==
    ASSUME NEW M \in SUBSET Messages, NEW N, NEW last \in Nat, NEW s \in Seq(Frames), NEW num \in Nat, NEW pend,
           Continues(M, last, s, num, pend), NEW m \in Messages, N = M \union {m}
    PROVE  /\ ~IsReq(m) => Continues(N, last, s, num, pend)
           /\ New(m) /\ m.number = last + 1 => Continues(N, last + 1, s, num, pend)
    <1>1. ASSUME ~IsReq(m) PROVE Continues(N, last, s, num, pend)
      BY <1>1 DEF Continues, New, IsReq
    <1>2. ASSUME New(m), m.number = last + 1 PROVE Continues(N, last + 1, s, num, pend)
      <2>0. num <= last /\ \A f \in ToSet(s) : IsReq(f) => f.number <= last
        BY DEF Continues
      <2>1. ~Begun(last + 1, s, num)
        <3>1. ~(last + 1 \in 1..num)
          BY <2>0
        <3>2. \A f \in ToSet(s) : IsReq(f) => f.number # last + 1
          <4>1. \A f \in ToSet(s) : f.number \in Nat
            BY FramesIn
          <4> QED  BY <2>0, <4>1
        <3> QED  BY <3>1, <3>2 DEF Begun
      <2>2. \A x \in N : New(x) => ~Begun(x.number, s, num)
        BY <1>2, <2>1 DEF Continues
      <2>3. \A n \in 1..last+1 : Begun(n, s, num) \/ \E x \in N : New(x) /\ x.number = n
        <3>1. \A n \in 1..last+1 : n \in 1..last \/ n = last + 1
          OBVIOUS
        <3> QED  BY <1>2, <3>1 DEF Continues
      <2>4. num <= last + 1 /\ \A f \in ToSet(s) : IsReq(f) => f.number <= last + 1
        <3>1. \A f \in ToSet(s) : f.number \in Nat
          BY FramesIn
        <3> QED  BY <2>0, <3>1
      <2>5. \A x \in N : IsReq(x) /\ ~New(x) =>
               /\ Begun(x.number, s, num)
               /\ x.number <= num => x.number \in DOMAIN pend
               /\ \A f \in ToSet(s) : IsReq(f) /\ f.number = x.number => f.more
        BY <1>2 DEF Continues
      <2> QED  BY <2>2, <2>3, <2>4, <2>5 DEF Continues
    <1> QED  BY <1>1, <1>2

(***************************************************************************)
(* A frame f of the message m is sent; R are the other messages, and what  *)
(* remains of m, if anything does, is c.                                   *)
(***************************************************************************)
LEMMA ContinuesSent ==
    ASSUME NEW R \in SUBSET Messages, NEW m \in Messages, NEW N, NEW last \in Nat, NEW s \in Seq(Frames),
           NEW num \in Nat, NEW pend, NEW f \in Frames,
           Continues({m} \union R, last, s, num, pend), HeldOK({m} \union R, last),
           f.type = m.type, f.number = m.number,
           IsReq(m) => \A x \in R : IsReq(x) => x.number # m.number,
           \A x \in N : x \in R \/ (/\ x.type = m.type /\ x.number = m.number
                                    /\ x.bytesSent > 0 /\ f.more),
           R \subseteq N
    PROVE  Continues(N, last, Append(s, f), num, pend)
    <1> DEFINE r == Append(s, f)
    <1>1. ToSet(r) = ToSet(s) \union {f}
      BY Longer
    <1> HIDE DEF r
    <1>2. m.number \in 1..last \/ ~IsReq(m)
      BY DEF HeldOK, Messages
    <1>3. \A n : Begun(n, s, num) => Begun(n, r, num)
      BY <1>1 DEF Begun
    <1>4. \A n : Begun(n, r, num) => Begun(n, s, num) \/ (IsReq(m) /\ n = m.number)
      BY <1>1 DEF Begun, IsReq
    <1>5. IsReq(m) => Begun(m.number, r, num)
      BY <1>1 DEF Begun, IsReq
    <1>6. \A x \in N : New(x) => x \in R /\ IsReq(x)
      BY DEF New, IsReq
    <1>7. \A x \in N : New(x) => ~Begun(x.number, r, num)
      BY <1>4, <1>6 DEF Continues
    <1>8. \A n \in 1..last : Begun(n, r, num) \/ \E x \in N : New(x) /\ x.number = n
      <2>1. New(m) => IsReq(m)
        BY DEF New, IsReq
      <2> QED  BY <1>3, <1>5, <2>1 DEF Continues
    <1>9. num <= last /\ \A g \in ToSet(r) : IsReq(g) => g.number <= last
      <2>1. IsReq(f) => f.number <= last
        BY <1>2 DEF IsReq
      <2> QED  BY <1>1, <2>1 DEF Continues
    <1>10. ASSUME NEW x \in N, IsReq(x), ~New(x)
           PROVE  /\ Begun(x.number, r, num)
                  /\ x.number <= num => x.number \in DOMAIN pend
                  /\ \A g \in ToSet(r) : IsReq(g) /\ g.number = x.number => g.more
      <2>1. CASE x \in R
        <3>1. /\ Begun(x.number, s, num)
              /\ x.number <= num => x.number \in DOMAIN pend
              /\ \A g \in ToSet(s) : IsReq(g) /\ g.number = x.number => g.more
          BY <1>10, <2>1 DEF Continues
        <3>2. IsReq(f) => f.number # x.number
          BY <1>10, <2>1 DEF IsReq
        <3> QED  BY <1>1, <1>3, <3>1, <3>2
      <2>2. CASE x \notin R
        <3>1. IsReq(m) /\ x.number = m.number /\ f.more
          BY <1>10, <2>2 DEF IsReq
        <3>2. CASE New(m)
          <4>1. ~Begun(m.number, s, num)
            BY <3>2 DEF Continues
          <4>2. ~(m.number <= num)
            BY <1>2, <3>1, <4>1 DEF Begun
          <4>3. \A g \in ToSet(s) : ~(IsReq(g) /\ g.number = m.number)
            BY <4>1 DEF Begun
          <4> QED  BY <1>1, <1>5, <3>1, <4>2, <4>3
        <3>3. CASE ~New(m)
          <4>1. /\ m.number <= num => m.number \in DOMAIN pend
                /\ \A g \in ToSet(s) : IsReq(g) /\ g.number = m.number => g.more
            BY <3>1, <3>3 DEF Continues
          <4> QED  BY <1>1, <1>5, <3>1, <4>1
        <3> QED  BY <3>2, <3>3
      <2> QED  BY <2>1, <2>2
    <1>11. Continues(N, last, r, num, pend)
      BY <1>7, <1>8, <1>9, <1>10 DEF Continues
    <1> QED  BY <1>11 DEF r

\* The frame that is sent keeps the order: no request not begun has a lower number.
LEMMA OrderSent ==
    ASSUME NEW R \in SUBSET Messages, NEW m \in Messages, NEW last \in Nat, NEW s \in Seq(Frames),
           NEW num \in Nat, NEW pend, NEW f \in Frames, InOrder(s, num, pend),
           IsReq(m) =>
              /\ Continues({m} \union R, last, s, num, pend)
              /\ HeldOK({m} \union R, last)
              /\ New(m) => \A x \in R : New(x) => m.number < x.number,
           f.type = m.type, f.number = m.number
    PROVE  InOrder(Append(s, f), num, pend)
    <1> SUFFICES ASSUME IsReq(f)
                 PROVE  /\ \A n \in num+1..f.number-1 : \E g \in ToSet(s) : IsReq(g) /\ g.number = n
                        /\ \A g \in ToSet(s) : IsReq(g) /\ g.number = f.number => g.more
                        /\ f.number <= num => f.number \in DOMAIN pend
      BY InOrderSent
    <1>1. IsReq(m) /\ m.number \in 1..last
      <2>1. IsReq(m)
        BY DEF IsReq
      <2>2. m.number > 0 /\ m.number = m.id /\ m.id <= last
        BY <2>1 DEF HeldOK
      <2>3. m.number \in Nat
        BY DEF Messages
      <2> QED  BY <2>1, <2>2, <2>3
    <1>2. CASE New(m)
      <2>1. ~Begun(m.number, s, num)
        BY <1>1, <1>2 DEF Continues
      <2>2. ~(m.number <= num) /\ \A g \in ToSet(s) : ~(IsReq(g) /\ g.number = m.number)
        BY <1>1, <2>1 DEF Begun
      <2>3. ASSUME NEW n \in num+1..m.number-1 PROVE \E g \in ToSet(s) : IsReq(g) /\ g.number = n
        <3>1. n \in 1..last /\ n < m.number /\ ~(n \in 1..num)
          BY <1>1
        <3>2. ~\E x \in {m} \union R : New(x) /\ x.number = n
          BY <1>1, <1>2, <3>1 DEF Messages
        <3>3. Begun(n, s, num)
          BY <1>1, <3>1, <3>2 DEF Continues
        <3> QED  BY <3>1, <3>3 DEF Begun
      <2> QED  BY <2>2, <2>3
    <1>3. CASE ~New(m)
      <2>1. /\ Begun(m.number, s, num)
            /\ m.number <= num => m.number \in DOMAIN pend
            /\ \A g \in ToSet(s) : IsReq(g) /\ g.number = m.number => g.more
        BY <1>1, <1>3 DEF Continues
      <2>2. ASSUME NEW n \in num+1..m.number-1 PROVE \E g \in ToSet(s) : IsReq(g) /\ g.number = n
        <3>1. ~(m.number \in 1..num)
          BY <1>1
        <3>2. PICK g \in ToSet(s) : IsReq(g) /\ g.number = m.number
          BY <2>1, <3>1 DEF Begun
        <3>3. PICK i \in DOMAIN s : g = s[i]
          BY DEF ToSet
        <3>4. PICK j \in 1..i-1 : IsReq(s[j]) /\ s[j].number = n
          BY <3>2, <3>3 DEF InOrder
        <3>5. j \in DOMAIN s
          <4>1. DOMAIN s = 1..Len(s) /\ Len(s) \in Nat
            OBVIOUS
          <4> QED  BY <4>1
        <3> QED  BY <3>4, <3>5 DEF ToSet
      <2> QED  BY <2>1, <2>2
    <1> QED  BY <1>2, <1>3
------------------------------------------------------------------------------
(***************************************************************************)
(* Requests and their answers.                                             *)
(***************************************************************************)
RepliesIn(M, N) == \A m \in M : IsReply(m) => \E x \in N : IsReply(x) /\ x.number = m.number

LEMMA WithinReplies ==
    ASSUME NEW M, NEW N, Within(M, N)
    PROVE  RepliesIn(M, N)
    BY DEF Within, Counts, Like, RepliesIn, IsReply

LEMMA AnsweredLess ==
    ASSUME NEW M, NEW N, RepliesIn(N, M), NEW due, NEW num, NEW pend, NEW pend2,
           DOMAIN pend2 \subseteq DOMAIN pend, Answered(M, due, num, pend)
    PROVE  Answered(N, due, num, pend2)
    BY DEF Answered, RepliesIn

LEMMA AnsweredMore ==
    ASSUME NEW M, NEW due, NEW num, NEW pend, Answered(M, due, num, pend), NEW m, m.number \in due
    PROVE  Answered(M \union {m}, due \ {m.number}, num, pend)
    BY DEF Answered

\* A frame f of a request is handled.
LEMMA AnsweredHandled ==
    ASSUME NEW M, NEW N, RepliesIn(N, M), NEW due, NEW num \in Nat, NEW pend, Answered(M, due, num, pend),
           NEW n \in Nat \ {0}, n \in DOMAIN pend \/ n = num + 1,
           NEW due2, NEW num2, NEW pend2, num2 = IF n \in DOMAIN pend THEN num ELSE n,
           DOMAIN pend2 \subseteq DOMAIN pend \union {n}, due2 \subseteq due \union {n},
           n \in due2 => n \notin DOMAIN pend2
    PROVE  Answered(N, due2, num2, pend2)
    <1>1. 1..num \subseteq 1..num2 /\ n \in 1..num2
      <2>1. CASE n \in DOMAIN pend
        BY <2>1 DEF Answered
      <2>2. CASE n \notin DOMAIN pend
        BY <2>2
      <2> QED  BY <2>1, <2>2
    <1>2. \A m \in M : IsReply(m) => m.number # n
      <2>1. \A m \in M : IsReply(m) => m.number \in 1..num /\ m.number \notin DOMAIN pend
        BY DEF Answered
      <2> QED  BY <2>1
    <1>3. n \notin due
      <2>1. \A x \in due : x \in 1..num /\ x \notin DOMAIN pend
        BY DEF Answered
      <2> QED  BY <2>1
    <1>4. DOMAIN pend2 \subseteq 1..num2
      BY <1>1 DEF Answered
    <1>5. due2 \subseteq (1..num2) \ DOMAIN pend2
      BY <1>1, <1>3 DEF Answered
    <1>6. \A m \in N : IsReply(m) => m.number \in (1..num2) \ (DOMAIN pend2 \union due2)
      BY <1>1, <1>2 DEF Answered, RepliesIn
    <1> QED  BY <1>4, <1>5, <1>6 DEF Answered

LEMMA ExpectedLess ==
    ASSUME NEW M, NEW N, RepliesIn(N, M), NEW due, NEW due2, due2 \subseteq due, NEW s, NEW s2,
           ToSet(s2) \subseteq ToSet(s), NEW t, NEW pend, NEW pend2, DOMAIN pend \subseteq DOMAIN pend2,
           Expected(M, due, s, t, pend)
    PROVE  Expected(N, due2, s2, t, pend2)
    <1>1. /\ \A f \in ToSet(t) : IsReply(f) => f.number \in DOMAIN pend2
          /\ \A i, j \in DOMAIN t :
                i < j /\ IsReply(t[i]) /\ IsReply(t[j]) /\ t[i].number = t[j].number => t[i].more
      BY DEF Expected
    <1>2. ASSUME NEW m \in N, IsReply(m)
          PROVE  /\ m.number \in DOMAIN pend2
                 /\ \A f \in ToSet(t) : IsReply(f) /\ f.number = m.number => f.more
      <2>1. PICK x \in M : IsReply(x) /\ x.number = m.number
        BY <1>2 DEF RepliesIn
      <2> QED  BY <2>1 DEF Expected
    <1>3. \A n \in due2 : n \in DOMAIN pend2 /\ \A f \in ToSet(t) : ~(IsReply(f) /\ f.number = n)
      BY DEF Expected
    <1>4. \A f \in ToSet(s2) : IsReq(f) /\ ~f.more /\ ~f.noReply =>
             /\ f.number \in DOMAIN pend2
             /\ \A g \in ToSet(t) : ~(IsReply(g) /\ g.number = f.number)
      BY DEF Expected
    <1> QED  BY <1>1, <1>2, <1>3, <1>4 DEF Expected

\* The application responds.
LEMMA ExpectedAnswer ==
    ASSUME NEW M, NEW due, NEW s, NEW t, NEW pend, Expected(M, due, s, t, pend),
           NEW m, m.number \in due
    PROVE  Expected(M \union {m}, due \ {m.number}, s, t, pend)
    <1>1. \A x \in M \union {m} : IsReply(x) =>
             /\ x.number \in DOMAIN pend
             /\ \A f \in ToSet(t) : IsReply(f) /\ f.number = x.number => f.more
      BY DEF Expected
    <1> QED  BY <1>1 DEF Expected

\* The last frame of a request is handed to the application.
LEMMA ExpectedDue ==
    ASSUME NEW M, NEW due, NEW s, NEW t, NEW pend, Expected(M, due, s, t, pend),
           NEW f \in ToSet(s), IsReq(f), ~f.more, ~f.noReply
    PROVE  Expected(M, due \union {f.number}, s, t, pend)
    <1>1. \A n \in due \union {f.number} :
             n \in DOMAIN pend /\ \A g \in ToSet(t) : ~(IsReply(g) /\ g.number = n)
      BY DEF Expected
    <1> QED  BY <1>1 DEF Expected

\* The last frame of a request is sent, and its answer is expected.
LEMMA ExpectedAsked ==
    ASSUME NEW M, NEW due, NEW s \in Seq(Frames), NEW t, NEW pend, NEW pend2,
           Expected(M, due, s, t, pend), DOMAIN pend \subseteq DOMAIN pend2, NEW f \in Frames,
           IsReq(f) /\ ~f.more /\ ~f.noReply =>
              f.number \in DOMAIN pend2 /\ f.number \notin DOMAIN pend
    PROVE  Expected(M, due, Append(s, f), t, pend2)
    <1> DEFINE r == Append(s, f)
    <1>1. ToSet(r) = ToSet(s) \union {f}
      BY Longer
    <1> HIDE DEF r
    <1>2. RepliesIn(M, M) /\ due \subseteq due /\ ToSet(s) \subseteq ToSet(s)
      BY DEF RepliesIn
    <1>3. Expected(M, due, s, t, pend2)
      BY <1>2, ExpectedLess
    <1>4. \A g \in ToSet(r) : IsReq(g) /\ ~g.more /\ ~g.noReply =>
             /\ g.number \in DOMAIN pend2
             /\ \A h \in ToSet(t) : ~(IsReply(h) /\ h.number = g.number)
      <2>1. \A h \in ToSet(t) : IsReply(h) => h.number \in DOMAIN pend
        BY DEF Expected
      <2>2. \A g \in ToSet(s) : IsReq(g) /\ ~g.more /\ ~g.noReply =>
               /\ g.number \in DOMAIN pend2
               /\ \A h \in ToSet(t) : ~(IsReply(h) /\ h.number = g.number)
        BY <1>3 DEF Expected
      <2> QED  BY <1>1, <2>1, <2>2
    <1>5. Expected(M, due, r, t, pend2)
      BY <1>3, <1>4 DEF Expected
    <1> QED  BY <1>5 DEF r

\* A frame of a reply is sent: one that is awaited, and that was not ended.
LEMMA ExpectedReplied ==
    ASSUME NEW M, NEW N, RepliesIn(N, M), NEW due, NEW s, NEW t \in Seq(Frames), NEW pend,
           Expected(M, due, s, t, pend), NEW f \in Frames,
           IsReply(f) =>
              /\ \E m \in M : IsReply(m) /\ m.number = f.number
              /\ \A x \in N : IsReply(x) /\ x.number = f.number => f.more
              /\ f.number \notin due
              /\ \A g \in ToSet(s) : IsReq(g) /\ ~g.more => g.number # f.number
    PROVE  Expected(N, due, s, Append(t, f), pend)
    <1> DEFINE r == Append(t, f)
               k == Len(t) + 1
    <1>1. /\ DOMAIN r = 1..k /\ DOMAIN t = 1..Len(t) /\ Len(t) \in Nat
          /\ r[k] = f /\ (\A i \in DOMAIN t : r[i] = t[i]) /\ ToSet(r) = ToSet(t) \union {f}
      BY Longer
    <1>2. \A i \in DOMAIN r : i = k \/ i \in DOMAIN t
      BY <1>1
    <1>3. k \in Int /\ \A i \in DOMAIN r : i \in Int /\ i <= k
      BY <1>1
    <1> HIDE DEF r, k
    <1>4. IsReply(f) =>
             /\ f.number \in DOMAIN pend
             /\ \A g \in ToSet(t) : IsReply(g) /\ g.number = f.number => g.more
      BY DEF Expected
    <1>5. \A g \in ToSet(r) : IsReply(g) => g.number \in DOMAIN pend
      BY <1>1, <1>4 DEF Expected
    <1>6. ASSUME NEW i \in DOMAIN r, NEW j \in DOMAIN r, i < j, IsReply(r[i]), IsReply(r[j]),
                 r[i].number = r[j].number
          PROVE  r[i].more
      <2>1. i \in DOMAIN t
        BY <1>2, <1>3, <1>6
      <2>2. CASE j = k
        BY <1>1, <1>4, <1>6, <2>1, <2>2 DEF ToSet
      <2>3. CASE j \in DOMAIN t
        BY <1>1, <1>6, <2>1, <2>3 DEF Expected
      <2> QED  BY <1>2, <2>2, <2>3
    <1>7. ASSUME NEW m \in N, IsReply(m)
          PROVE  /\ m.number \in DOMAIN pend
                 /\ \A g \in ToSet(r) : IsReply(g) /\ g.number = m.number => g.more
      <2>1. PICK x \in M : IsReply(x) /\ x.number = m.number
        BY <1>7 DEF RepliesIn
      <2>2. /\ x.number \in DOMAIN pend
            /\ \A g \in ToSet(t) : IsReply(g) /\ g.number = x.number => g.more
        BY <2>1 DEF Expected
      <2> QED  BY <1>1, <1>7, <2>1, <2>2
    <1>8. \A n \in due :
             n \in DOMAIN pend /\ \A g \in ToSet(r) : ~(IsReply(g) /\ g.number = n)
      BY <1>1 DEF Expected
    <1>9. \A g \in ToSet(s) : IsReq(g) /\ ~g.more /\ ~g.noReply =>
             /\ g.number \in DOMAIN pend
             /\ \A h \in ToSet(r) : ~(IsReply(h) /\ h.number = g.number)
      BY <1>1 DEF Expected
    <1>10. Expected(N, due, s, r, pend)
      BY <1>5, <1>6, <1>7, <1>8, <1>9 DEF Expected
    <1> QED  BY <1>10 DEF r

\* A frame is handled; if it is the last of a reply, nothing else was expected.
LEMMA ExpectedHandled ==
    ASSUME NEW M, NEW due, NEW s, NEW t \in Seq(Frames), t # <<>>, NEW pend, Expected(M, due, s, t, pend)
    PROVE  /\ ~IsReply(Head(t)) => Expected(M, due, s, Tail(t), pend)
           /\ IsReply(Head(t)) => Head(t).number \in DOMAIN pend
           /\ \A pend2 :
                 /\ IsReply(Head(t))
                 /\ DOMAIN pend2 = IF Head(t).more THEN DOMAIN pend ELSE DOMAIN pend \ {Head(t).number}
                 => Expected(M, due, s, Tail(t), pend2)
    <1> DEFINE r == Tail(t)
               f == Head(t)
    <1>1. /\ f = t[1] /\ 1 \in DOMAIN t /\ Len(t) \in Nat
          /\ DOMAIN r = 1..Len(t)-1 /\ DOMAIN t = 1..Len(t)
          /\ (\A i \in 1..Len(t)-1 : r[i] = t[i + 1])
          /\ ToSet(t) = {f} \union ToSet(r)
      BY Shorter
    <1>2. \A i \in DOMAIN r : i + 1 \in DOMAIN t /\ 1 < i + 1 /\ r[i] = t[i + 1] /\ i \in Int
      BY <1>1
    <1> HIDE DEF r, f
    <1>3. ASSUME NEW i \in DOMAIN r, NEW j \in DOMAIN r, i < j, IsReply(r[i]), IsReply(r[j]),
                 r[i].number = r[j].number
          PROVE  r[i].more
      <2>1. i + 1 < j + 1
        BY <1>2, <1>3
      <2> QED  BY <1>2, <1>3, <2>1 DEF Expected
    <1>4. ASSUME NEW pend2,
                 \A n \in DOMAIN pend : n \in DOMAIN pend2 \/ (IsReply(f) /\ ~f.more /\ n = f.number)
          PROVE  Expected(M, due, s, r, pend2)
      <2>1. ASSUME NEW g \in ToSet(r), IsReply(g) PROVE g.number \in DOMAIN pend2
        <3>1. g.number \in DOMAIN pend
          BY <1>1, <2>1 DEF Expected
        <3>2. PICK i \in DOMAIN r : g = r[i]
          BY DEF ToSet
        <3>3. IsReply(f) /\ g.number = f.number => f.more
          BY <1>1, <1>2, <2>1, <3>2 DEF Expected
        <3> QED  BY <1>4, <3>1, <3>3
      <2>2. ASSUME NEW m \in M, IsReply(m)
            PROVE  /\ m.number \in DOMAIN pend2
                   /\ \A g \in ToSet(r) : IsReply(g) /\ g.number = m.number => g.more
        <3>1. /\ m.number \in DOMAIN pend
              /\ \A g \in ToSet(t) : IsReply(g) /\ g.number = m.number => g.more
          BY <2>2 DEF Expected
        <3> QED  BY <1>1, <1>4, <3>1
      <2>3. ASSUME NEW n \in due
            PROVE  n \in DOMAIN pend2 /\ \A g \in ToSet(r) : ~(IsReply(g) /\ g.number = n)
        <3>1. n \in DOMAIN pend /\ \A g \in ToSet(t) : ~(IsReply(g) /\ g.number = n)
          BY DEF Expected
        <3> QED  BY <1>1, <1>4, <3>1
      <2>4. ASSUME NEW g \in ToSet(s), IsReq(g), ~g.more, ~g.noReply
            PROVE  /\ g.number \in DOMAIN pend2
                   /\ \A h \in ToSet(r) : ~(IsReply(h) /\ h.number = g.number)
        <3>1. /\ g.number \in DOMAIN pend
              /\ \A h \in ToSet(t) : ~(IsReply(h) /\ h.number = g.number)
          BY <2>4 DEF Expected
        <3> QED  BY <1>1, <1>4, <3>1
      <2> QED  BY <1>3, <2>1, <2>2, <2>3, <2>4 DEF Expected
    <1>5. IsReply(f) => f.number \in DOMAIN pend
      BY <1>1 DEF Expected
    <1>6. Expected(M, due, s, r, pend)
      BY <1>4
    <1>7. ASSUME NEW pend2, IsReply(f),
                 DOMAIN pend2 = IF f.more THEN DOMAIN pend ELSE DOMAIN pend \ {f.number}
          PROVE  Expected(M, due, s, r, pend2)
      <2>1. \A n \in DOMAIN pend : n \in DOMAIN pend2 \/ (IsReply(f) /\ ~f.more /\ n = f.number)
        BY <1>7
      <2> QED  BY <1>4, <2>1
    <1> QED  BY <1>5, <1>6, <1>7 DEF r, f
------------------------------------------------------------------------------
(***************************************************************************)
(* What the steps do, peer by peer.                                        *)
(***************************************************************************)
KeepsApp(p) == progress'[p] = progress[p] /\ toRespond'[p] = toRespond[p]
KeepsMail(p) == mailbox'[p] = mailbox[p]
KeepsQueues(p) ==
    outbox'[p] = outbox[p] /\ icebox'[p] = icebox[p] /\ lastMessageNo'[p] = lastMessageNo[p]
KeepsReceived(p) ==
    /\ pendingRequests'[p] = pendingRequests[p] /\ pendingResponses'[p] = pendingResponses[p]
    /\ numReceived'[p] = numReceived[p]
KeepsLoop(p) == running'[p] = running[p] /\ batch'[p] = batch[p]
KeepsWriting(p) == writing'[p] = writing[p] /\ writeable'[p] = writeable[p]
KeepsLinks(p) == wire'[p] = wire[p] /\ buffered'[p] = buffered[p] /\ incoming'[p] = incoming[p]
KeepsOpen(p) ==
    /\ closeSent'[p] = closeSent[p] /\ socket'[p] = socket[p]
    /\ closingWithError'[p] = closingWithError[p]

Untouched(p) ==
    /\ KeepsApp(p) /\ KeepsMail(p) /\ KeepsQueues(p) /\ KeepsReceived(p)
    /\ KeepsLoop(p) /\ KeepsWriting(p) /\ KeepsLinks(p) /\ KeepsOpen(p)

\* The types of one peer's variables.
LEMMA Typed ==
    ASSUME TypeOK, NEW p \in Peers
    PROVE  /\ progress[p] \in Seq(Requests) /\ toRespond[p] \in SUBSET (Nat \ {0})
           /\ mailbox[p] \in Seq(Events) /\ outbox[p] \in Seq(Messages) /\ icebox[p] \in Seq(Messages)
           /\ IsPending(pendingRequests[p]) /\ IsPending(pendingResponses[p])
           /\ lastMessageNo[p] \in Nat /\ numReceived[p] \in Nat
           /\ batch[p] \in Seq(Frames) /\ incoming[p] \in Seq(Frames) /\ wire[p] \in Seq(Frames)
           /\ buffered[p] \in Int
    BY DEF TypeOK

LEMMA SendRequestDoes ==
    ASSUME TypeOK, NEW a \in Peers, NEW shape \in Shapes[a], SendRequest(a, shape)
    PROVE  /\ TypeOK' /\ Untouched(Other(a))
           /\ KeepsQueues(a) /\ KeepsReceived(a) /\ KeepsLoop(a) /\ KeepsWriting(a) /\ KeepsLinks(a)
           /\ KeepsOpen(a) /\ toRespond'[a] = toRespond[a]
           /\ progress'[a] = Append(progress[a], [noReply |-> shape.noReply, ends |-> <<>>])
           /\ mailbox'[a] = Append(mailbox[a], Queued(NewRequest(shape, Len(progress[a]) + 1)))
    <1> DEFINE e == Queued(NewRequest(shape, Len(progress[a]) + 1))
               r == [noReply |-> shape.noReply, ends |-> <<>>]
    <1>1. progress[a] \in Seq(Requests) /\ mailbox[a] \in Seq(Events) /\ Len(progress[a]) + 1 \in Nat
      BY Typed
    <1>2. e \in Events /\ shape.noReply \in BOOLEAN
      BY <1>1, NewMessages
    <1>3. r \in Requests
      BY <1>2 DEF Requests
    <1> HIDE DEF e, r
    <1>4. mailbox[a] \o <<e>> = Append(mailbox[a], e)
      BY <1>1, <1>2, AppendIsConcat
    <1>5. /\ progress' = [progress EXCEPT ![a] = Append(progress[a], r)]
          /\ mailbox' = [mailbox EXCEPT ![a] = Append(mailbox[a], e)]
          /\ UNCHANGED <<toRespond, sendVars, recvVars, loopVars, sockVars, closingWithError>>
      BY <1>4 DEF SendRequest, Post, e, r
    <1>6. Append(progress[a], r) \in Seq(Requests) /\ Append(mailbox[a], e) \in Seq(Events)
      BY <1>1, <1>2, <1>3, AppendProperties
    <1>7. Other(a) \in Peers /\ Other(a) # a
      BY TwoPeers
    <1>8. TypeOK'
      BY <1>5, <1>6 DEF TypeOK, sendVars, recvVars, loopVars, sockVars
    <1>9. Untouched(Other(a))
      BY <1>5, <1>7 DEF TypeOK, sendVars, recvVars, loopVars, sockVars, Untouched, KeepsApp, KeepsMail,
                        KeepsQueues, KeepsReceived, KeepsLoop, KeepsWriting, KeepsLinks, KeepsOpen
    <1>10. /\ KeepsQueues(a) /\ KeepsReceived(a) /\ KeepsLoop(a) /\ KeepsWriting(a) /\ KeepsLinks(a)
           /\ KeepsOpen(a) /\ toRespond'[a] = toRespond[a]
      BY <1>5 DEF sendVars, recvVars, loopVars, sockVars, KeepsQueues, KeepsReceived, KeepsLoop,
                  KeepsWriting, KeepsLinks, KeepsOpen
    <1>11. progress'[a] = Append(progress[a], r) /\ mailbox'[a] = Append(mailbox[a], e)
      BY <1>5 DEF TypeOK
    <1> QED  BY <1>8, <1>9, <1>10, <1>11 DEF e, r

LEMMA RespondDoes ==
    ASSUME TypeOK, NEW a \in Peers, NEW msgNo \in toRespond[a], NEW reply \in Replies[a], Respond(a, msgNo, reply)
    PROVE  /\ TypeOK' /\ Untouched(Other(a))
           /\ KeepsQueues(a) /\ KeepsReceived(a) /\ KeepsLoop(a) /\ KeepsWriting(a)
           /\ KeepsLinks(a) /\ KeepsOpen(a) /\ progress'[a] = progress[a]
           /\ mailbox'[a] = Append(mailbox[a], Queued(NewResponse(reply, msgNo)))
           /\ toRespond'[a] = toRespond[a] \ {msgNo}
    <1> DEFINE e == Queued(NewResponse(reply, msgNo))
    <1>1. mailbox[a] \in Seq(Events)
      BY Typed
    <1>2. e \in Events
      <2>1. msgNo \in Nat
        BY Typed
      <2> QED  BY <2>1, NewMessages
    <1>3. mailbox[a] \o <<e>> = Append(mailbox[a], e)
      BY <1>1, <1>2, AppendIsConcat
    <1>4. Append(mailbox[a], e) \in Seq(Events)
      BY <1>1, <1>2, AppendProperties
    <1> HIDE DEF e
    <1>5. /\ mailbox' = [mailbox EXCEPT ![a] = Append(mailbox[a], Queued(NewResponse(reply, msgNo)))]
          /\ toRespond' = [toRespond EXCEPT ![a] = toRespond[a] \ {msgNo}]
          /\ UNCHANGED <<progress, closingWithError, sendVars, recvVars, loopVars, sockVars>>
      BY <1>3 DEF Respond, Post, e
    <1>6. /\ Append(mailbox[a], Queued(NewResponse(reply, msgNo))) \in Seq(Events)
          /\ toRespond[a] \ {msgNo} \in SUBSET (Nat \ {0})
      BY <1>4, Typed DEF e
    <1>7. TypeOK'
      BY <1>5, <1>6 DEF TypeOK, sendVars, recvVars, loopVars, sockVars
    <1>8. Untouched(Other(a))
      <2>1. Other(a) \in Peers /\ Other(a) # a
        BY TwoPeers
      <2> QED  BY <1>5, <2>1 DEF TypeOK, sendVars, recvVars, loopVars, sockVars, Untouched,
                                 KeepsApp, KeepsMail, KeepsQueues, KeepsReceived, KeepsLoop,
                                 KeepsWriting, KeepsLinks, KeepsOpen
    <1>9. /\ KeepsQueues(a) /\ KeepsReceived(a) /\ KeepsLoop(a) /\ KeepsWriting(a)
          /\ KeepsLinks(a) /\ KeepsOpen(a) /\ progress'[a] = progress[a]
      BY <1>5 DEF sendVars, recvVars, loopVars, sockVars, KeepsQueues, KeepsReceived,
                  KeepsLoop, KeepsWriting, KeepsLinks, KeepsOpen
    <1>10. /\ mailbox'[a] = Append(mailbox[a], Queued(NewResponse(reply, msgNo)))
           /\ toRespond'[a] = toRespond[a] \ {msgNo}
      BY <1>5 DEF TypeOK
    <1> QED  BY <1>7, <1>8, <1>9, <1>10 DEF e

LEMMA CloseDoes ==
    ASSUME TypeOK, NEW a \in Peers, Close(a)
    PROVE  /\ TypeOK' /\ Untouched(Other(a))
           /\ KeepsApp(a) /\ KeepsQueues(a) /\ KeepsReceived(a) /\ KeepsLoop(a)
           /\ KeepsWriting(a) /\ KeepsLinks(a) /\ KeepsOpen(a)
           /\ mailbox'[a] = Append(mailbox[a], Event("close"))
    <1> DEFINE e == Event("close")
    <1>1. mailbox[a] \in Seq(Events)
      BY Typed
    <1>2. e \in Events
      BY DEF Event, Events
    <1>3. mailbox[a] \o <<e>> = Append(mailbox[a], e)
      BY <1>1, <1>2, AppendIsConcat
    <1>4. Append(mailbox[a], e) \in Seq(Events)
      BY <1>1, <1>2, AppendProperties
    <1> HIDE DEF e
    <1>5. /\ mailbox' = [mailbox EXCEPT ![a] = Append(mailbox[a], Event("close"))]
          /\ UNCHANGED <<closingWithError, appVars, sendVars, recvVars, loopVars, sockVars>>
      BY <1>3 DEF Close, Post, e
    <1>6. /\ Append(mailbox[a], Event("close")) \in Seq(Events)
      BY <1>4 DEF e
    <1>7. TypeOK'
      BY <1>5, <1>6 DEF TypeOK, appVars, sendVars, recvVars, loopVars, sockVars
    <1>8. Untouched(Other(a))
      <2>1. Other(a) \in Peers /\ Other(a) # a
        BY TwoPeers
      <2> QED  BY <1>5, <2>1 DEF TypeOK, appVars, sendVars, recvVars, loopVars, sockVars,
                                 Untouched, KeepsApp, KeepsMail, KeepsQueues, KeepsReceived,
                                 KeepsLoop, KeepsWriting, KeepsLinks, KeepsOpen
    <1>9. /\ KeepsApp(a) /\ KeepsQueues(a) /\ KeepsReceived(a) /\ KeepsLoop(a)
          /\ KeepsWriting(a) /\ KeepsLinks(a) /\ KeepsOpen(a)
      BY <1>5 DEF appVars, sendVars, recvVars, loopVars, sockVars, KeepsApp, KeepsQueues,
                  KeepsReceived, KeepsLoop, KeepsWriting, KeepsLinks, KeepsOpen
    <1>10. /\ mailbox'[a] = Append(mailbox[a], Event("close"))
      BY <1>5 DEF TypeOK
    <1> QED  BY <1>7, <1>8, <1>9, <1>10 DEF e

LEMMA SocketClosedDoes ==
    ASSUME TypeOK, NEW a \in Peers, SocketClosed(a)
    PROVE  /\ TypeOK' /\ Untouched(Other(a))
           /\ KeepsApp(a) /\ KeepsQueues(a) /\ KeepsReceived(a) /\ KeepsLoop(a)
           /\ KeepsWriting(a) /\ KeepsLinks(a) /\ closeSent'[a] = closeSent[a]
           /\ closingWithError'[a] = closingWithError[a]
           /\ mailbox'[a] = Append(mailbox[a], Event("closed"))
           /\ socket'[a] = "closed"
           /\ socket[a] = "open"
    <1> DEFINE e == Event("closed")
    <1>1. mailbox[a] \in Seq(Events)
      BY Typed
    <1>2. e \in Events
      BY DEF Event, Events
    <1>3. mailbox[a] \o <<e>> = Append(mailbox[a], e)
      BY <1>1, <1>2, AppendIsConcat
    <1>4. Append(mailbox[a], e) \in Seq(Events)
      BY <1>1, <1>2, AppendProperties
    <1> HIDE DEF e
    <1>5. /\ mailbox' = [mailbox EXCEPT ![a] = Append(mailbox[a], Event("closed"))]
          /\ socket' = [socket EXCEPT ![a] = "closed"]
          /\ UNCHANGED <<incoming, wire, buffered, closeSent, closingWithError, appVars,
                         sendVars, recvVars, loopVars>>
      BY <1>3 DEF SocketClosed, Post, e
    <1>6. /\ Append(mailbox[a], Event("closed")) \in Seq(Events)
      BY <1>4 DEF e
    <1>7. TypeOK'
      BY <1>5, <1>6 DEF TypeOK, appVars, sendVars, recvVars, loopVars
    <1>8. Untouched(Other(a))
      <2>1. Other(a) \in Peers /\ Other(a) # a
        BY TwoPeers
      <2> QED  BY <1>5, <2>1 DEF TypeOK, appVars, sendVars, recvVars, loopVars, Untouched,
                                 KeepsApp, KeepsMail, KeepsQueues, KeepsReceived, KeepsLoop,
                                 KeepsWriting, KeepsLinks, KeepsOpen
    <1>9. /\ KeepsApp(a) /\ KeepsQueues(a) /\ KeepsReceived(a) /\ KeepsLoop(a)
          /\ KeepsWriting(a) /\ KeepsLinks(a) /\ closeSent'[a] = closeSent[a]
          /\ closingWithError'[a] = closingWithError[a]
      BY <1>5 DEF appVars, sendVars, recvVars, loopVars, KeepsApp, KeepsQueues,
                  KeepsReceived, KeepsLoop, KeepsWriting, KeepsLinks
    <1>10. /\ mailbox'[a] = Append(mailbox[a], Event("closed"))
           /\ socket'[a] = "closed"
      BY <1>5 DEF TypeOK
    <1>11. /\ socket[a] = "open"
      BY DEF SocketClosed, Post, e
    <1> QED  BY <1>7, <1>8, <1>9, <1>10, <1>11 DEF e

\* _queueMessage, for a connection that is gone ...
LEMMA QueueMessageRefuses ==
    ASSUME TypeOK, NEW a \in Peers, QueueMessage(a), ~Live(a)
    PROVE  /\ TypeOK' /\ Untouched(Other(a))
           /\ KeepsQueues(a) /\ KeepsReceived(a) /\ KeepsLoop(a) /\ KeepsWriting(a)
           /\ KeepsLinks(a) /\ KeepsOpen(a) /\ toRespond'[a] = toRespond[a]
           /\ mailbox'[a] = Tail(mailbox[a])
           /\ progress'[a] = Ended(a, IF wantsReply(Head(mailbox[a]).msg) THEN {Head(mailbox[a]).msg.id} ELSE {}, "disconnected")
           /\ mailbox[a] # <<>>
           /\ Head(mailbox[a]).ev = "queueMessage"
           /\ running[a] = "idle" /\ ~writing[a]
    <1>1. mailbox[a] \in Seq(Events) /\ mailbox[a] # <<>>
      BY Typed DEF QueueMessage, Takes
    <1>2. Tail(mailbox[a]) \in Seq(Events)
      BY <1>1, Shorter
    <1>3. /\ mailbox' = [mailbox EXCEPT ![a] = Tail(mailbox[a])]
          /\ progress' = [progress EXCEPT ![a] = Ended(a, IF wantsReply(Head(mailbox[a]).msg) THEN {Head(mailbox[a]).msg.id} ELSE {}, "disconnected")]
          /\ UNCHANGED <<toRespond, closingWithError, sendVars, recvVars, loopVars, sockVars>>
      BY DEF QueueMessage, Takes, Idle, SetProgress, Live
    <1>4. /\ Tail(mailbox[a]) \in Seq(Events)
          /\ Ended(a, IF wantsReply(Head(mailbox[a]).msg) THEN {Head(mailbox[a]).msg.id} ELSE {}, "disconnected") \in Seq(Requests)
      BY <1>2, EndedIs
    <1>5. TypeOK'
      BY <1>3, <1>4 DEF TypeOK, sendVars, recvVars, loopVars, sockVars
    <1>6. Untouched(Other(a))
      <2>1. Other(a) \in Peers /\ Other(a) # a
        BY TwoPeers
      <2> QED  BY <1>3, <2>1 DEF TypeOK, sendVars, recvVars, loopVars, sockVars, Untouched,
                                 KeepsApp, KeepsMail, KeepsQueues, KeepsReceived, KeepsLoop,
                                 KeepsWriting, KeepsLinks, KeepsOpen
    <1>7. /\ KeepsQueues(a) /\ KeepsReceived(a) /\ KeepsLoop(a) /\ KeepsWriting(a)
          /\ KeepsLinks(a) /\ KeepsOpen(a) /\ toRespond'[a] = toRespond[a]
      BY <1>3 DEF sendVars, recvVars, loopVars, sockVars, KeepsQueues, KeepsReceived,
                  KeepsLoop, KeepsWriting, KeepsLinks, KeepsOpen
    <1>8. /\ mailbox'[a] = Tail(mailbox[a])
          /\ progress'[a] = Ended(a, IF wantsReply(Head(mailbox[a]).msg) THEN {Head(mailbox[a]).msg.id} ELSE {}, "disconnected")
      BY <1>3 DEF TypeOK
    <1>9. /\ mailbox[a] # <<>>
          /\ Head(mailbox[a]).ev = "queueMessage"
          /\ running[a] = "idle" /\ ~writing[a]
      BY DEF QueueMessage, Takes, Idle
    <1> QED  BY <1>5, <1>6, <1>7, <1>8, <1>9

\* What becomes of the message that is taken from the mailbox.
NextNo(p) == IF Head(mailbox[p]).msg.number = 0 THEN lastMessageNo[p] + 1 ELSE Head(mailbox[p]).msg.number
Numbered(p) == [Head(mailbox[p]).msg EXCEPT !.number = NextNo(p)]

\* ... and for one that is not.
LEMMA QueueMessageAccepts ==
    ASSUME TypeOK, NEW a \in Peers, QueueMessage(a), Live(a)
    PROVE  /\ TypeOK' /\ Untouched(Other(a))
           /\ KeepsApp(a) /\ KeepsReceived(a) /\ KeepsLoop(a) /\ KeepsLinks(a)
           /\ KeepsOpen(a) /\ icebox'[a] = icebox[a] /\ writeable'[a] = writeable[a]
           /\ mailbox'[a] = Tail(mailbox[a])
           /\ lastMessageNo'[a] = IF Head(mailbox[a]).msg.number = 0 THEN NextNo(a) ELSE lastMessageNo[a]
           /\ outbox'[a] = requeue(outbox[a], Numbered(a))
           /\ writing'[a] = writeable[a]
           /\ mailbox[a] # <<>>
           /\ Head(mailbox[a]).ev = "queueMessage"
           /\ running[a] = "idle" /\ ~writing[a]
    <1>1. mailbox[a] \in Seq(Events) /\ mailbox[a] # <<>>
      BY Typed DEF QueueMessage, Takes
    <1>2. Tail(mailbox[a]) \in Seq(Events)
      BY <1>1, Shorter
    <1>3. /\ Head(mailbox[a]).ev = "queueMessage" /\ lastMessageNo[a] \in Nat
          /\ NextNo(a) \in Nat /\ Numbered(a) \in Messages
      <2>1. Head(mailbox[a]).ev = "queueMessage"
        BY DEF QueueMessage, Takes
      <2>2. Head(mailbox[a]).msg \in Messages
        BY <1>1, <2>1, PostedLess
      <2>3. lastMessageNo[a] \in Nat /\ NextNo(a) \in Nat
        BY <2>2, Typed DEF NextNo, Messages
      <2> QED  BY <2>1, <2>2, <2>3 DEF Numbered, Messages
    <1>4. requeue(outbox[a], Numbered(a)) \in Seq(Messages) /\ requeue(outbox[a], Numbered(a)) # <<>>
      BY <1>3, Typed, Requeued
    <1>5. /\ mailbox' = [mailbox EXCEPT ![a] = Tail(mailbox[a])]
          /\ lastMessageNo' = [lastMessageNo EXCEPT ![a] = IF Head(mailbox[a]).msg.number = 0 THEN NextNo(a) ELSE lastMessageNo[a]]
          /\ outbox' = [outbox EXCEPT ![a] = requeue(outbox[a], Numbered(a))]
          /\ writing' = [writing EXCEPT ![a] = writeable[a]]
          /\ UNCHANGED <<icebox, writeable, closingWithError, appVars, recvVars, loopVars,
                         sockVars>>
      <2>1. ~(socket[a] = "gone" \/ closingWithError[a] # "none")
        BY DEF Live
      <2>2. /\ mailbox' = [mailbox EXCEPT ![a] = Tail(mailbox[a])]
            /\ lastMessageNo' = [lastMessageNo EXCEPT ![a] =
                                     IF Head(mailbox[a]).msg.number = 0 THEN NextNo(a) ELSE lastMessageNo[a]]
            /\ outbox' = [outbox EXCEPT ![a] = requeue(outbox[a], Numbered(a))]
            /\ UNCHANGED <<toRespond, icebox, writeable, progress, recvVars, loopVars, sockVars, closingWithError>>
            /\ writeToWebSocket(a)
        BY <2>1 DEF QueueMessage, Takes, NextNo, Numbered
      <2>3. outbox'[a] = requeue(outbox[a], Numbered(a))
        BY <2>2 DEF TypeOK
      <2>4. writeable'[a] = writeable[a] /\ writeable[a] \in BOOLEAN
        BY <2>2 DEF TypeOK
      <2>5. writing' = [writing EXCEPT ![a] = writeable'[a] /\ outbox'[a] # <<>>]
        BY <2>2 DEF writeToWebSocket
      <2>6. (writeable'[a] /\ outbox'[a] # <<>>) = writeable[a]
        BY <1>4, <2>3, <2>4
      <2>7. writing' = [writing EXCEPT ![a] = writeable[a]]
        BY <2>5, <2>6
      <2> QED  BY <2>2, <2>7 DEF appVars
    <1>6. /\ Tail(mailbox[a]) \in Seq(Events)
          /\ (IF Head(mailbox[a]).msg.number = 0 THEN NextNo(a) ELSE lastMessageNo[a]) \in Nat
          /\ requeue(outbox[a], Numbered(a)) \in Seq(Messages) /\ writeable[a] \in BOOLEAN
      BY <1>2, <1>3, <1>4 DEF TypeOK
    <1>7. TypeOK'
      BY <1>5, <1>6 DEF TypeOK, appVars, recvVars, loopVars, sockVars
    <1>8. Untouched(Other(a))
      <2>1. Other(a) \in Peers /\ Other(a) # a
        BY TwoPeers
      <2> QED  BY <1>5, <2>1 DEF TypeOK, appVars, recvVars, loopVars, sockVars, Untouched,
                                 KeepsApp, KeepsMail, KeepsQueues, KeepsReceived, KeepsLoop,
                                 KeepsWriting, KeepsLinks, KeepsOpen
    <1>9. /\ KeepsApp(a) /\ KeepsReceived(a) /\ KeepsLoop(a) /\ KeepsLinks(a)
          /\ KeepsOpen(a) /\ icebox'[a] = icebox[a] /\ writeable'[a] = writeable[a]
      BY <1>5 DEF appVars, recvVars, loopVars, sockVars, KeepsApp, KeepsReceived, KeepsLoop,
                  KeepsLinks, KeepsOpen
    <1>10. /\ mailbox'[a] = Tail(mailbox[a])
           /\ lastMessageNo'[a] = IF Head(mailbox[a]).msg.number = 0 THEN NextNo(a) ELSE lastMessageNo[a]
           /\ outbox'[a] = requeue(outbox[a], Numbered(a))
           /\ writing'[a] = writeable[a]
      BY <1>5 DEF TypeOK
    <1>11. /\ mailbox[a] # <<>>
           /\ Head(mailbox[a]).ev = "queueMessage"
           /\ running[a] = "idle" /\ ~writing[a]
      BY DEF QueueMessage, Takes, Idle
    <1> QED  BY <1>7, <1>8, <1>9, <1>10, <1>11

LEMMA OnWriteableDoes ==
    ASSUME TypeOK, NEW a \in Peers, OnWriteable(a)
    PROVE  /\ TypeOK' /\ Untouched(Other(a))
           /\ KeepsApp(a) /\ KeepsQueues(a) /\ KeepsReceived(a) /\ KeepsLoop(a)
           /\ KeepsLinks(a) /\ KeepsOpen(a)
           /\ mailbox'[a] = Tail(mailbox[a])
           /\ writeable'[a] = TRUE
           /\ writing'[a] = (outbox[a] # <<>>)
           /\ mailbox[a] # <<>>
           /\ Head(mailbox[a]).ev = "onWebSocketWriteable"
           /\ running[a] = "idle" /\ ~writing[a]
    <1>1. mailbox[a] \in Seq(Events) /\ mailbox[a] # <<>>
      BY Typed DEF OnWriteable, Takes
    <1>2. Tail(mailbox[a]) \in Seq(Events)
      BY <1>1, Shorter
    <1>3. /\ mailbox' = [mailbox EXCEPT ![a] = Tail(mailbox[a])]
          /\ writeable' = [writeable EXCEPT ![a] = TRUE]
          /\ writing' = [writing EXCEPT ![a] = (outbox[a] # <<>>)]
          /\ UNCHANGED <<outbox, icebox, lastMessageNo, closingWithError, appVars, recvVars,
                         loopVars, sockVars>>
      BY DEF OnWriteable, Takes, Idle, writeToWebSocket, TypeOK
    <1>4. /\ Tail(mailbox[a]) \in Seq(Events) /\ (outbox[a] # <<>>) \in BOOLEAN
      BY <1>2
    <1>5. TypeOK'
      BY <1>3, <1>4 DEF TypeOK, appVars, recvVars, loopVars, sockVars
    <1>6. Untouched(Other(a))
      <2>1. Other(a) \in Peers /\ Other(a) # a
        BY TwoPeers
      <2> QED  BY <1>3, <2>1 DEF TypeOK, appVars, recvVars, loopVars, sockVars, Untouched,
                                 KeepsApp, KeepsMail, KeepsQueues, KeepsReceived, KeepsLoop,
                                 KeepsWriting, KeepsLinks, KeepsOpen
    <1>7. /\ KeepsApp(a) /\ KeepsQueues(a) /\ KeepsReceived(a) /\ KeepsLoop(a)
          /\ KeepsLinks(a) /\ KeepsOpen(a)
      BY <1>3 DEF appVars, recvVars, loopVars, sockVars, KeepsApp, KeepsQueues,
                  KeepsReceived, KeepsLoop, KeepsLinks, KeepsOpen
    <1>8. /\ mailbox'[a] = Tail(mailbox[a])
          /\ writeable'[a] = TRUE
          /\ writing'[a] = (outbox[a] # <<>>)
      BY <1>3 DEF TypeOK
    <1>9. /\ mailbox[a] # <<>>
          /\ Head(mailbox[a]).ev = "onWebSocketWriteable"
          /\ running[a] = "idle" /\ ~writing[a]
      BY DEF OnWriteable, Takes, Idle
    <1> QED  BY <1>5, <1>6, <1>7, <1>8, <1>9

\* _onWebSocketMessages, when there is nothing to do ...
LEMMA OnMessagesDrops ==
    ASSUME TypeOK, NEW a \in Peers, OnMessages(a), incoming[a] = <<>> \/ closingWithError[a] # "none"
    PROVE  /\ TypeOK' /\ Untouched(Other(a))
           /\ KeepsApp(a) /\ KeepsQueues(a) /\ KeepsReceived(a) /\ KeepsLoop(a)
           /\ KeepsWriting(a) /\ KeepsOpen(a) /\ wire'[a] = wire[a]
           /\ buffered'[a] = buffered[a]
           /\ mailbox'[a] = Tail(mailbox[a])
           /\ incoming'[a] = <<>>
           /\ mailbox[a] # <<>>
           /\ Head(mailbox[a]).ev = "onWebSocketMessages"
           /\ running[a] = "idle" /\ ~writing[a]
    <1>1. mailbox[a] \in Seq(Events) /\ mailbox[a] # <<>>
      BY Typed DEF OnMessages, Takes
    <1>2. Tail(mailbox[a]) \in Seq(Events)
      BY <1>1, Shorter
    <1>3. /\ mailbox' = [mailbox EXCEPT ![a] = Tail(mailbox[a])]
          /\ incoming' = [incoming EXCEPT ![a] = <<>>]
          /\ UNCHANGED <<wire, buffered, closeSent, socket, closingWithError, appVars,
                         sendVars, recvVars, loopVars>>
      BY DEF OnMessages, Takes, Idle
    <1>4. /\ Tail(mailbox[a]) \in Seq(Events) /\ <<>> \in Seq(Frames)
      BY <1>2
    <1>5. TypeOK'
      BY <1>3, <1>4 DEF TypeOK, appVars, sendVars, recvVars, loopVars
    <1>6. Untouched(Other(a))
      <2>1. Other(a) \in Peers /\ Other(a) # a
        BY TwoPeers
      <2> QED  BY <1>3, <2>1 DEF TypeOK, appVars, sendVars, recvVars, loopVars, Untouched,
                                 KeepsApp, KeepsMail, KeepsQueues, KeepsReceived, KeepsLoop,
                                 KeepsWriting, KeepsLinks, KeepsOpen
    <1>7. /\ KeepsApp(a) /\ KeepsQueues(a) /\ KeepsReceived(a) /\ KeepsLoop(a)
          /\ KeepsWriting(a) /\ KeepsOpen(a) /\ wire'[a] = wire[a]
          /\ buffered'[a] = buffered[a]
      BY <1>3 DEF appVars, sendVars, recvVars, loopVars, KeepsApp, KeepsQueues,
                  KeepsReceived, KeepsLoop, KeepsWriting, KeepsOpen
    <1>8. /\ mailbox'[a] = Tail(mailbox[a])
          /\ incoming'[a] = <<>>
      BY <1>3 DEF TypeOK
    <1>9. /\ mailbox[a] # <<>>
          /\ Head(mailbox[a]).ev = "onWebSocketMessages"
          /\ running[a] = "idle" /\ ~writing[a]
      BY DEF OnMessages, Takes, Idle
    <1> QED  BY <1>5, <1>6, <1>7, <1>8, <1>9

\* ... and when there is.
LEMMA OnMessagesPops ==
    ASSUME TypeOK, NEW a \in Peers, OnMessages(a), incoming[a] # <<>>, closingWithError[a] = "none"
    PROVE  /\ TypeOK' /\ Untouched(Other(a))
           /\ KeepsApp(a) /\ KeepsQueues(a) /\ KeepsReceived(a) /\ KeepsWriting(a)
           /\ KeepsOpen(a) /\ wire'[a] = wire[a] /\ buffered'[a] = buffered[a]
           /\ mailbox'[a] = Tail(mailbox[a])
           /\ incoming'[a] = <<>>
           /\ batch'[a] = incoming[a]
           /\ running'[a] = "onWebSocketMessages"
           /\ mailbox[a] # <<>>
           /\ Head(mailbox[a]).ev = "onWebSocketMessages"
           /\ running[a] = "idle" /\ ~writing[a]
    <1>1. mailbox[a] \in Seq(Events) /\ mailbox[a] # <<>>
      BY Typed DEF OnMessages, Takes
    <1>2. Tail(mailbox[a]) \in Seq(Events)
      BY <1>1, Shorter
    <1>3. /\ mailbox' = [mailbox EXCEPT ![a] = Tail(mailbox[a])]
          /\ incoming' = [incoming EXCEPT ![a] = <<>>]
          /\ batch' = [batch EXCEPT ![a] = incoming[a]]
          /\ running' = [running EXCEPT ![a] = "onWebSocketMessages"]
          /\ UNCHANGED <<wire, buffered, closeSent, socket, closingWithError, appVars,
                         sendVars, recvVars>>
      BY DEF OnMessages, Takes, Idle
    <1>4. /\ Tail(mailbox[a]) \in Seq(Events) /\ <<>> \in Seq(Frames)
          /\ incoming[a] \in Seq(Frames)
      BY <1>2, Typed
    <1>5. TypeOK'
      BY <1>3, <1>4 DEF TypeOK, appVars, sendVars, recvVars
    <1>6. Untouched(Other(a))
      <2>1. Other(a) \in Peers /\ Other(a) # a
        BY TwoPeers
      <2> QED  BY <1>3, <2>1 DEF TypeOK, appVars, sendVars, recvVars, Untouched, KeepsApp,
                                 KeepsMail, KeepsQueues, KeepsReceived, KeepsLoop,
                                 KeepsWriting, KeepsLinks, KeepsOpen
    <1>7. /\ KeepsApp(a) /\ KeepsQueues(a) /\ KeepsReceived(a) /\ KeepsWriting(a)
          /\ KeepsOpen(a) /\ wire'[a] = wire[a] /\ buffered'[a] = buffered[a]
      BY <1>3 DEF appVars, sendVars, recvVars, KeepsApp, KeepsQueues, KeepsReceived,
                  KeepsWriting, KeepsOpen
    <1>8. /\ mailbox'[a] = Tail(mailbox[a])
          /\ incoming'[a] = <<>>
          /\ batch'[a] = incoming[a]
          /\ running'[a] = "onWebSocketMessages"
      BY <1>3 DEF TypeOK
    <1>9. /\ mailbox[a] # <<>>
          /\ Head(mailbox[a]).ev = "onWebSocketMessages"
          /\ running[a] = "idle" /\ ~writing[a]
      BY DEF OnMessages, Takes, Idle
    <1> QED  BY <1>5, <1>6, <1>7, <1>8, <1>9

LEMMA OnCloseDoes ==
    ASSUME TypeOK, NEW a \in Peers, OnClose(a)
    PROVE  /\ TypeOK' /\ Untouched(Other(a))
           /\ KeepsApp(a) /\ KeepsQueues(a) /\ KeepsReceived(a) /\ KeepsLoop(a)
           /\ KeepsWriting(a) /\ KeepsLinks(a) /\ socket'[a] = socket[a]
           /\ closingWithError'[a] = closingWithError[a]
           /\ mailbox'[a] = Tail(mailbox[a])
           /\ closeSent'[a] = (closeSent[a] \/ (socket[a] # "gone" /\ closingWithError[a] = "none"))
           /\ mailbox[a] # <<>>
           /\ Head(mailbox[a]).ev = "close"
           /\ running[a] = "idle" /\ ~writing[a]
    <1>1. mailbox[a] \in Seq(Events) /\ mailbox[a] # <<>>
      BY Typed DEF OnClose, Takes
    <1>2. Tail(mailbox[a]) \in Seq(Events)
      BY <1>1, Shorter
    <1>3. /\ mailbox' = [mailbox EXCEPT ![a] = Tail(mailbox[a])]
          /\ closeSent' = [closeSent EXCEPT ![a] = (closeSent[a] \/ (socket[a] # "gone" /\ closingWithError[a] = "none"))]
          /\ UNCHANGED <<incoming, wire, buffered, socket, closingWithError, appVars,
                         sendVars, recvVars, loopVars>>
      BY DEF OnClose, Takes, Idle
    <1>4. /\ Tail(mailbox[a]) \in Seq(Events)
          /\ (closeSent[a] \/ (socket[a] # "gone" /\ closingWithError[a] = "none")) \in BOOLEAN
      BY <1>2
    <1>5. TypeOK'
      BY <1>3, <1>4 DEF TypeOK, appVars, sendVars, recvVars, loopVars
    <1>6. Untouched(Other(a))
      <2>1. Other(a) \in Peers /\ Other(a) # a
        BY TwoPeers
      <2> QED  BY <1>3, <2>1 DEF TypeOK, appVars, sendVars, recvVars, loopVars, Untouched,
                                 KeepsApp, KeepsMail, KeepsQueues, KeepsReceived, KeepsLoop,
                                 KeepsWriting, KeepsLinks, KeepsOpen
    <1>7. /\ KeepsApp(a) /\ KeepsQueues(a) /\ KeepsReceived(a) /\ KeepsLoop(a)
          /\ KeepsWriting(a) /\ KeepsLinks(a) /\ socket'[a] = socket[a]
          /\ closingWithError'[a] = closingWithError[a]
      BY <1>3 DEF appVars, sendVars, recvVars, loopVars, KeepsApp, KeepsQueues,
                  KeepsReceived, KeepsLoop, KeepsWriting, KeepsLinks
    <1>8. /\ mailbox'[a] = Tail(mailbox[a])
          /\ closeSent'[a] = (closeSent[a] \/ (socket[a] # "gone" /\ closingWithError[a] = "none"))
      BY <1>3 DEF TypeOK
    <1>9. /\ mailbox[a] # <<>>
          /\ Head(mailbox[a]).ev = "close"
          /\ running[a] = "idle" /\ ~writing[a]
      BY DEF OnClose, Takes, Idle
    <1> QED  BY <1>5, <1>6, <1>7, <1>8, <1>9

LEMMA OnClosedDoes ==
    ASSUME TypeOK, NEW a \in Peers, OnClosed(a)
    PROVE  /\ TypeOK' /\ Untouched(Other(a))
           /\ KeepsApp(a) /\ KeepsQueues(a) /\ KeepsReceived(a) /\ KeepsWriting(a)
           /\ KeepsOpen(a) /\ wire'[a] = wire[a] /\ buffered'[a] = buffered[a]
           /\ mailbox'[a] = Tail(mailbox[a])
           /\ incoming'[a] = <<>>
           /\ batch'[a] = IF closingWithError[a] = "none" THEN incoming[a] ELSE <<>>
           /\ running'[a] = "closed"
           /\ mailbox[a] # <<>>
           /\ Head(mailbox[a]).ev = "closed"
           /\ running[a] = "idle" /\ ~writing[a]
    <1>1. mailbox[a] \in Seq(Events) /\ mailbox[a] # <<>>
      BY Typed DEF OnClosed, Takes
    <1>2. Tail(mailbox[a]) \in Seq(Events)
      BY <1>1, Shorter
    <1>3. /\ mailbox' = [mailbox EXCEPT ![a] = Tail(mailbox[a])]
          /\ incoming' = [incoming EXCEPT ![a] = <<>>]
          /\ batch' = [batch EXCEPT ![a] = IF closingWithError[a] = "none" THEN incoming[a] ELSE <<>>]
          /\ running' = [running EXCEPT ![a] = "closed"]
          /\ UNCHANGED <<wire, buffered, closeSent, socket, closingWithError, appVars,
                         sendVars, recvVars>>
      BY DEF OnClosed, Takes, Idle
    <1>4. /\ Tail(mailbox[a]) \in Seq(Events) /\ <<>> \in Seq(Frames)
          /\ (IF closingWithError[a] = "none" THEN incoming[a] ELSE <<>>) \in Seq(Frames)
      BY <1>2, Typed
    <1>5. TypeOK'
      BY <1>3, <1>4 DEF TypeOK, appVars, sendVars, recvVars
    <1>6. Untouched(Other(a))
      <2>1. Other(a) \in Peers /\ Other(a) # a
        BY TwoPeers
      <2> QED  BY <1>3, <2>1 DEF TypeOK, appVars, sendVars, recvVars, Untouched, KeepsApp,
                                 KeepsMail, KeepsQueues, KeepsReceived, KeepsLoop,
                                 KeepsWriting, KeepsLinks, KeepsOpen
    <1>7. /\ KeepsApp(a) /\ KeepsQueues(a) /\ KeepsReceived(a) /\ KeepsWriting(a)
          /\ KeepsOpen(a) /\ wire'[a] = wire[a] /\ buffered'[a] = buffered[a]
      BY <1>3 DEF appVars, sendVars, recvVars, KeepsApp, KeepsQueues, KeepsReceived,
                  KeepsWriting, KeepsOpen
    <1>8. /\ mailbox'[a] = Tail(mailbox[a])
          /\ incoming'[a] = <<>>
          /\ batch'[a] = IF closingWithError[a] = "none" THEN incoming[a] ELSE <<>>
          /\ running'[a] = "closed"
      BY <1>3 DEF TypeOK
    <1>9. /\ mailbox[a] # <<>>
          /\ Head(mailbox[a]).ev = "closed"
          /\ running[a] = "idle" /\ ~writing[a]
      BY DEF OnClosed, Takes, Idle
    <1> QED  BY <1>5, <1>6, <1>7, <1>8, <1>9

LEMMA FinishClosedDoes ==
    ASSUME TypeOK, NEW a \in Peers, FinishClosed(a)
    PROVE  /\ TypeOK' /\ Untouched(Other(a))
           /\ KeepsMail(a) /\ KeepsWriting(a) /\ KeepsLinks(a)
           /\ toRespond'[a] = toRespond[a] /\ lastMessageNo'[a] = lastMessageNo[a]
           /\ numReceived'[a] = numReceived[a] /\ batch'[a] = batch[a]
           /\ closeSent'[a] = closeSent[a] /\ closingWithError'[a] = closingWithError[a]
           /\ running'[a] = "idle"
           /\ socket'[a] = "gone"
           /\ progress'[a] = Ended(a, Cancelled(a), "disconnected")
           /\ outbox'[a] = <<>>
           /\ icebox'[a] = <<>>
           /\ pendingRequests'[a] = <<>>
           /\ pendingResponses'[a] = <<>>
           /\ running[a] = "closed" /\ batch[a] = <<>> /\ ~writing[a]

    <1>1. /\ running' = [running EXCEPT ![a] = "idle"]
          /\ socket' = [socket EXCEPT ![a] = "gone"]
          /\ progress' = [progress EXCEPT ![a] = Ended(a, Cancelled(a), "disconnected")]
          /\ outbox' = [outbox EXCEPT ![a] = <<>>]
          /\ icebox' = [icebox EXCEPT ![a] = <<>>]
          /\ pendingRequests' = [pendingRequests EXCEPT ![a] = <<>>]
          /\ pendingResponses' = [pendingResponses EXCEPT ![a] = <<>>]
          /\ UNCHANGED <<toRespond, writeable, writing, lastMessageNo, numReceived, batch,
                         incoming, wire, buffered, closeSent, mailbox, closingWithError>>
      BY DEF FinishClosed, SetProgress
    <1>2. /\ <<>> \in Seq(Messages) /\ IsPending(<<>>)
          /\ Ended(a, Cancelled(a), "disconnected") \in Seq(Requests)
      BY EndedIs DEF IsPending
    <1>3. TypeOK'
      BY <1>1, <1>2 DEF TypeOK
    <1>4. Untouched(Other(a))
      <2>1. Other(a) \in Peers /\ Other(a) # a
        BY TwoPeers
      <2> QED  BY <1>1, <2>1 DEF TypeOK, Untouched, KeepsApp, KeepsMail, KeepsQueues,
                                 KeepsReceived, KeepsLoop, KeepsWriting, KeepsLinks,
                                 KeepsOpen
    <1>5. /\ KeepsMail(a) /\ KeepsWriting(a) /\ KeepsLinks(a)
          /\ toRespond'[a] = toRespond[a] /\ lastMessageNo'[a] = lastMessageNo[a]
          /\ numReceived'[a] = numReceived[a] /\ batch'[a] = batch[a]
          /\ closeSent'[a] = closeSent[a] /\ closingWithError'[a] = closingWithError[a]
      BY <1>1 DEF KeepsMail, KeepsWriting, KeepsLinks
    <1>6. /\ running'[a] = "idle"
          /\ socket'[a] = "gone"
          /\ progress'[a] = Ended(a, Cancelled(a), "disconnected")
          /\ outbox'[a] = <<>>
          /\ icebox'[a] = <<>>
          /\ pendingRequests'[a] = <<>>
          /\ pendingResponses'[a] = <<>>
      BY <1>1 DEF TypeOK
    <1>7. /\ running[a] = "closed" /\ batch[a] = <<>> /\ ~writing[a]
      BY DEF FinishClosed, SetProgress
    <1> QED  BY <1>3, <1>4, <1>5, <1>6, <1>7

LEMMA ReceivedCloseDoes ==
    ASSUME TypeOK, NEW a \in Peers, ReceivedClose(a)
    PROVE  /\ TypeOK' /\ Untouched(Other(a))
           /\ KeepsApp(a) /\ KeepsMail(a) /\ KeepsQueues(a) /\ KeepsReceived(a)
           /\ KeepsLoop(a) /\ KeepsWriting(a) /\ KeepsLinks(a) /\ socket'[a] = socket[a]
           /\ closingWithError'[a] = closingWithError[a]
           /\ closeSent'[a] = TRUE

    <1>1. /\ closeSent' = [closeSent EXCEPT ![a] = TRUE]
          /\ UNCHANGED <<incoming, wire, buffered, socket, mailbox, closingWithError,
                         appVars, sendVars, recvVars, loopVars>>
      BY DEF ReceivedClose
    <1>2. TypeOK'
      BY <1>1 DEF TypeOK, appVars, sendVars, recvVars, loopVars
    <1>3. Untouched(Other(a))
      <2>1. Other(a) \in Peers /\ Other(a) # a
        BY TwoPeers
      <2> QED  BY <1>1, <2>1 DEF TypeOK, appVars, sendVars, recvVars, loopVars, Untouched,
                                 KeepsApp, KeepsMail, KeepsQueues, KeepsReceived, KeepsLoop,
                                 KeepsWriting, KeepsLinks, KeepsOpen
    <1>4. /\ KeepsApp(a) /\ KeepsMail(a) /\ KeepsQueues(a) /\ KeepsReceived(a)
          /\ KeepsLoop(a) /\ KeepsWriting(a) /\ KeepsLinks(a) /\ socket'[a] = socket[a]
          /\ closingWithError'[a] = closingWithError[a]
      BY <1>1 DEF appVars, sendVars, recvVars, loopVars, KeepsApp, KeepsMail, KeepsQueues,
                  KeepsReceived, KeepsLoop, KeepsWriting, KeepsLinks
    <1>5. /\ closeSent'[a] = TRUE
      BY <1>1 DEF TypeOK
    <1> QED  BY <1>2, <1>3, <1>4, <1>5

\* The frame that is handled, and what LoopOn makes of `running'.
Frame(p) == Head(batch[p])
RunsOn(p, frames) == IF frames = <<>> /\ running[p] = "onWebSocketMessages" THEN "idle" ELSE running[p]

\* What is known of the frame, and of the message that it is added to.
LEMMA FrameIs ==
    ASSUME TypeOK, NEW a \in Peers, batch[a] # <<>>
    PROVE  /\ Frame(a) \in Frames /\ Tail(batch[a]) \in Seq(Frames) /\ Frame(a).number \in Nat \ {0}
           /\ Frame(a).more \in BOOLEAN /\ Frame(a).noReply \in BOOLEAN /\ Frame(a).count \in Nat
           /\ RunsOn(a, Tail(batch[a])) \in {"idle", "onWebSocketMessages", "closed"}
           /\ RunsOn(a, <<>>) \in {"idle", "onWebSocketMessages", "closed"}
    <1>1. batch[a] \in Seq(Frames) /\ running[a] \in {"idle", "onWebSocketMessages", "closed"}
      BY DEF TypeOK
    <1>2. Frame(a) \in Frames /\ Tail(batch[a]) \in Seq(Frames)
      BY <1>1, Shorter DEF Frame
    <1> QED  BY <1>1, <1>2 DEF Frames, RunsOn

LEMMA IncomingIs ==
    ASSUME TypeOK, NEW a \in Peers, batch[a] # <<>>
    PROVE  /\ IncomingRequest(a, Frame(a)) \in Incomings
           /\ Frame(a).number \in DOMAIN pendingRequests[a] =>
                 IncomingRequest(a, Frame(a)) = pendingRequests[a][Frame(a).number]
           /\ Frame(a).number \notin DOMAIN pendingRequests[a] =>
                 IncomingRequest(a, Frame(a)).noReply = Frame(a).noReply
           /\ Frame(a).number \in DOMAIN pendingResponses[a] =>
                 pendingResponses[a][Frame(a).number] \in Incomings
    <1>1. Frame(a).noReply \in BOOLEAN
      BY FrameIs
    <1>2. NewIncoming(0, Frame(a).noReply) \in Incomings /\ NewIncoming(0, Frame(a).noReply).noReply = Frame(a).noReply
      BY <1>1, NewIncomings
    <1> QED  BY <1>2, Typed DEF IncomingRequest, IsPending

LEMMA Acknowledges ==
    ASSUME TypeOK, NEW a \in Peers, NEW in \in Incomings, NEW f \in Frames, NEW type \in {"ACKREQ", "ACKRES"}
    PROVE  mailbox[a] \o Acknowledgement(in, f, type) \in Seq(Events)
    <1>1. mailbox[a] \in Seq(Events)
      BY Typed
    <1>2. CASE mailbox[a] \o Acknowledgement(in, f, type) = mailbox[a]
      BY <1>1, <1>2
    <1>3. CASE \E m \in Messages :
                  /\ isAck(m) /\ m.number > 0 /\ Queued(m) \in Events
                  /\ mailbox[a] \o Acknowledgement(in, f, type) = Append(mailbox[a], Queued(m))
      BY <1>1, <1>3, AppendProperties
    <1> QED  BY <1>1, <1>2, <1>3, AckPosted

LEMMA RequestFrameDoes ==
    ASSUME TypeOK, NEW a \in Peers, RequestFrame(a), IsExpected(a, Frame(a).number)
    PROVE  /\ TypeOK' /\ Untouched(Other(a))
           /\ KeepsQueues(a) /\ KeepsWriting(a) /\ KeepsLinks(a) /\ KeepsOpen(a)
           /\ progress'[a] = progress[a] /\ pendingResponses'[a] = pendingResponses[a]
           /\ mailbox'[a] = mailbox[a] \o Acknowledgement(IncomingRequest(a, Frame(a)), Frame(a), "ACKREQ")
           /\ numReceived'[a] = IF Frame(a).number \in DOMAIN pendingRequests[a] THEN numReceived[a] ELSE Frame(a).number
           /\ pendingRequests'[a] = IF Frame(a).more THEN With(pendingRequests[a], Frame(a).number, Counted(IncomingRequest(a, Frame(a)), Frame(a))) ELSE Without(pendingRequests[a], Frame(a).number)
           /\ toRespond'[a] = IF Frame(a).more \/ IncomingRequest(a, Frame(a)).noReply THEN toRespond[a] ELSE toRespond[a] \union {Frame(a).number}
           /\ batch'[a] = Tail(batch[a])
           /\ running'[a] = RunsOn(a, Tail(batch[a]))
           /\ batch[a] # <<>> /\ ~writing[a] /\ Frame(a).type \in {"REQ"}
    <1>1. batch[a] # <<>>
      BY DEF RequestFrame, Handles
    <1>2. /\ Tail(batch[a]) \in Seq(Frames) /\ <<>> \in Seq(Frames)
          /\ RunsOn(a, Tail(batch[a])) \in {"idle", "onWebSocketMessages", "closed"}
          /\ RunsOn(a, <<>>) \in {"idle", "onWebSocketMessages", "closed"}
      BY <1>1, FrameIs
    <1>3. /\ Frame(a) \in Frames /\ Frame(a).number \in Nat \ {0} /\ IncomingRequest(a, Frame(a)) \in Incomings
          /\ toRespond[a] \in SUBSET (Nat \ {0}) /\ numReceived[a] \in Nat /\ IsPending(pendingRequests[a])
      BY <1>1, FrameIs, IncomingIs, Typed
    <1>4. Counted(IncomingRequest(a, Frame(a)), Frame(a)) \in Incomings
      BY <1>3, CountedIs
    <1>5. /\ IsPending(With(pendingRequests[a], Frame(a).number, Counted(IncomingRequest(a, Frame(a)), Frame(a))))
          /\ IsPending(Without(pendingRequests[a], Frame(a).number))
      BY <1>3, <1>4, PendingMaps
    <1>6. mailbox[a] \o Acknowledgement(IncomingRequest(a, Frame(a)), Frame(a), "ACKREQ") \in Seq(Events)
      BY <1>3, Acknowledges
    <1>7. /\ mailbox' = [mailbox EXCEPT ![a] = mailbox[a] \o Acknowledgement(IncomingRequest(a, Frame(a)), Frame(a), "ACKREQ")]
          /\ numReceived' = [numReceived EXCEPT ![a] = IF Frame(a).number \in DOMAIN pendingRequests[a] THEN numReceived[a] ELSE Frame(a).number]
          /\ pendingRequests' = [pendingRequests EXCEPT ![a] = IF Frame(a).more THEN With(pendingRequests[a], Frame(a).number, Counted(IncomingRequest(a, Frame(a)), Frame(a))) ELSE Without(pendingRequests[a], Frame(a).number)]
          /\ toRespond' = [toRespond EXCEPT ![a] = IF Frame(a).more \/ IncomingRequest(a, Frame(a)).noReply THEN toRespond[a] ELSE toRespond[a] \union {Frame(a).number}]
          /\ batch' = [batch EXCEPT ![a] = Tail(batch[a])]
          /\ running' = [running EXCEPT ![a] = RunsOn(a, Tail(batch[a]))]
          /\ UNCHANGED <<progress, pendingResponses, closingWithError, sendVars, sockVars>>
      BY DEF RequestFrame, BeginRequest, handleRequestReceived, LoopOn, RunsOn, Frame, Post
    <1>8. /\ mailbox[a] \o Acknowledgement(IncomingRequest(a, Frame(a)), Frame(a), "ACKREQ") \in Seq(Events)
          /\ (IF Frame(a).number \in DOMAIN pendingRequests[a] THEN numReceived[a] ELSE Frame(a).number) \in Nat
          /\ IsPending(IF Frame(a).more THEN With(pendingRequests[a], Frame(a).number, Counted(IncomingRequest(a, Frame(a)), Frame(a))) ELSE Without(pendingRequests[a], Frame(a).number))
          /\ (IF Frame(a).more \/ IncomingRequest(a, Frame(a)).noReply THEN toRespond[a] ELSE toRespond[a] \union {Frame(a).number}) \in SUBSET (Nat \ {0})
          /\ Tail(batch[a]) \in Seq(Frames)
          /\ RunsOn(a, Tail(batch[a])) \in {"idle", "onWebSocketMessages", "closed"}
      BY <1>2, <1>3, <1>5, <1>6
    <1>9. TypeOK'
      BY <1>7, <1>8 DEF TypeOK, sendVars, sockVars
    <1>10. Untouched(Other(a))
      <2>1. Other(a) \in Peers /\ Other(a) # a
        BY TwoPeers
      <2> QED  BY <1>7, <2>1 DEF TypeOK, sendVars, sockVars, Untouched, KeepsApp, KeepsMail,
                                 KeepsQueues, KeepsReceived, KeepsLoop, KeepsWriting,
                                 KeepsLinks, KeepsOpen
    <1>11. /\ KeepsQueues(a) /\ KeepsWriting(a) /\ KeepsLinks(a) /\ KeepsOpen(a)
           /\ progress'[a] = progress[a] /\ pendingResponses'[a] = pendingResponses[a]
      BY <1>7 DEF sendVars, sockVars, KeepsQueues, KeepsWriting, KeepsLinks, KeepsOpen
    <1>12. /\ mailbox'[a] = mailbox[a] \o Acknowledgement(IncomingRequest(a, Frame(a)), Frame(a), "ACKREQ")
           /\ numReceived'[a] = IF Frame(a).number \in DOMAIN pendingRequests[a] THEN numReceived[a] ELSE Frame(a).number
           /\ pendingRequests'[a] = IF Frame(a).more THEN With(pendingRequests[a], Frame(a).number, Counted(IncomingRequest(a, Frame(a)), Frame(a))) ELSE Without(pendingRequests[a], Frame(a).number)
           /\ toRespond'[a] = IF Frame(a).more \/ IncomingRequest(a, Frame(a)).noReply THEN toRespond[a] ELSE toRespond[a] \union {Frame(a).number}
           /\ batch'[a] = Tail(batch[a])
           /\ running'[a] = RunsOn(a, Tail(batch[a]))
      BY <1>7 DEF TypeOK
    <1>13. /\ batch[a] # <<>> /\ ~writing[a] /\ Frame(a).type \in {"REQ"}
      BY DEF RequestFrame, Handles, Frame
    <1> QED  BY <1>9, <1>10, <1>11, <1>12, <1>13

LEMMA RequestFrameThrowsDoes ==
    ASSUME TypeOK, NEW a \in Peers, RequestFrameThrows(a)
    PROVE  /\ TypeOK' /\ Untouched(Other(a))
           /\ KeepsApp(a) /\ KeepsQueues(a) /\ KeepsWriting(a) /\ KeepsLinks(a)
           /\ pendingResponses'[a] = pendingResponses[a] /\ socket'[a] = socket[a]
           /\ mailbox'[a] = mailbox[a] \o Acknowledgement(IncomingRequest(a, Frame(a)), Frame(a), "ACKREQ")
           /\ numReceived'[a] = IF Frame(a).number \in DOMAIN pendingRequests[a] THEN numReceived[a] ELSE Frame(a).number
           /\ pendingRequests'[a] = With(pendingRequests[a], Frame(a).number, Counted(IncomingRequest(a, Frame(a)), Frame(a)))
           /\ batch'[a] = <<>>
           /\ running'[a] = RunsOn(a, <<>>)
           /\ closingWithError'[a] = "exception"
           /\ closeSent'[a] = TRUE
           /\ batch[a] # <<>> /\ ~writing[a] /\ Frame(a).type \in {"REQ"}
           /\ IsExpected(a, Frame(a).number)
    <1>1. batch[a] # <<>>
      BY DEF RequestFrameThrows, Handles
    <1>2. /\ Tail(batch[a]) \in Seq(Frames) /\ <<>> \in Seq(Frames)
          /\ RunsOn(a, Tail(batch[a])) \in {"idle", "onWebSocketMessages", "closed"}
          /\ RunsOn(a, <<>>) \in {"idle", "onWebSocketMessages", "closed"}
      BY <1>1, FrameIs
    <1>3. /\ Frame(a) \in Frames /\ Frame(a).number \in Nat \ {0} /\ IncomingRequest(a, Frame(a)) \in Incomings
          /\ toRespond[a] \in SUBSET (Nat \ {0}) /\ numReceived[a] \in Nat /\ IsPending(pendingRequests[a])
      BY <1>1, FrameIs, IncomingIs, Typed
    <1>4. Counted(IncomingRequest(a, Frame(a)), Frame(a)) \in Incomings
      BY <1>3, CountedIs
    <1>5. /\ IsPending(With(pendingRequests[a], Frame(a).number, Counted(IncomingRequest(a, Frame(a)), Frame(a))))
          /\ IsPending(Without(pendingRequests[a], Frame(a).number))
      BY <1>3, <1>4, PendingMaps
    <1>6. mailbox[a] \o Acknowledgement(IncomingRequest(a, Frame(a)), Frame(a), "ACKREQ") \in Seq(Events)
      BY <1>3, Acknowledges
    <1>7. /\ mailbox' = [mailbox EXCEPT ![a] = mailbox[a] \o Acknowledgement(IncomingRequest(a, Frame(a)), Frame(a), "ACKREQ")]
          /\ numReceived' = [numReceived EXCEPT ![a] = IF Frame(a).number \in DOMAIN pendingRequests[a] THEN numReceived[a] ELSE Frame(a).number]
          /\ pendingRequests' = [pendingRequests EXCEPT ![a] = With(pendingRequests[a], Frame(a).number, Counted(IncomingRequest(a, Frame(a)), Frame(a)))]
          /\ batch' = [batch EXCEPT ![a] = <<>>]
          /\ running' = [running EXCEPT ![a] = RunsOn(a, <<>>)]
          /\ closingWithError' = [closingWithError EXCEPT ![a] = "exception"]
          /\ closeSent' = [closeSent EXCEPT ![a] = TRUE]
          /\ UNCHANGED <<pendingResponses, incoming, wire, buffered, socket, appVars,
                         sendVars>>
      BY DEF RequestFrameThrows, BeginRequest, CloseWithError, LoopOn, RunsOn, Frame, Post
    <1>8. /\ mailbox[a] \o Acknowledgement(IncomingRequest(a, Frame(a)), Frame(a), "ACKREQ") \in Seq(Events)
          /\ (IF Frame(a).number \in DOMAIN pendingRequests[a] THEN numReceived[a] ELSE Frame(a).number) \in Nat
          /\ IsPending(With(pendingRequests[a], Frame(a).number, Counted(IncomingRequest(a, Frame(a)), Frame(a))))
          /\ <<>> \in Seq(Frames)
          /\ RunsOn(a, <<>>) \in {"idle", "onWebSocketMessages", "closed"}
      BY <1>2, <1>3, <1>5, <1>6
    <1>9. TypeOK'
      BY <1>7, <1>8 DEF TypeOK, appVars, sendVars
    <1>10. Untouched(Other(a))
      <2>1. Other(a) \in Peers /\ Other(a) # a
        BY TwoPeers
      <2> QED  BY <1>7, <2>1 DEF TypeOK, appVars, sendVars, Untouched, KeepsApp, KeepsMail,
                                 KeepsQueues, KeepsReceived, KeepsLoop, KeepsWriting,
                                 KeepsLinks, KeepsOpen
    <1>11. /\ KeepsApp(a) /\ KeepsQueues(a) /\ KeepsWriting(a) /\ KeepsLinks(a)
           /\ pendingResponses'[a] = pendingResponses[a] /\ socket'[a] = socket[a]
      BY <1>7 DEF appVars, sendVars, KeepsApp, KeepsQueues, KeepsWriting, KeepsLinks
    <1>12. /\ mailbox'[a] = mailbox[a] \o Acknowledgement(IncomingRequest(a, Frame(a)), Frame(a), "ACKREQ")
           /\ numReceived'[a] = IF Frame(a).number \in DOMAIN pendingRequests[a] THEN numReceived[a] ELSE Frame(a).number
           /\ pendingRequests'[a] = With(pendingRequests[a], Frame(a).number, Counted(IncomingRequest(a, Frame(a)), Frame(a)))
           /\ batch'[a] = <<>>
           /\ running'[a] = RunsOn(a, <<>>)
           /\ closingWithError'[a] = "exception"
           /\ closeSent'[a] = TRUE
      BY <1>7 DEF TypeOK
    <1>13. /\ batch[a] # <<>> /\ ~writing[a] /\ Frame(a).type \in {"REQ"}
           /\ IsExpected(a, Frame(a).number)
      BY DEF RequestFrameThrows, Handles, Frame
    <1> QED  BY <1>9, <1>10, <1>11, <1>12, <1>13

LEMMA ResponseFrameDoes ==
    ASSUME TypeOK, NEW a \in Peers, ResponseFrame(a), IsAwaited(a, Frame(a).number)
    PROVE  /\ TypeOK' /\ Untouched(Other(a))
           /\ KeepsQueues(a) /\ KeepsWriting(a) /\ KeepsLinks(a) /\ KeepsOpen(a)
           /\ toRespond'[a] = toRespond[a] /\ pendingRequests'[a] = pendingRequests[a]
           /\ numReceived'[a] = numReceived[a]
           /\ mailbox'[a] = mailbox[a] \o Acknowledgement(pendingResponses[a][Frame(a).number], Frame(a), "ACKRES")
           /\ pendingResponses'[a] = IF Frame(a).more THEN With(pendingResponses[a], Frame(a).number, Counted(pendingResponses[a][Frame(a).number], Frame(a))) ELSE Without(pendingResponses[a], Frame(a).number)
           /\ progress'[a] = Ended(a, IF Frame(a).more THEN {} ELSE {pendingResponses[a][Frame(a).number].id}, "complete")
           /\ batch'[a] = Tail(batch[a])
           /\ running'[a] = RunsOn(a, Tail(batch[a]))
           /\ batch[a] # <<>> /\ ~writing[a] /\ Frame(a).type \in {"RES", "ERR"}
    <1>1. batch[a] # <<>>
      BY DEF ResponseFrame, Handles
    <1>2. /\ Tail(batch[a]) \in Seq(Frames) /\ <<>> \in Seq(Frames)
          /\ RunsOn(a, Tail(batch[a])) \in {"idle", "onWebSocketMessages", "closed"}
          /\ RunsOn(a, <<>>) \in {"idle", "onWebSocketMessages", "closed"}
      BY <1>1, FrameIs
    <1>3. /\ Frame(a) \in Frames /\ Frame(a).number \in Nat \ {0} /\ IsPending(pendingResponses[a])
          /\ pendingResponses[a][Frame(a).number] \in Incomings
      BY <1>1, FrameIs, IncomingIs, Typed DEF IsAwaited
    <1>4. Counted(pendingResponses[a][Frame(a).number], Frame(a)) \in Incomings
      BY <1>3, CountedIs
    <1>5. /\ IsPending(With(pendingResponses[a], Frame(a).number, Counted(pendingResponses[a][Frame(a).number], Frame(a))))
          /\ IsPending(Without(pendingResponses[a], Frame(a).number))
      BY <1>3, <1>4, PendingMaps
    <1>6. mailbox[a] \o Acknowledgement(pendingResponses[a][Frame(a).number], Frame(a), "ACKRES") \in Seq(Events)
      BY <1>3, Acknowledges
    <1>7. Ended(a, IF Frame(a).more THEN {} ELSE {pendingResponses[a][Frame(a).number].id}, "complete") \in Seq(Requests)
      BY EndedIs
    <1>8. /\ mailbox' = [mailbox EXCEPT ![a] = mailbox[a] \o Acknowledgement(pendingResponses[a][Frame(a).number], Frame(a), "ACKRES")]
          /\ pendingResponses' = [pendingResponses EXCEPT ![a] = IF Frame(a).more THEN With(pendingResponses[a], Frame(a).number, Counted(pendingResponses[a][Frame(a).number], Frame(a))) ELSE Without(pendingResponses[a], Frame(a).number)]
          /\ progress' = [progress EXCEPT ![a] = Ended(a, IF Frame(a).more THEN {} ELSE {pendingResponses[a][Frame(a).number].id}, "complete")]
          /\ batch' = [batch EXCEPT ![a] = Tail(batch[a])]
          /\ running' = [running EXCEPT ![a] = RunsOn(a, Tail(batch[a]))]
          /\ UNCHANGED <<toRespond, pendingRequests, numReceived, closingWithError,
                         sendVars, sockVars>>
      BY DEF ResponseFrame, SetProgress, LoopOn, RunsOn, Frame, Post
    <1>9. /\ mailbox[a] \o Acknowledgement(pendingResponses[a][Frame(a).number], Frame(a), "ACKRES") \in Seq(Events)
          /\ IsPending(IF Frame(a).more THEN With(pendingResponses[a], Frame(a).number, Counted(pendingResponses[a][Frame(a).number], Frame(a))) ELSE Without(pendingResponses[a], Frame(a).number))
          /\ Ended(a, IF Frame(a).more THEN {} ELSE {pendingResponses[a][Frame(a).number].id}, "complete") \in Seq(Requests)
          /\ Tail(batch[a]) \in Seq(Frames)
          /\ RunsOn(a, Tail(batch[a])) \in {"idle", "onWebSocketMessages", "closed"}
      BY <1>2, <1>5, <1>6, <1>7
    <1>10. TypeOK'
      BY <1>8, <1>9 DEF TypeOK, sendVars, sockVars
    <1>11. Untouched(Other(a))
      <2>1. Other(a) \in Peers /\ Other(a) # a
        BY TwoPeers
      <2> QED  BY <1>8, <2>1 DEF TypeOK, sendVars, sockVars, Untouched, KeepsApp, KeepsMail,
                                 KeepsQueues, KeepsReceived, KeepsLoop, KeepsWriting,
                                 KeepsLinks, KeepsOpen
    <1>12. /\ KeepsQueues(a) /\ KeepsWriting(a) /\ KeepsLinks(a) /\ KeepsOpen(a)
           /\ toRespond'[a] = toRespond[a] /\ pendingRequests'[a] = pendingRequests[a]
           /\ numReceived'[a] = numReceived[a]
      BY <1>8 DEF sendVars, sockVars, KeepsQueues, KeepsWriting, KeepsLinks, KeepsOpen
    <1>13. /\ mailbox'[a] = mailbox[a] \o Acknowledgement(pendingResponses[a][Frame(a).number], Frame(a), "ACKRES")
           /\ pendingResponses'[a] = IF Frame(a).more THEN With(pendingResponses[a], Frame(a).number, Counted(pendingResponses[a][Frame(a).number], Frame(a))) ELSE Without(pendingResponses[a], Frame(a).number)
           /\ progress'[a] = Ended(a, IF Frame(a).more THEN {} ELSE {pendingResponses[a][Frame(a).number].id}, "complete")
           /\ batch'[a] = Tail(batch[a])
           /\ running'[a] = RunsOn(a, Tail(batch[a]))
      BY <1>8 DEF TypeOK
    <1>14. /\ batch[a] # <<>> /\ ~writing[a] /\ Frame(a).type \in {"RES", "ERR"}
      BY DEF ResponseFrame, Handles, Frame
    <1> QED  BY <1>10, <1>11, <1>12, <1>13, <1>14

LEMMA ResponseFrameThrowsDoes ==
    ASSUME TypeOK, NEW a \in Peers, ResponseFrameThrows(a)
    PROVE  /\ TypeOK' /\ Untouched(Other(a))
           /\ KeepsApp(a) /\ KeepsQueues(a) /\ KeepsWriting(a) /\ KeepsLinks(a)
           /\ pendingRequests'[a] = pendingRequests[a] /\ numReceived'[a] = numReceived[a]
           /\ socket'[a] = socket[a]
           /\ mailbox'[a] = mailbox[a] \o Acknowledgement(pendingResponses[a][Frame(a).number], Frame(a), "ACKRES")
           /\ pendingResponses'[a] = IF Frame(a).more \/ Frame(a).type = "RES" THEN With(pendingResponses[a], Frame(a).number, Counted(pendingResponses[a][Frame(a).number], Frame(a))) ELSE Without(pendingResponses[a], Frame(a).number)
           /\ batch'[a] = <<>>
           /\ running'[a] = RunsOn(a, <<>>)
           /\ closingWithError'[a] = "exception"
           /\ closeSent'[a] = TRUE
           /\ batch[a] # <<>> /\ ~writing[a] /\ Frame(a).type \in {"RES", "ERR"}
           /\ IsAwaited(a, Frame(a).number) /\ Throwing
    <1>1. batch[a] # <<>>
      BY DEF ResponseFrameThrows, Handles
    <1>2. /\ Tail(batch[a]) \in Seq(Frames) /\ <<>> \in Seq(Frames)
          /\ RunsOn(a, Tail(batch[a])) \in {"idle", "onWebSocketMessages", "closed"}
          /\ RunsOn(a, <<>>) \in {"idle", "onWebSocketMessages", "closed"}
      BY <1>1, FrameIs
    <1>3. /\ Frame(a) \in Frames /\ Frame(a).number \in Nat \ {0} /\ IsPending(pendingResponses[a])
          /\ pendingResponses[a][Frame(a).number] \in Incomings
      <2>1. IsAwaited(a, Frame(a).number)
        BY DEF ResponseFrameThrows, Frame
      <2> QED  BY <1>1, <2>1, FrameIs, IncomingIs, Typed DEF IsAwaited
    <1>4. Counted(pendingResponses[a][Frame(a).number], Frame(a)) \in Incomings
      BY <1>3, CountedIs
    <1>5. /\ IsPending(With(pendingResponses[a], Frame(a).number, Counted(pendingResponses[a][Frame(a).number], Frame(a))))
          /\ IsPending(Without(pendingResponses[a], Frame(a).number))
      BY <1>3, <1>4, PendingMaps
    <1>6. mailbox[a] \o Acknowledgement(pendingResponses[a][Frame(a).number], Frame(a), "ACKRES") \in Seq(Events)
      BY <1>3, Acknowledges
    <1>7. /\ mailbox' = [mailbox EXCEPT ![a] = mailbox[a] \o Acknowledgement(pendingResponses[a][Frame(a).number], Frame(a), "ACKRES")]
          /\ pendingResponses' = [pendingResponses EXCEPT ![a] = IF Frame(a).more \/ Frame(a).type = "RES" THEN With(pendingResponses[a], Frame(a).number, Counted(pendingResponses[a][Frame(a).number], Frame(a))) ELSE Without(pendingResponses[a], Frame(a).number)]
          /\ batch' = [batch EXCEPT ![a] = <<>>]
          /\ running' = [running EXCEPT ![a] = RunsOn(a, <<>>)]
          /\ closingWithError' = [closingWithError EXCEPT ![a] = "exception"]
          /\ closeSent' = [closeSent EXCEPT ![a] = TRUE]
          /\ UNCHANGED <<pendingRequests, numReceived, incoming, wire, buffered, socket,
                         appVars, sendVars>>
      BY DEF ResponseFrameThrows, CloseWithError, LoopOn, RunsOn, Frame, Post
    <1>8. /\ mailbox[a] \o Acknowledgement(pendingResponses[a][Frame(a).number], Frame(a), "ACKRES") \in Seq(Events)
          /\ IsPending(IF Frame(a).more \/ Frame(a).type = "RES" THEN With(pendingResponses[a], Frame(a).number, Counted(pendingResponses[a][Frame(a).number], Frame(a))) ELSE Without(pendingResponses[a], Frame(a).number))
          /\ <<>> \in Seq(Frames)
          /\ RunsOn(a, <<>>) \in {"idle", "onWebSocketMessages", "closed"}
      BY <1>2, <1>5, <1>6
    <1>9. TypeOK'
      BY <1>7, <1>8 DEF TypeOK, appVars, sendVars
    <1>10. Untouched(Other(a))
      <2>1. Other(a) \in Peers /\ Other(a) # a
        BY TwoPeers
      <2> QED  BY <1>7, <2>1 DEF TypeOK, appVars, sendVars, Untouched, KeepsApp, KeepsMail,
                                 KeepsQueues, KeepsReceived, KeepsLoop, KeepsWriting,
                                 KeepsLinks, KeepsOpen
    <1>11. /\ KeepsApp(a) /\ KeepsQueues(a) /\ KeepsWriting(a) /\ KeepsLinks(a)
           /\ pendingRequests'[a] = pendingRequests[a] /\ numReceived'[a] = numReceived[a]
           /\ socket'[a] = socket[a]
      BY <1>7 DEF appVars, sendVars, KeepsApp, KeepsQueues, KeepsWriting, KeepsLinks
    <1>12. /\ mailbox'[a] = mailbox[a] \o Acknowledgement(pendingResponses[a][Frame(a).number], Frame(a), "ACKRES")
           /\ pendingResponses'[a] = IF Frame(a).more \/ Frame(a).type = "RES" THEN With(pendingResponses[a], Frame(a).number, Counted(pendingResponses[a][Frame(a).number], Frame(a))) ELSE Without(pendingResponses[a], Frame(a).number)
           /\ batch'[a] = <<>>
           /\ running'[a] = RunsOn(a, <<>>)
           /\ closingWithError'[a] = "exception"
           /\ closeSent'[a] = TRUE
      BY <1>7 DEF TypeOK
    <1>13. /\ batch[a] # <<>> /\ ~writing[a] /\ Frame(a).type \in {"RES", "ERR"}
           /\ IsAwaited(a, Frame(a).number) /\ Throwing
      BY DEF ResponseFrameThrows, Handles, Frame
    <1> QED  BY <1>9, <1>10, <1>11, <1>12, <1>13

LEMMA AckFrameDoes ==
    ASSUME TypeOK, NEW a \in Peers, AckFrame(a)
    PROVE  /\ TypeOK' /\ Untouched(Other(a))
           /\ KeepsApp(a) /\ KeepsMail(a) /\ KeepsReceived(a) /\ KeepsLinks(a) /\ KeepsOpen(a)
           /\ lastMessageNo'[a] = lastMessageNo[a] /\ writeable'[a] = writeable[a]
           /\ batch'[a] = Tail(batch[a])
           /\ running'[a] = RunsOn(a, Tail(batch[a]))
           /\ batch[a] # <<>> /\ ~writing[a] /\ isAck(Frame(a))
           /\ \/ outbox'[a] = outbox[a] /\ icebox'[a] = icebox[a] /\ writing'[a] = writing[a]
              \/ \E i \in 1..Len(outbox[a]) :
                    /\ outbox'[a] = [outbox[a] EXCEPT ![i] = Acked(outbox[a][i], Frame(a).count)]
                    /\ icebox'[a] = icebox[a] /\ writing'[a] = writing[a]
              \/ \E j \in 1..Len(icebox[a]) :
                    /\ icebox'[a] = [icebox[a] EXCEPT ![j] = Acked(icebox[a][j], Frame(a).count)]
                    /\ outbox'[a] = outbox[a] /\ writing'[a] = writing[a]
              \/ \E j \in 1..Len(icebox[a]) :
                    /\ icebox'[a] = RemoveAt(icebox[a], j)
                    /\ outbox'[a] = requeue(outbox[a], Acked(icebox[a][j], Frame(a).count))
                    /\ writing'[a] = writeable[a]
    <1> DEFINE c == Frame(a).count
               i == findMessage(outbox[a], Frame(a).number, Frame(a).type = "ACKRES")
               j == findMessage(icebox[a], Frame(a).number, Frame(a).type = "ACKRES")
               x == Acked(outbox[a][i], c)
               y == Acked(icebox[a][j], c)
    <1>1. batch[a] # <<>> /\ ~writing[a] /\ isAck(Frame(a))
      BY DEF AckFrame, Handles, Frame, isAck
    <1>2. /\ outbox[a] \in Seq(Messages) /\ icebox[a] \in Seq(Messages) /\ c \in Nat
          /\ Tail(batch[a]) \in Seq(Frames) /\ writing[a] \in BOOLEAN /\ writeable[a] \in BOOLEAN
          /\ RunsOn(a, Tail(batch[a])) \in {"idle", "onWebSocketMessages", "closed"}
      BY <1>1, Typed, FrameIs DEF TypeOK
    <1>3. i \in 0..Len(outbox[a]) /\ j \in 0..Len(icebox[a])
      BY <1>2, Found
    <1>4. /\ UNCHANGED <<writeable, appVars, lastMessageNo, recvVars, sockVars, mailbox, closingWithError>>
          /\ batch' = [batch EXCEPT ![a] = Tail(batch[a])]
          /\ running' = [running EXCEPT ![a] = RunsOn(a, Tail(batch[a]))]
      BY DEF AckFrame, LoopOn, RunsOn
    <1> DEFINE Does(o, z, w) ==
                  \/ o = outbox[a] /\ z = icebox[a] /\ w = writing[a]
                  \/ \E k \in 1..Len(outbox[a]) :
                        /\ o = [outbox[a] EXCEPT ![k] = Acked(outbox[a][k], c)]
                        /\ z = icebox[a] /\ w = writing[a]
                  \/ \E k \in 1..Len(icebox[a]) :
                        /\ z = [icebox[a] EXCEPT ![k] = Acked(icebox[a][k], c)]
                        /\ o = outbox[a] /\ w = writing[a]
                  \/ \E k \in 1..Len(icebox[a]) :
                        /\ z = RemoveAt(icebox[a], k)
                        /\ o = requeue(outbox[a], Acked(icebox[a][k], c))
                        /\ w = writeable[a]
               Becomes(o, z, w) ==
                  /\ outbox' = [outbox EXCEPT ![a] = o] /\ icebox' = [icebox EXCEPT ![a] = z]
                  /\ writing' = [writing EXCEPT ![a] = w]
    <1>5. /\ outbox = [outbox EXCEPT ![a] = outbox[a]] /\ icebox = [icebox EXCEPT ![a] = icebox[a]]
          /\ writing = [writing EXCEPT ![a] = writing[a]]
      BY DEF TypeOK
    <1>6. \E o \in Seq(Messages), z \in Seq(Messages), w \in BOOLEAN : Becomes(o, z, w) /\ Does(o, z, w)
      <2>1. CASE i > 0
        <3>1. outbox' = [outbox EXCEPT ![a][i] = Acked(@, c)] /\ UNCHANGED <<icebox, writing>>
          BY <2>1 DEF AckFrame, Frame
        <3>2. i \in 1..Len(outbox[a]) /\ outbox[a][i] \in Messages
          BY <1>2, <1>3, <2>1
        <3>3. x \in Messages
          BY <1>2, <3>2, AckedIs
        <3>4. [outbox[a] EXCEPT ![i] = x] \in Seq(Messages)
          BY <1>2, <3>2, <3>3, Replaced
        <3> HIDE DEF i, c
        <3>5. outbox' = [outbox EXCEPT ![a] = [outbox[a] EXCEPT ![i] = x]]
          BY <3>1
        <3>6. Does([outbox[a] EXCEPT ![i] = x], icebox[a], writing[a])
          BY <3>2
        <3>7. Becomes([outbox[a] EXCEPT ![i] = x], icebox[a], writing[a])
          BY <1>5, <3>1, <3>5
        <3> HIDE DEF Does, Becomes, x
        <3> QED  BY <1>2, <3>4, <3>6, <3>7
      <2>2. CASE ~(i > 0) /\ j = 0
        <3>1. UNCHANGED <<outbox, icebox, writing>>
          BY <2>2 DEF AckFrame, Frame
        <3>2. Becomes(outbox[a], icebox[a], writing[a])
          BY <1>5, <3>1
        <3>3. Does(outbox[a], icebox[a], writing[a])
          OBVIOUS
        <3> HIDE DEF Does, Becomes
        <3> QED  BY <1>2, <3>2, <3>3
      <2>3. CASE ~(i > 0) /\ j # 0
        <3>1. j \in 1..Len(icebox[a]) /\ icebox[a][j] \in Messages
          BY <1>2, <1>3, <2>3
        <3>2. y \in Messages
          BY <1>2, <3>1, AckedIs
        <3>3. CASE needsAck(y)
          <4>1. icebox' = [icebox EXCEPT ![a][j] = y] /\ UNCHANGED <<outbox, writing>>
            BY <2>3, <3>3 DEF AckFrame, Frame
          <4>2. [icebox[a] EXCEPT ![j] = y] \in Seq(Messages)
            BY <1>2, <3>1, <3>2, Replaced
          <4> HIDE DEF j, c
          <4>3. icebox' = [icebox EXCEPT ![a] = [icebox[a] EXCEPT ![j] = y]]
            BY <4>1
          <4>4. Does(outbox[a], [icebox[a] EXCEPT ![j] = y], writing[a])
            BY <3>1
          <4>5. Becomes(outbox[a], [icebox[a] EXCEPT ![j] = y], writing[a])
            BY <1>5, <4>1, <4>3
          <4> HIDE DEF Does, Becomes, y
          <4> QED  BY <1>2, <4>2, <4>4, <4>5
        <3>4. CASE ~needsAck(y)
          <4>1. /\ icebox' = [icebox EXCEPT ![a] = RemoveAt(icebox[a], j)]
                /\ outbox' = [outbox EXCEPT ![a] = requeue(outbox[a], y)]
                /\ writeToWebSocket(a)
            BY <2>3, <3>4 DEF AckFrame, Frame
          <4>2. /\ RemoveAt(icebox[a], j) \in Seq(Messages)
                /\ requeue(outbox[a], y) \in Seq(Messages) /\ requeue(outbox[a], y) # <<>>
            BY <1>2, <3>1, <3>2, Removed, Requeued
          <4> HIDE DEF j, c
          <4>3. outbox'[a] # <<>>
            BY <4>1, <4>2 DEF TypeOK
          <4>4. writeable'[a] = writeable[a]
            BY <1>4
          <4>5. (writeable'[a] /\ outbox'[a] # <<>>) = writeable[a]
            BY <1>2, <4>3, <4>4
          <4>6. writing' = [writing EXCEPT ![a] = writeable'[a] /\ outbox'[a] # <<>>]
            BY <4>1 DEF writeToWebSocket
          <4>7. writing' = [writing EXCEPT ![a] = writeable[a]]
            BY <4>5, <4>6
          <4>8. Does(requeue(outbox[a], y), RemoveAt(icebox[a], j), writeable[a])
            BY <3>1
          <4>9. Becomes(requeue(outbox[a], y), RemoveAt(icebox[a], j), writeable[a])
            BY <4>1, <4>7
          <4> HIDE DEF Does, Becomes, y
          <4> QED  BY <1>2, <4>2, <4>8, <4>9
        <3> QED  BY <3>3, <3>4
      <2> QED  BY <2>1, <2>2, <2>3
    <1> HIDE DEF i, j, x, y, Does
    <1>7. PICK o \in Seq(Messages), z \in Seq(Messages), w \in BOOLEAN : Becomes(o, z, w) /\ Does(o, z, w)
      BY <1>6
    <1>8. TypeOK'
      BY <1>2, <1>4, <1>7 DEF TypeOK, appVars, recvVars, sockVars
    <1>9. Untouched(Other(a))
      <2>1. Other(a) \in Peers /\ Other(a) # a
        BY TwoPeers
      <2> QED  BY <1>4, <1>7, <2>1
               DEF TypeOK, appVars, recvVars, sockVars, Untouched, KeepsApp, KeepsMail, KeepsQueues,
                   KeepsReceived, KeepsLoop, KeepsWriting, KeepsLinks, KeepsOpen
    <1>10. /\ KeepsApp(a) /\ KeepsMail(a) /\ KeepsReceived(a) /\ KeepsLinks(a) /\ KeepsOpen(a)
           /\ lastMessageNo'[a] = lastMessageNo[a] /\ writeable'[a] = writeable[a]
           /\ batch'[a] = Tail(batch[a]) /\ running'[a] = RunsOn(a, Tail(batch[a]))
      BY <1>4 DEF TypeOK, appVars, recvVars, sockVars, KeepsApp, KeepsMail, KeepsReceived, KeepsLinks, KeepsOpen
    <1>11. outbox'[a] = o /\ icebox'[a] = z /\ writing'[a] = w
      BY <1>7 DEF TypeOK
    <1>12. Does(outbox'[a], icebox'[a], writing'[a])
      BY <1>7, <1>11
    <1> QED  BY <1>1, <1>8, <1>9, <1>10, <1>12 DEF Does

\* The message that is written, how much of it, and what remains.
Written(p) == Head(outbox[p])
Rest(p) == Tail(outbox[p])
Size(p) == SmallerOf(Written(p).left, FrameRoom(Written(p), Rest(p)))
Left(p) == Sent(Written(p), Size(p))
NextFrame(p) == FrameOf(Written(p), Size(p))
Freezes(p) == Left(p).left > 0 /\ needsAck(Left(p))
Requeues(p) == Left(p).left > 0 /\ ~needsAck(Left(p))
AwaitsReply(p) == ~(Left(p).left > 0) /\ wantsReply(Written(p))

LEMMA WriteFrameDoes ==
    ASSUME TypeOK, NEW a \in Peers, outbox[a] # <<>>, Written(a).number > 0, WriteFrame(a)
    PROVE  /\ TypeOK' /\ Untouched(Other(a))
           /\ KeepsMail(a) /\ KeepsLoop(a) /\ KeepsOpen(a)
           /\ toRespond'[a] = toRespond[a] /\ lastMessageNo'[a] = lastMessageNo[a]
           /\ pendingRequests'[a] = pendingRequests[a] /\ numReceived'[a] = numReceived[a]
           /\ incoming'[a] = incoming[a]
           /\ wire'[a] = IF closeSent[a] THEN wire[a] ELSE Append(wire[a], NextFrame(a))
           /\ buffered'[a] = IF closeSent[a] THEN buffered[a] ELSE buffered[a] + Size(a)
           /\ writeable'[a] = (~closeSent[a] /\ buffered'[a] <= SendBuffer)
           /\ writing'[a] = (writeable'[a] /\ outbox'[a] # <<>>)
           /\ outbox'[a] = IF Requeues(a) THEN requeue(Rest(a), Left(a)) ELSE Rest(a)
           /\ icebox'[a] = IF Freezes(a) THEN Append(icebox[a], Left(a)) ELSE icebox[a]
           /\ pendingResponses'[a] =
                 IF AwaitsReply(a)
                 THEN With(pendingResponses[a], Written(a).number, NewIncoming(Written(a).id, FALSE))
                 ELSE pendingResponses[a]
           /\ progress'[a] =
                 Ended(a, IF ~(Left(a).left > 0) /\ Written(a).type = "REQ" /\ Written(a).noReply
                          THEN {Written(a).id} ELSE {}, "complete")
    <1> DEFINE wi == IF closeSent[a] THEN wire[a] ELSE Append(wire[a], NextFrame(a))
               bu == IF closeSent[a] THEN buffered[a] ELSE buffered[a] + Size(a)
               ou == IF Requeues(a) THEN requeue(Rest(a), Left(a)) ELSE Rest(a)
               ic == IF Freezes(a) THEN Append(icebox[a], Left(a)) ELSE icebox[a]
               pe == IF AwaitsReply(a)
                     THEN With(pendingResponses[a], Written(a).number, NewIncoming(Written(a).id, FALSE))
                     ELSE pendingResponses[a]
               pg == Ended(a, IF ~(Left(a).left > 0) /\ Written(a).type = "REQ" /\ Written(a).noReply
                              THEN {Written(a).id} ELSE {}, "complete")
    <1>1. outbox[a] \in Seq(Messages)
      BY Typed
    <1>2. Written(a) \in Messages /\ Rest(a) \in Seq(Messages)
      BY <1>1, Shorter DEF Written, Rest
    <1>3. /\ Size(a) \in Nat \ {0} /\ NextFrame(a) \in Frames
          /\ Left(a).left > 0 => Left(a) \in Messages
      BY <1>2, SentIs DEF Size, NextFrame, Left
    <1>4. wi \in Seq(Frames)
      BY <1>3, Typed, AppendProperties
    <1>5. bu \in Int
      BY <1>3, Typed
    <1>6. ou \in Seq(Messages)
      BY <1>2, <1>3, Requeued DEF Requeues
    <1>7. ic \in Seq(Messages)
      BY <1>3, Typed, AppendProperties DEF Freezes
    <1>8. IsPending(pe)
      <2>1. Written(a).number \in Nat \ {0} /\ Written(a).id \in Nat
        BY <1>2 DEF Messages
      <2>2. NewIncoming(Written(a).id, FALSE) \in Incomings
        BY <2>1, NewIncomings
      <2> QED  BY <2>1, <2>2, Typed, PendingMaps
    <1>9. pg \in Seq(Requests)
      BY EndedIs
    <1>10. /\ wire' = [wire EXCEPT ![a] = wi] /\ buffered' = [buffered EXCEPT ![a] = bu]
      <2>1. CASE closeSent[a]
        <3>1. wire' = wire /\ buffered' = buffered
          BY <2>1 DEF WriteFrame
        <3> QED  BY <2>1, <3>1 DEF TypeOK
      <2>2. CASE ~closeSent[a]
        BY <2>2 DEF WriteFrame, Written, Rest, Size, NextFrame
      <2> QED  BY <2>1, <2>2
    <1>11. outbox' = [outbox EXCEPT ![a] = ou] /\ icebox' = [icebox EXCEPT ![a] = ic]
      BY DEF WriteFrame, Written, Rest, Size, Left, Requeues, Freezes
    <1>12. pendingResponses' = [pendingResponses EXCEPT ![a] = pe]
      BY DEF WriteFrame, Written, Rest, Size, Left, AwaitsReply
    <1>13. progress' = [progress EXCEPT ![a] = pg]
      BY DEF WriteFrame, Written, Rest, Size, Left, SetProgress
    <1>14. writeable' = [writeable EXCEPT ![a] = ~closeSent[a] /\ buffered'[a] <= SendBuffer]
      BY DEF WriteFrame
    <1>15. writing' = [writing EXCEPT ![a] = writeable'[a] /\ outbox'[a] # <<>>]
      BY DEF WriteFrame, writeToWebSocket
    <1>16. UNCHANGED <<toRespond, lastMessageNo, pendingRequests, numReceived, loopVars,
                       incoming, closeSent, socket, mailbox, closingWithError>>
      BY DEF WriteFrame
    <1> HIDE DEF wi, bu, ou, ic, pe, pg
    <1>17. TypeOK'
      <2>1. writeable' \in [Peers -> BOOLEAN] /\ writing' \in [Peers -> BOOLEAN]
        BY <1>14, <1>15 DEF TypeOK
      <2> QED  BY <1>4, <1>5, <1>6, <1>7, <1>8, <1>9, <1>10, <1>11, <1>12, <1>13, <1>16, <2>1
               DEF TypeOK, loopVars
    <1>18. Untouched(Other(a))
      <2>1. Other(a) \in Peers /\ Other(a) # a
        BY TwoPeers
      <2> QED  BY <1>10, <1>11, <1>12, <1>13, <1>14, <1>15, <1>16, <2>1
               DEF TypeOK, loopVars, Untouched, KeepsApp, KeepsMail, KeepsQueues, KeepsReceived,
                   KeepsLoop, KeepsWriting, KeepsLinks, KeepsOpen
    <1>19. /\ KeepsMail(a) /\ KeepsLoop(a) /\ KeepsOpen(a)
           /\ toRespond'[a] = toRespond[a] /\ lastMessageNo'[a] = lastMessageNo[a]
           /\ pendingRequests'[a] = pendingRequests[a] /\ numReceived'[a] = numReceived[a]
           /\ incoming'[a] = incoming[a]
      BY <1>16 DEF loopVars, KeepsMail, KeepsLoop, KeepsOpen
    <1>20. /\ wire'[a] = wi /\ buffered'[a] = bu /\ outbox'[a] = ou /\ icebox'[a] = ic
           /\ pendingResponses'[a] = pe /\ progress'[a] = pg
      BY <1>10, <1>11, <1>12, <1>13 DEF TypeOK
    <1>21. writeable'[a] = (~closeSent[a] /\ buffered'[a] <= SendBuffer)
      BY <1>14 DEF TypeOK
    <1>22. writing'[a] = (writeable'[a] /\ outbox'[a] # <<>>)
      BY <1>15 DEF TypeOK
    <1> QED  BY <1>17, <1>18, <1>19, <1>20, <1>21, <1>22 DEF wi, bu, ou, ic, pe, pg

LEMMA DeliverDoes ==
    ASSUME TypeOK, NEW a \in Peers, Deliver(a)
    PROVE  /\ TypeOK' /\ wire[a] # <<>>
           /\ wire'[a] = Tail(wire[a]) /\ wire'[Other(a)] = wire[Other(a)]
           /\ buffered'[a] = buffered[a] - Head(wire[a]).size
           /\ buffered'[Other(a)] = buffered[Other(a)]
           /\ incoming'[a] = incoming[a] /\ socket[Other(a)] = "open"
           /\ incoming'[Other(a)] = Append(incoming[Other(a)], Head(wire[a]))
           /\ mailbox'[a] = IF Drains(a) /\ socket[a] = "open"
                            THEN Append(mailbox[a], Event("onWebSocketWriteable")) ELSE mailbox[a]
           /\ mailbox'[Other(a)] =
                 IF incoming[Other(a)] = <<>>
                 THEN Append(mailbox[Other(a)], Event("onWebSocketMessages")) ELSE mailbox[Other(a)]
           /\ \A p \in Peers : /\ KeepsApp(p) /\ KeepsQueues(p) /\ KeepsReceived(p) /\ KeepsLoop(p)
                               /\ KeepsWriting(p) /\ KeepsOpen(p)
    <1> DEFINE b == Other(a)
               ma == IF Drains(a) /\ socket[a] = "open"
                     THEN Append(mailbox[a], Event("onWebSocketWriteable")) ELSE mailbox[a]
               mb == IF incoming[b] = <<>>
                     THEN Append(mailbox[b], Event("onWebSocketMessages")) ELSE mailbox[b]
    <1>1. b \in Peers /\ b # a
      BY TwoPeers
    <1>2. wire[a] # <<>> /\ socket[b] = "open"
      BY DEF Deliver
    <1>3. /\ wire[a] \in Seq(Frames) /\ incoming[b] \in Seq(Frames) /\ buffered[a] \in Int
          /\ mailbox[a] \in Seq(Events) /\ mailbox[b] \in Seq(Events)
      BY <1>1, Typed
    <1>4. Head(wire[a]) \in Frames /\ Tail(wire[a]) \in Seq(Frames)
      BY <1>2, <1>3, Shorter
    <1>5. Event("onWebSocketWriteable") \in Events /\ Event("onWebSocketMessages") \in Events
      BY DEF Event, Events
    <1>6. ma \in Seq(Events) /\ mb \in Seq(Events)
      BY <1>3, <1>5, AppendProperties
    <1>7. Append(incoming[b], Head(wire[a])) \in Seq(Frames)
      BY <1>3, <1>4, AppendProperties
    <1>8. buffered[a] - Head(wire[a]).size \in Int
      BY <1>3, <1>4 DEF Frames
    <1>9. /\ wire' = [wire EXCEPT ![a] = Tail(wire[a])]
          /\ buffered' = [buffered EXCEPT ![a] = buffered[a] - Head(wire[a]).size]
          /\ incoming' = [incoming EXCEPT ![b] = Append(incoming[b], Head(wire[a]))]
          /\ UNCHANGED <<appVars, sendVars, recvVars, loopVars, closeSent, socket, closingWithError>>
      BY DEF Deliver
    <1>10. mailbox' = [mailbox EXCEPT ![a] = ma, ![b] = mb]
      <2>1. mailbox' = [mailbox EXCEPT
                ![a] = IF Drains(a) /\ socket[a] = "open"
                       THEN Append(@, Event("onWebSocketWriteable")) ELSE @,
                ![b] = IF incoming[b] = <<>> THEN Append(@, Event("onWebSocketMessages")) ELSE @]
        BY DEF Deliver
      <2> HIDE DEF b
      <2> QED  BY <1>1, <2>1 DEF TypeOK
    <1> HIDE DEF b, ma, mb
    <1>11. TypeOK'
      BY <1>1, <1>4, <1>6, <1>7, <1>8, <1>9, <1>10 DEF TypeOK, appVars, sendVars, recvVars, loopVars
    <1>12. /\ wire'[a] = Tail(wire[a]) /\ wire'[b] = wire[b]
           /\ buffered'[a] = buffered[a] - Head(wire[a]).size /\ buffered'[b] = buffered[b]
           /\ incoming'[a] = incoming[a] /\ incoming'[b] = Append(incoming[b], Head(wire[a]))
      BY <1>1, <1>9 DEF TypeOK
    <1>13. mailbox'[a] = ma /\ mailbox'[b] = mb
      BY <1>1, <1>10 DEF TypeOK
    <1>14. \A p \in Peers : /\ KeepsApp(p) /\ KeepsQueues(p) /\ KeepsReceived(p) /\ KeepsLoop(p)
                            /\ KeepsWriting(p) /\ KeepsOpen(p)
      BY <1>9 DEF appVars, sendVars, recvVars, loopVars, KeepsApp, KeepsQueues, KeepsReceived, KeepsLoop,
                  KeepsWriting, KeepsOpen
    <1> QED  BY <1>2, <1>11, <1>12, <1>13, <1>14 DEF b, ma, mb
------------------------------------------------------------------------------
(***************************************************************************)
(* Where the actor is, and why messages wait.                              *)
(***************************************************************************)
Closed == Event("closed")
Room == Event("onWebSocketWriteable")

KeepsNews(p) ==
    /\ Closed \in ToSet(mailbox'[p]) <=> Closed \in ToSet(mailbox[p])
    /\ Room \in ToSet(mailbox'[p]) <=> Room \in ToSet(mailbox[p])

\* What taking an event, and posting one, says about those two.
LEMMA NewsTaken ==
    ASSUME NEW mb \in Seq(Events), mb # <<>>
    PROVE  /\ ToSet(Tail(mb)) \subseteq ToSet(mb)
           /\ Head(mb).ev # "closed" => (Closed \in ToSet(Tail(mb)) <=> Closed \in ToSet(mb))
           /\ Head(mb).ev # "onWebSocketWriteable" => (Room \in ToSet(Tail(mb)) <=> Room \in ToSet(mb))
           /\ Head(mb).ev = "closed" => Closed \in ToSet(mb)
    <1>1. ToSet(mb) = {Head(mb)} \union ToSet(Tail(mb)) /\ Head(mb) \in Events
      BY Shorter
    <1>2. Closed.ev = "closed" /\ Room.ev = "onWebSocketWriteable"
      BY DEF Closed, Room, Event
    <1>3. Head(mb).ev = "closed" => Head(mb) = Closed
      BY <1>1 DEF Events, Closed, Event
    <1> QED  BY <1>1, <1>2, <1>3

LEMMA NewsPosted ==
    ASSUME NEW mb \in Seq(Events), NEW e \in Events
    PROVE  /\ e.ev # "closed" => (Closed \in ToSet(Append(mb, e)) <=> Closed \in ToSet(mb))
           /\ e.ev # "onWebSocketWriteable" => (Room \in ToSet(Append(mb, e)) <=> Room \in ToSet(mb))
           /\ e \in ToSet(Append(mb, e)) /\ ToSet(mb) \subseteq ToSet(Append(mb, e))
    <1>1. ToSet(Append(mb, e)) = ToSet(mb) \union {e}
      BY Longer
    <1>2. Closed.ev = "closed" /\ Room.ev = "onWebSocketWriteable"
      BY DEF Closed, Room, Event
    <1> QED  BY <1>1, <1>2

LEMMA NewsAcked ==
    ASSUME TypeOK, NEW a \in Peers, NEW in \in Incomings, NEW f \in Frames, NEW type \in {"ACKREQ", "ACKRES"},
           mailbox'[a] = mailbox[a] \o Acknowledgement(in, f, type)
    PROVE  KeepsNews(a)
    <1>1. mailbox[a] \in Seq(Events)
      BY Typed
    <1>2. CASE mailbox'[a] = mailbox[a]
      BY <1>2 DEF KeepsNews
    <1>3. ASSUME NEW m \in Messages, Queued(m) \in Events, mailbox'[a] = Append(mailbox[a], Queued(m))
          PROVE  KeepsNews(a)
      <2>1. Queued(m).ev = "queueMessage"
        BY DEF Queued
      <2> QED  BY <1>1, <1>3, <2>1, NewsPosted DEF KeepsNews
    <1> QED  BY <1>1, <1>2, <1>3, AckPosted

LEMMA ControlKept ==
    ASSUME NEW p \in Peers, Control(p), Wakeup(p), KeepsNews(p), KeepsQueues(p), KeepsLoop(p),
           KeepsWriting(p), KeepsLinks(p), KeepsOpen(p)
    PROVE  Control(p)' /\ Wakeup(p)'
    <1>1. Control(p)'
      BY DEF Control, KeepsNews, KeepsQueues, KeepsLoop, KeepsWriting, KeepsLinks, KeepsOpen, Live, Closed
    <1>2. Wakeup(p)'
      BY DEF Wakeup, KeepsNews, KeepsQueues, KeepsWriting, KeepsLinks, KeepsOpen, Room
    <1> QED  BY <1>1, <1>2

LEMMA ControlUntouched ==
    ASSUME NEW p \in Peers, Control(p), Wakeup(p), Untouched(p)
    PROVE  Control(p)' /\ Wakeup(p)'
    <1>1. KeepsNews(p)
      BY DEF Untouched, KeepsMail, KeepsNews
    <1> QED  BY <1>1, ControlKept DEF Untouched

\* The application's steps.
LEMMA ControlApplication ==
    ASSUME TypeOK, NEW a \in Peers, Control(a), Wakeup(a), Application(a)
    PROVE  Control(a)' /\ Wakeup(a)'
    <1>0. mailbox[a] \in Seq(Events)
      BY Typed
    <1>1. ASSUME NEW shape \in Shapes[a], SendRequest(a, shape) PROVE Control(a)' /\ Wakeup(a)'
      <2> DEFINE e == Queued(NewRequest(shape, Len(progress[a]) + 1))
      <2>1. /\ KeepsQueues(a) /\ KeepsLoop(a) /\ KeepsWriting(a) /\ KeepsLinks(a) /\ KeepsOpen(a)
            /\ mailbox'[a] = Append(mailbox[a], e)
        BY <1>1, SendRequestDoes
      <2>2. Len(progress[a]) + 1 \in Nat
        BY Typed
      <2>3. e \in Events /\ e.ev = "queueMessage"
        BY <2>2, NewMessages DEF Queued
      <2> HIDE DEF e
      <2>4. KeepsNews(a)
        BY <1>0, <2>1, <2>3, NewsPosted DEF KeepsNews
      <2> QED  BY <2>1, <2>4, ControlKept
    <1>2. ASSUME NEW msgNo \in toRespond[a], NEW reply \in Replies[a], Respond(a, msgNo, reply)
          PROVE  Control(a)' /\ Wakeup(a)'
      <2> DEFINE e == Queued(NewResponse(reply, msgNo))
      <2>1. /\ KeepsQueues(a) /\ KeepsLoop(a) /\ KeepsWriting(a) /\ KeepsLinks(a) /\ KeepsOpen(a)
            /\ mailbox'[a] = Append(mailbox[a], e)
        BY <1>2, RespondDoes
      <2>2. msgNo \in Nat
        BY Typed
      <2>3. e \in Events /\ e.ev = "queueMessage"
        BY <2>2, NewMessages DEF Queued
      <2> HIDE DEF e
      <2>4. KeepsNews(a)
        BY <1>0, <2>1, <2>3, NewsPosted DEF KeepsNews
      <2> QED  BY <2>1, <2>4, ControlKept
    <1>3. ASSUME Close(a) PROVE Control(a)' /\ Wakeup(a)'
      <2>1. /\ KeepsQueues(a) /\ KeepsLoop(a) /\ KeepsWriting(a) /\ KeepsLinks(a) /\ KeepsOpen(a)
            /\ mailbox'[a] = Append(mailbox[a], Event("close"))
        BY <1>3, CloseDoes
      <2>2. Event("close") \in Events /\ Event("close").ev = "close"
        BY DEF Event, Events
      <2>3. KeepsNews(a)
        BY <1>0, <2>1, <2>2, NewsPosted DEF KeepsNews
      <2> QED  BY <2>1, <2>3, ControlKept
    <1> QED  BY <1>1, <1>2, <1>3 DEF Application

\* The steps that send.
LEMMA ControlSending ==
    ASSUME TypeOK, NEW a \in Peers, Control(a), Wakeup(a)
    PROVE  /\ QueueMessage(a) => Control(a)' /\ Wakeup(a)'
           /\ OnWriteable(a) => Control(a)' /\ Wakeup(a)'
           /\ WriteFrame(a) /\ outbox[a] # <<>> /\ Written(a).number > 0 => Control(a)' /\ Wakeup(a)'
    <1>0. mailbox[a] \in Seq(Events) /\ outbox[a] \in Seq(Messages)
      BY Typed
    <1>1. ASSUME QueueMessage(a), ~Live(a) PROVE Control(a)' /\ Wakeup(a)'
      <2>1. /\ KeepsQueues(a) /\ KeepsLoop(a) /\ KeepsWriting(a) /\ KeepsLinks(a) /\ KeepsOpen(a)
            /\ mailbox'[a] = Tail(mailbox[a]) /\ mailbox[a] # <<>> /\ Head(mailbox[a]).ev = "queueMessage"
        BY <1>1, QueueMessageRefuses
      <2>2. KeepsNews(a)
        BY <1>0, <2>1, NewsTaken DEF KeepsNews
      <2> QED  BY <2>1, <2>2, ControlKept
    <1>2. ASSUME QueueMessage(a), Live(a) PROVE Control(a)' /\ Wakeup(a)'
      <2>1. /\ KeepsLoop(a) /\ KeepsLinks(a) /\ KeepsOpen(a) /\ writeable'[a] = writeable[a]
            /\ outbox'[a] = requeue(outbox[a], Numbered(a)) /\ writing'[a] = writeable[a]
            /\ mailbox'[a] = Tail(mailbox[a]) /\ mailbox[a] # <<>> /\ Head(mailbox[a]).ev = "queueMessage"
        BY <1>2, QueueMessageAccepts
      <2>2. KeepsNews(a)
        BY <1>0, <2>1, NewsTaken DEF KeepsNews
      <2>3. outbox'[a] # <<>>
        <3>1. Head(mailbox[a]).msg \in Messages /\ lastMessageNo[a] \in Nat
          BY <1>0, <2>1, PostedLess, Typed
        <3>2. NextNo(a) \in Nat
          BY <3>1 DEF NextNo, Messages
        <3>3. Numbered(a) \in Messages
          BY <3>1, <3>2 DEF Numbered, Messages
        <3> QED  BY <1>0, <2>1, <3>3, Requeued
      <2>4. Control(a)'
        BY <1>2, <2>1, <2>2, <2>3 DEF Control, KeepsNews, KeepsLoop, KeepsLinks, KeepsOpen, Live, Closed
      <2>5. Wakeup(a)'
        BY <2>1, <2>2 DEF Wakeup, KeepsNews, KeepsLinks, KeepsOpen, Room
      <2> QED  BY <2>4, <2>5
    <1>3. ASSUME OnWriteable(a) PROVE Control(a)' /\ Wakeup(a)'
      <2>1. /\ KeepsQueues(a) /\ KeepsLoop(a) /\ KeepsLinks(a) /\ KeepsOpen(a)
            /\ writeable'[a] = TRUE /\ writing'[a] = (outbox[a] # <<>>)
            /\ mailbox'[a] = Tail(mailbox[a]) /\ mailbox[a] # <<>>
        BY <1>3, OnWriteableDoes
      <2>2. Closed \in ToSet(mailbox'[a]) => Closed \in ToSet(mailbox[a])
        BY <1>0, <2>1, NewsTaken
      <2>3. Control(a)'
        BY <2>1, <2>2 DEF Control, KeepsQueues, KeepsLoop, KeepsLinks, KeepsOpen, Live, Closed
      <2>4. Wakeup(a)'
        BY <2>1 DEF Wakeup, KeepsQueues
      <2> QED  BY <2>3, <2>4
    <1>4. ASSUME WriteFrame(a), outbox[a] # <<>>, Written(a).number > 0 PROVE Control(a)' /\ Wakeup(a)'
      <2>1. /\ KeepsMail(a) /\ KeepsLoop(a) /\ KeepsOpen(a) /\ incoming'[a] = incoming[a] /\ TypeOK'
            /\ writeable'[a] = (~closeSent[a] /\ buffered'[a] <= SendBuffer)
            /\ writing'[a] = (writeable'[a] /\ outbox'[a] # <<>>)
        BY <1>4, WriteFrameDoes
      <2>2. socket[a] # "gone"
        BY <1>4 DEF Control
      <2>3. Control(a)'
        BY <2>1, <2>2 DEF Control, KeepsMail, KeepsLoop, KeepsOpen, Live
      <2>4. Wakeup(a)'
        <3>1. buffered'[a] \in Int /\ SendBuffer \in Nat
          BY <2>1, BLIPIOAssumption DEF TypeOK
        <3>2. ~writeable'[a] => ~(buffered'[a] <= SendBuffer) \/ closeSent[a]
          BY <2>1
        <3>3. ~(buffered'[a] <= SendBuffer) => buffered'[a] > SendBuffer
          BY <3>1
        <3>4. closeSent'[a] = closeSent[a]
          BY <2>1 DEF KeepsOpen
        <3>5. outbox'[a] # <<>> /\ writeable'[a] => writing'[a]
          BY <2>1
        <3> QED  BY <3>2, <3>3, <3>4, <3>5 DEF Wakeup
      <2> QED  BY <2>3, <2>4
    <1> QED  BY <1>1, <1>2, <1>3, <1>4

\* The steps that take frames, and those that close.
LEMMA ControlClosing ==
    ASSUME TypeOK, NEW a \in Peers, Control(a), Wakeup(a)
    PROVE  /\ OnMessages(a) => Control(a)' /\ Wakeup(a)'
           /\ OnClose(a) => Control(a)' /\ Wakeup(a)'
           /\ OnClosed(a) => Control(a)' /\ Wakeup(a)'
           /\ FinishClosed(a) => Control(a)' /\ Wakeup(a)'
           /\ ReceivedClose(a) => Control(a)' /\ Wakeup(a)'
           /\ SocketClosed(a) => Control(a)' /\ Wakeup(a)'
    <1>0. mailbox[a] \in Seq(Events)
      BY Typed
    <1>1. ASSUME OnMessages(a), incoming[a] = <<>> \/ closingWithError[a] # "none"
          PROVE  Control(a)' /\ Wakeup(a)'
      <2>1. /\ KeepsQueues(a) /\ KeepsLoop(a) /\ KeepsWriting(a) /\ KeepsOpen(a)
            /\ buffered'[a] = buffered[a] /\ incoming'[a] = <<>>
            /\ mailbox'[a] = Tail(mailbox[a]) /\ mailbox[a] # <<>> /\ Head(mailbox[a]).ev = "onWebSocketMessages"
        BY <1>1, OnMessagesDrops
      <2>2. KeepsNews(a)
        BY <1>0, <2>1, NewsTaken DEF KeepsNews
      <2>3. Control(a)'
        BY <2>1, <2>2 DEF Control, KeepsNews, KeepsQueues, KeepsLoop, KeepsWriting, KeepsOpen, Live, Closed
      <2>4. Wakeup(a)'
        BY <2>1, <2>2 DEF Wakeup, KeepsNews, KeepsQueues, KeepsWriting, KeepsOpen, Room
      <2> QED  BY <2>3, <2>4
    <1>2. ASSUME OnMessages(a), incoming[a] # <<>>, closingWithError[a] = "none"
          PROVE  Control(a)' /\ Wakeup(a)'
      <2>1. /\ KeepsQueues(a) /\ KeepsWriting(a) /\ KeepsOpen(a)
            /\ buffered'[a] = buffered[a] /\ incoming'[a] = <<>>
            /\ batch'[a] = incoming[a] /\ running'[a] = "onWebSocketMessages"
            /\ mailbox'[a] = Tail(mailbox[a]) /\ mailbox[a] # <<>> /\ Head(mailbox[a]).ev = "onWebSocketMessages"
        BY <1>2, OnMessagesPops
      <2>2. KeepsNews(a)
        BY <1>0, <2>1, NewsTaken DEF KeepsNews
      <2>3. Control(a)'
        BY <1>2, <2>1, <2>2 DEF Control, KeepsNews, KeepsQueues, KeepsWriting, KeepsOpen, Live, Closed
      <2>4. Wakeup(a)'
        BY <2>1, <2>2 DEF Wakeup, KeepsNews, KeepsQueues, KeepsWriting, KeepsOpen, Room
      <2> QED  BY <2>3, <2>4
    <1>3. ASSUME OnClose(a) PROVE Control(a)' /\ Wakeup(a)'
      <2>1. /\ KeepsQueues(a) /\ KeepsLoop(a) /\ KeepsWriting(a) /\ KeepsLinks(a)
            /\ socket'[a] = socket[a] /\ closingWithError'[a] = closingWithError[a]
            /\ closeSent'[a] = (closeSent[a] \/ (socket[a] # "gone" /\ closingWithError[a] = "none"))
            /\ mailbox'[a] = Tail(mailbox[a]) /\ mailbox[a] # <<>> /\ Head(mailbox[a]).ev = "close"
        BY <1>3, OnCloseDoes
      <2>2. KeepsNews(a)
        BY <1>0, <2>1, NewsTaken DEF KeepsNews
      <2>3. Control(a)'
        BY <2>1, <2>2 DEF Control, KeepsNews, KeepsQueues, KeepsLoop, KeepsWriting, KeepsLinks, Live, Closed
      <2>4. Wakeup(a)'
        BY <2>1, <2>2 DEF Wakeup, KeepsNews, KeepsQueues, KeepsWriting, KeepsLinks, Room
      <2> QED  BY <2>3, <2>4
    <1>4. ASSUME OnClosed(a) PROVE Control(a)' /\ Wakeup(a)'
      <2>1. /\ KeepsQueues(a) /\ KeepsWriting(a) /\ KeepsOpen(a)
            /\ buffered'[a] = buffered[a] /\ incoming'[a] = <<>>
            /\ batch'[a] = IF closingWithError[a] = "none" THEN incoming[a] ELSE <<>>
            /\ running'[a] = "closed"
            /\ mailbox'[a] = Tail(mailbox[a]) /\ mailbox[a] # <<>> /\ Head(mailbox[a]).ev = "closed"
        BY <1>4, OnClosedDoes
      <2>2. /\ Closed \in ToSet(mailbox[a])
            /\ Room \in ToSet(mailbox'[a]) <=> Room \in ToSet(mailbox[a])
        BY <1>0, <2>1, NewsTaken
      <2>3. socket[a] # "open"
        BY <2>2 DEF Control, Closed
      <2>4. Control(a)'
        BY <2>1, <2>3 DEF Control, KeepsQueues, KeepsWriting, KeepsOpen, Live
      <2>5. Wakeup(a)'
        BY <2>1, <2>2 DEF Wakeup, KeepsQueues, KeepsWriting, KeepsOpen, Room
      <2> QED  BY <2>4, <2>5
    <1>5. ASSUME FinishClosed(a) PROVE Control(a)' /\ Wakeup(a)'
      <2>1. /\ outbox'[a] = <<>> /\ socket'[a] = "gone" /\ running'[a] = "idle"
            /\ incoming'[a] = incoming[a] /\ batch'[a] = batch[a] /\ writing'[a] = writing[a]
            /\ closingWithError'[a] = closingWithError[a] /\ closeSent'[a] = closeSent[a]
            /\ running[a] = "closed" /\ batch[a] = <<>> /\ ~writing[a]
        BY <1>5, FinishClosedDoes DEF KeepsLinks, KeepsWriting
      <2>2. Control(a)'
        BY <2>1 DEF Control
      <2>3. Wakeup(a)'
        BY <2>1 DEF Wakeup
      <2> QED  BY <2>2, <2>3
    <1>6. ASSUME ReceivedClose(a) PROVE Control(a)' /\ Wakeup(a)'
      <2>1. /\ KeepsMail(a) /\ KeepsQueues(a) /\ KeepsLoop(a) /\ KeepsWriting(a) /\ KeepsLinks(a)
            /\ socket'[a] = socket[a] /\ closingWithError'[a] = closingWithError[a] /\ closeSent'[a] = TRUE
        BY <1>6, ReceivedCloseDoes
      <2>2. Control(a)'
        BY <2>1 DEF Control, KeepsMail, KeepsQueues, KeepsLoop, KeepsWriting, KeepsLinks, Live
      <2>3. Wakeup(a)'
        BY <2>1 DEF Wakeup, KeepsMail, KeepsQueues, KeepsWriting, KeepsLinks
      <2> QED  BY <2>2, <2>3
    <1>7. ASSUME SocketClosed(a) PROVE Control(a)' /\ Wakeup(a)'
      <2>1. /\ KeepsQueues(a) /\ KeepsLoop(a) /\ KeepsWriting(a) /\ KeepsLinks(a)
            /\ socket'[a] = "closed" /\ socket[a] = "open" /\ closingWithError'[a] = closingWithError[a]
            /\ closeSent'[a] = closeSent[a]
        BY <1>7, SocketClosedDoes
      <2>2. Control(a)'
        BY <2>1 DEF Control, KeepsQueues, KeepsLoop, KeepsWriting, KeepsLinks, Live
      <2>3. Wakeup(a)'
        BY <2>1 DEF Wakeup, KeepsQueues, KeepsWriting
      <2> QED  BY <2>2, <2>3
    <1> QED  BY <1>1, <1>2, <1>3, <1>4, <1>5, <1>6, <1>7

\* The steps that handle a frame: the loop goes on, or ends with an error.
LEMMA ControlHandles ==
    ASSUME TypeOK, NEW a \in Peers, Control(a), Wakeup(a), batch[a] # <<>>, ~writing[a],
           KeepsNews(a), KeepsLinks(a), writeable'[a] = writeable[a], socket'[a] = socket[a],
           \/ KeepsQueues(a) /\ writing'[a] = writing[a]
           \/ (outbox'[a] # <<>> <=> outbox[a] # <<>>) /\ writing'[a] = writing[a]
           \/ outbox'[a] # <<>> /\ writing'[a] = writeable[a],
           \/ /\ batch'[a] = Tail(batch[a]) /\ running'[a] = RunsOn(a, Tail(batch[a]))
              /\ closeSent'[a] = closeSent[a] /\ closingWithError'[a] = closingWithError[a]
           \/ batch'[a] = <<>> /\ running'[a] = RunsOn(a, <<>>) /\ closeSent'[a] = TRUE
    PROVE  Control(a)' /\ Wakeup(a)'
    <1>1. running[a] # "idle" /\ Live(a) /\ running'[a] \in {"idle", running[a]}
      BY DEF Control, RunsOn
    <1>2. batch'[a] # <<>> => running'[a] # "idle" /\ Live(a)'
      BY <1>1 DEF RunsOn, Live
    <1>3. closingWithError'[a] # "none" => closeSent'[a]
      BY DEF Control
    <1>4. writing'[a] => outbox'[a] # <<>>
      BY DEF KeepsQueues
    <1>5. /\ Closed \in ToSet(mailbox'[a]) => socket'[a] # "open"
          /\ running'[a] = "closed" => socket'[a] # "open" /\ incoming'[a] = <<>>
          /\ socket'[a] # "gone"
      BY <1>1 DEF Control, KeepsNews, KeepsLinks, Closed, Live
    <1>6. Control(a)'
      BY <1>2, <1>3, <1>4, <1>5 DEF Control, Closed
    <1>7. outbox'[a] # <<>> /\ writeable'[a] => writing'[a]
      BY DEF Wakeup, KeepsQueues
    <1>8. ~writeable'[a] =>
             \/ Room \in ToSet(mailbox'[a]) \/ buffered'[a] > SendBuffer
             \/ closeSent'[a] \/ socket'[a] # "open"
      BY DEF Wakeup, KeepsNews, KeepsLinks, Room
    <1>9. Wakeup(a)'
      BY <1>7, <1>8 DEF Wakeup, Room
    <1> QED  BY <1>6, <1>9

LEMMA ControlReceiving ==
    ASSUME TypeOK, NEW a \in Peers, Control(a), Wakeup(a)
    PROVE  /\ RequestFrame(a) /\ IsExpected(a, Frame(a).number) => Control(a)' /\ Wakeup(a)'
           /\ RequestFrameThrows(a) => Control(a)' /\ Wakeup(a)'
           /\ ResponseFrame(a) /\ IsAwaited(a, Frame(a).number) => Control(a)' /\ Wakeup(a)'
           /\ ResponseFrameThrows(a) => Control(a)' /\ Wakeup(a)'
           /\ AckFrame(a) => Control(a)' /\ Wakeup(a)'
    <1>1. ASSUME RequestFrame(a), IsExpected(a, Frame(a).number) PROVE Control(a)' /\ Wakeup(a)'
      <2>1. /\ KeepsQueues(a) /\ KeepsWriting(a) /\ KeepsLinks(a) /\ KeepsOpen(a)
            /\ batch[a] # <<>> /\ ~writing[a]
            /\ batch'[a] = Tail(batch[a]) /\ running'[a] = RunsOn(a, Tail(batch[a]))
            /\ mailbox'[a] = mailbox[a] \o Acknowledgement(IncomingRequest(a, Frame(a)), Frame(a), "ACKREQ")
        BY <1>1, RequestFrameDoes
      <2>2. Frame(a) \in Frames /\ IncomingRequest(a, Frame(a)) \in Incomings
        BY <2>1, FrameIs, IncomingIs
      <2>3. KeepsNews(a)
        BY <2>1, <2>2, NewsAcked
      <2> QED  BY <2>1, <2>3, ControlHandles DEF KeepsWriting, KeepsOpen
    <1>2. ASSUME RequestFrameThrows(a) PROVE Control(a)' /\ Wakeup(a)'
      <2>1. /\ KeepsQueues(a) /\ KeepsWriting(a) /\ KeepsLinks(a) /\ socket'[a] = socket[a]
            /\ batch[a] # <<>> /\ ~writing[a]
            /\ batch'[a] = <<>> /\ running'[a] = RunsOn(a, <<>>) /\ closeSent'[a] = TRUE
            /\ mailbox'[a] = mailbox[a] \o Acknowledgement(IncomingRequest(a, Frame(a)), Frame(a), "ACKREQ")
        BY <1>2, RequestFrameThrowsDoes
      <2>2. Frame(a) \in Frames /\ IncomingRequest(a, Frame(a)) \in Incomings
        BY <2>1, FrameIs, IncomingIs
      <2>3. KeepsNews(a)
        BY <2>1, <2>2, NewsAcked
      <2> QED  BY <2>1, <2>3, ControlHandles DEF KeepsWriting
    <1>3. ASSUME ResponseFrame(a), IsAwaited(a, Frame(a).number) PROVE Control(a)' /\ Wakeup(a)'
      <2>1. /\ KeepsQueues(a) /\ KeepsWriting(a) /\ KeepsLinks(a) /\ KeepsOpen(a)
            /\ batch[a] # <<>> /\ ~writing[a]
            /\ batch'[a] = Tail(batch[a]) /\ running'[a] = RunsOn(a, Tail(batch[a]))
            /\ mailbox'[a] = mailbox[a] \o Acknowledgement(pendingResponses[a][Frame(a).number], Frame(a), "ACKRES")
        BY <1>3, ResponseFrameDoes
      <2>2. Frame(a) \in Frames /\ pendingResponses[a][Frame(a).number] \in Incomings
        BY <1>3, <2>1, FrameIs, IncomingIs DEF IsAwaited
      <2>3. KeepsNews(a)
        BY <2>1, <2>2, NewsAcked
      <2> QED  BY <2>1, <2>3, ControlHandles DEF KeepsWriting, KeepsOpen
    <1>4. ASSUME ResponseFrameThrows(a) PROVE Control(a)' /\ Wakeup(a)'
      <2>1. /\ KeepsQueues(a) /\ KeepsWriting(a) /\ KeepsLinks(a) /\ socket'[a] = socket[a]
            /\ batch[a] # <<>> /\ ~writing[a] /\ IsAwaited(a, Frame(a).number)
            /\ batch'[a] = <<>> /\ running'[a] = RunsOn(a, <<>>) /\ closeSent'[a] = TRUE
            /\ mailbox'[a] = mailbox[a] \o Acknowledgement(pendingResponses[a][Frame(a).number], Frame(a), "ACKRES")
        BY <1>4, ResponseFrameThrowsDoes
      <2>2. Frame(a) \in Frames /\ pendingResponses[a][Frame(a).number] \in Incomings
        BY <2>1, FrameIs, IncomingIs DEF IsAwaited
      <2>3. KeepsNews(a)
        BY <2>1, <2>2, NewsAcked
      <2> QED  BY <2>1, <2>3, ControlHandles DEF KeepsWriting
    <1>5. ASSUME AckFrame(a) PROVE Control(a)' /\ Wakeup(a)'
      <2>0. outbox[a] \in Seq(Messages) /\ icebox[a] \in Seq(Messages)
        BY Typed
      <2>1. /\ KeepsMail(a) /\ KeepsLinks(a) /\ KeepsOpen(a) /\ writeable'[a] = writeable[a]
            /\ batch[a] # <<>> /\ ~writing[a]
            /\ batch'[a] = Tail(batch[a]) /\ running'[a] = RunsOn(a, Tail(batch[a]))
        BY <1>5, AckFrameDoes
      <2>2. Frame(a).count \in Nat
        BY <2>1, FrameIs
      <2>3. \/ (outbox'[a] # <<>> <=> outbox[a] # <<>>) /\ writing'[a] = writing[a]
            \/ outbox'[a] # <<>> /\ writing'[a] = writeable[a]
        <3>1. CASE outbox'[a] = outbox[a] /\ writing'[a] = writing[a]
          BY <3>1
        <3>2. ASSUME NEW i \in 1..Len(outbox[a]), writing'[a] = writing[a],
                     outbox'[a] = [outbox[a] EXCEPT ![i] = Acked(outbox[a][i], Frame(a).count)]
              PROVE  (outbox'[a] # <<>> <=> outbox[a] # <<>>) /\ writing'[a] = writing[a]
          <4>1. DOMAIN outbox'[a] = DOMAIN outbox[a] /\ i \in DOMAIN outbox[a]
            BY <2>0, <3>2
          <4>2. DOMAIN <<>> = {}
            OBVIOUS
          <4> QED  BY <3>2, <4>1, <4>2
        <3>3. ASSUME NEW j \in 1..Len(icebox[a]), writing'[a] = writeable[a],
                     outbox'[a] = requeue(outbox[a], Acked(icebox[a][j], Frame(a).count))
              PROVE  outbox'[a] # <<>> /\ writing'[a] = writeable[a]
          <4>1. icebox[a][j] \in Messages
            BY <2>0
          <4>2. Acked(icebox[a][j], Frame(a).count) \in Messages
            BY <2>2, <4>1, AckedIs
          <4>3. requeue(outbox[a], Acked(icebox[a][j], Frame(a).count)) # <<>>
            BY <2>0, <4>2, Requeued
          <4> QED  BY <3>3, <4>3
        <3> QED  BY <1>5, <3>1, <3>2, <3>3, AckFrameDoes
      <2>4. KeepsNews(a)
        BY <2>1 DEF KeepsMail, KeepsNews
      <2> QED  BY <2>1, <2>3, <2>4, ControlHandles DEF KeepsOpen
    <1> QED  BY <1>1, <1>2, <1>3, <1>4, <1>5

LEMMA ControlDeliver ==
    ASSUME TypeOK, NEW a \in Peers, \A p \in Peers : Control(p) /\ Wakeup(p), Deliver(a)
    PROVE  \A p \in Peers : Control(p)' /\ Wakeup(p)'
    <1> DEFINE b == Other(a)
    <1>1. b \in Peers /\ \A p \in Peers : p = a \/ p = b
      BY TwoPeers
    <1>2. /\ wire[a] # <<>> /\ socket[b] = "open" /\ TypeOK'
          /\ buffered'[a] = buffered[a] - Head(wire[a]).size /\ buffered'[b] = buffered[b]
          /\ incoming'[a] = incoming[a]
          /\ mailbox'[a] = IF Drains(a) /\ socket[a] = "open"
                           THEN Append(mailbox[a], Event("onWebSocketWriteable")) ELSE mailbox[a]
          /\ mailbox'[b] = IF incoming[b] = <<>>
                           THEN Append(mailbox[b], Event("onWebSocketMessages")) ELSE mailbox[b]
          /\ \A p \in Peers : KeepsQueues(p) /\ KeepsLoop(p) /\ KeepsWriting(p) /\ KeepsOpen(p)
      BY DeliverDoes
    <1>3. /\ mailbox[a] \in Seq(Events) /\ mailbox[b] \in Seq(Events) /\ buffered[a] \in Int
          /\ SendBuffer \in Nat /\ buffered'[a] \in Int
      BY <1>1, <1>2, Typed, BLIPIOAssumption DEF TypeOK
    <1>4. /\ Event("onWebSocketWriteable") \in Events /\ Event("onWebSocketMessages") \in Events
          /\ Room.ev = "onWebSocketWriteable" /\ Event("onWebSocketMessages").ev = "onWebSocketMessages"
      BY DEF Event, Events, Room
    <1> HIDE DEF b
    <1>5. /\ Closed \in ToSet(mailbox'[a]) => Closed \in ToSet(mailbox[a])
          /\ Room \in ToSet(mailbox[a]) => Room \in ToSet(mailbox'[a])
          /\ Drains(a) /\ socket[a] = "open" => Room \in ToSet(mailbox'[a])
      BY <1>2, <1>3, <1>4, NewsPosted DEF Room
    <1>6. KeepsNews(b)
      BY <1>2, <1>3, <1>4, NewsPosted DEF KeepsNews
    <1>7. Control(a)'
      BY <1>2, <1>5 DEF Control, KeepsQueues, KeepsLoop, KeepsWriting, KeepsOpen, Live, Closed
    <1>8. Wakeup(a)'
      <2>1. buffered[a] > SendBuffer => buffered'[a] > SendBuffer \/ Drains(a)
        BY <1>2, <1>3 DEF Drains
      <2> QED  BY <1>2, <1>5, <2>1 DEF Wakeup, KeepsQueues, KeepsWriting, KeepsOpen, Room
    <1>9. Control(b)'
      BY <1>1, <1>2, <1>6 DEF Control, KeepsNews, KeepsQueues, KeepsLoop, KeepsWriting, KeepsOpen, Live, Closed
    <1>10. Wakeup(b)'
      BY <1>1, <1>2, <1>6 DEF Wakeup, KeepsNews, KeepsQueues, KeepsWriting, KeepsOpen, Room
    <1> QED  BY <1>1, <1>7, <1>8, <1>9, <1>10
------------------------------------------------------------------------------
(***************************************************************************)
(* The messages of one peer.                                               *)
(***************************************************************************)

\* No request and no reply is posted or taken.
MailKept(p) ==
    \/ mailbox'[p] = mailbox[p]
    \/ \E e \in Events :
          /\ mailbox'[p] = Append(mailbox[p], e)
          /\ e.ev = "queueMessage" => isAck(e.msg) /\ e.msg.number > 0
    \/ mailbox[p] # <<>> /\ Head(mailbox[p]).ev # "queueMessage" /\ mailbox'[p] = Tail(mailbox[p])

LEMMA AcksDoNotCount ==
    ASSUME NEW m, isAck(m)
    PROVE  ~IsReq(m) /\ ~IsReply(m) /\ ~Counts(m) /\ \A x : ~Twins(m, x) /\ ~Twins(x, m)
    <1>1. ~IsReq(m) /\ ~IsReply(m)
      BY DEF isAck, IsReq, IsReply
    <1> QED  BY <1>1 DEF Counts, Twins

LEMMA MailKeptIs ==
    ASSUME TypeOK, NEW p \in Peers, MailKept(p)
    PROVE  /\ AllAlike(Posted(p)', Posted(p)) /\ AllAlike(Posted(p), Posted(p)')
           /\ \A made \in Nat : PostedOK(Posted(p), made) => PostedOK(Posted(p)', made)
           /\ \A out \in Seq(Messages), ice \in Seq(Messages) :
                 Alone(mailbox[p], out, ice) => Alone(mailbox'[p], out, ice)
           /\ \A last \in Nat, made \in Nat :
                 InMail(mailbox[p], last, made) /\ PostedOK(Posted(p), made) => InMail(mailbox'[p], last, made)
    <1>1. mailbox[p] \in Seq(Events) /\ Posted(p)' = PostedIn(mailbox'[p]) /\ Posted(p) = PostedIn(mailbox[p])
      BY Typed DEF Posted
    <1>2. CASE mailbox'[p] = mailbox[p]
      BY <1>1, <1>2, WithinItself
    <1>3. ASSUME NEW e \in Events, mailbox'[p] = Append(mailbox[p], e),
                 e.ev = "queueMessage" => isAck(e.msg) /\ e.msg.number > 0
          PROVE  /\ AllAlike(Posted(p)', Posted(p)) /\ AllAlike(Posted(p), Posted(p)')
                 /\ \A made \in Nat : PostedOK(Posted(p), made) => PostedOK(Posted(p)', made)
                 /\ \A out \in Seq(Messages), ice \in Seq(Messages) :
                       Alone(mailbox[p], out, ice) => Alone(mailbox'[p], out, ice)
                 /\ \A last \in Nat, made \in Nat :
                       InMail(mailbox[p], last, made) /\ PostedOK(Posted(p), made) =>
                          InMail(mailbox'[p], last, made)
      <2>1. e.ev = "queueMessage" =>
               ~IsReq(e.msg) /\ ~Counts(e.msg) /\ \A x : ~Twins(e.msg, x) /\ ~Twins(x, e.msg)
        BY <1>3, AcksDoNotCount
      <2>2. /\ \A x \in Posted(p)' : x \in Posted(p) \/ (e.ev = "queueMessage" /\ x = e.msg)
            /\ Posted(p) \subseteq Posted(p)'
        BY <1>1, <1>3, PostedMore
      <2>3. AllAlike(Posted(p)', Posted(p)) /\ AllAlike(Posted(p), Posted(p)')
        BY <2>1, <2>2 DEF AllAlike, Alike
      <2>4. \A made \in Nat : PostedOK(Posted(p), made) => PostedOK(Posted(p)', made)
        BY <1>3, <2>1, <2>2 DEF PostedOK
      <2>5. ASSUME NEW out \in Seq(Messages), NEW ice \in Seq(Messages), Alone(mailbox[p], out, ice)
            PROVE  Alone(mailbox'[p], out, ice)
        <3>1. e.ev = "queueMessage" => NoTwin(e.msg, PostedIn(mailbox[p]) \union HeldIn(out, ice))
          BY <2>1 DEF NoTwin
        <3>2. Alone(Append(mailbox[p], e), out, ice)
          BY <1>1, <2>5, <3>1, AlonePosted
        <3> QED  BY <1>3, <3>2
      <2>6. ASSUME NEW last \in Nat, NEW made \in Nat, InMail(mailbox[p], last, made)
            PROVE  InMail(mailbox'[p], last, made)
        <3>1. InMail(Append(mailbox[p], e), last, made)
          BY <1>1, <2>1, <2>6, InMailPosted
        <3> QED  BY <1>3, <3>1
      <2> QED  BY <2>3, <2>4, <2>5, <2>6
    <1>4. ASSUME mailbox[p] # <<>>, Head(mailbox[p]).ev # "queueMessage", mailbox'[p] = Tail(mailbox[p])
          PROVE  /\ AllAlike(Posted(p)', Posted(p)) /\ AllAlike(Posted(p), Posted(p)')
                 /\ \A made \in Nat : PostedOK(Posted(p), made) => PostedOK(Posted(p)', made)
                 /\ \A out \in Seq(Messages), ice \in Seq(Messages) :
                       Alone(mailbox[p], out, ice) => Alone(mailbox'[p], out, ice)
                 /\ \A last \in Nat, made \in Nat :
                       InMail(mailbox[p], last, made) /\ PostedOK(Posted(p), made) =>
                          InMail(mailbox'[p], last, made)
      <2>1. Posted(p)' = Posted(p)
        BY <1>1, <1>4, PostedLess
      <2>2. AllAlike(Posted(p)', Posted(p)) /\ AllAlike(Posted(p), Posted(p)')
        BY <2>1, WithinItself
      <2>3. \A out \in Seq(Messages), ice \in Seq(Messages) :
               Alone(mailbox[p], out, ice) => Alone(mailbox'[p], out, ice)
        BY <1>1, <1>4, AloneTaken
      <2>4. ASSUME NEW last \in Nat, NEW made \in Nat, InMail(mailbox[p], last, made), PostedOK(Posted(p), made)
            PROVE  InMail(mailbox'[p], last, made)
        <3>1. InMail(Tail(mailbox[p]), last, made)
          BY <1>1, <1>4, <2>4, InMailTaken
        <3> QED  BY <1>4, <3>1
      <2> QED  BY <2>1, <2>2, <2>3, <2>4
    <1> QED  BY <1>2, <1>3, <1>4 DEF MailKept

\* An ACK that is posted.
LEMMA MailAcked ==
    ASSUME TypeOK, NEW a \in Peers, NEW in \in Incomings, NEW f \in Frames, NEW type \in {"ACKREQ", "ACKRES"},
           mailbox'[a] = mailbox[a] \o Acknowledgement(in, f, type)
    PROVE  MailKept(a)
    <1>1. mailbox[a] \in Seq(Events)
      BY Typed
    <1>2. CASE mailbox'[a] = mailbox[a]
      BY <1>2 DEF MailKept
    <1>3. ASSUME NEW m \in Messages, isAck(m), m.number > 0, Queued(m) \in Events,
                 mailbox'[a] = Append(mailbox[a], Queued(m))
          PROVE  MailKept(a)
      <2>1. Queued(m).msg = m
        BY DEF Queued
      <2>2. PICK e \in Events : e = Queued(m)
        BY <1>3
      <2>3. mailbox'[a] = Append(mailbox[a], e) /\ isAck(e.msg) /\ e.msg.number > 0
        BY <1>3, <2>1, <2>2
      <2>4. \E x \in Events :
               /\ mailbox'[a] = Append(mailbox[a], x)
               /\ x.ev = "queueMessage" => isAck(x.msg) /\ x.msg.number > 0
        BY <2>3
      <2> QED  BY <2>4 DEF MailKept
    <1>4. \/ mailbox'[a] = mailbox[a]
          \/ \E m \in Messages : /\ isAck(m) /\ m.number > 0 /\ Queued(m) \in Events
                                 /\ mailbox'[a] = Append(mailbox[a], Queued(m))
      BY <1>1, AckPosted
    <1> QED  BY <1>2, <1>3, <1>4

\* The requests are the same, and want replies or not as before.
KeepsRequests(p) ==
    /\ Len(progress'[p]) = Len(progress[p]) /\ DOMAIN progress'[p] = DOMAIN progress[p]
    /\ \A i \in DOMAIN progress[p] : progress'[p][i].noReply = progress[p][i].noReply

LEMMA Kept ==
    ASSUME NEW p \in Peers
    PROVE  /\ progress'[p] = progress[p] => KeepsRequests(p)
           /\ KeepsMail(p) => MailKept(p)
           /\ outbox'[p] = outbox[p] /\ icebox'[p] = icebox[p] => Held(p)' = Held(p)
           /\ KeepsQueues(p) => Held(p)' = Held(p)
           /\ KeepsQueues(p) /\ KeepsMail(p) => Mine(p)' = Mine(p)
    BY DEF KeepsRequests, KeepsMail, MailKept, Held, Mine, Posted, KeepsQueues

LEMMA EndedKeeps ==
    ASSUME TypeOK, NEW p \in Peers, NEW ids, NEW how \in {"complete", "disconnected"},
           progress'[p] = Ended(p, ids, how)
    PROVE  KeepsRequests(p)
    <1>1. /\ Len(Ended(p, ids, how)) = Len(progress[p]) /\ DOMAIN Ended(p, ids, how) = DOMAIN progress[p]
          /\ \A i \in DOMAIN progress[p] : Ended(p, ids, how)[i].noReply = progress[p][i].noReply
      BY EndedIs
    <1> QED  BY <1>1 DEF KeepsRequests

LEMMA MineKept ==
    ASSUME TypeOK, NEW p \in Peers, MailKept(p), AllAlike(Held(p)', Held(p)), AllAlike(Held(p), Held(p)')
    PROVE  Within(Mine(p)', Mine(p)) /\ Within(Mine(p), Mine(p)')
    <1>1. AllAlike(Posted(p)', Posted(p)) /\ AllAlike(Posted(p), Posted(p)')
      BY MailKeptIs
    <1> QED  BY <1>1, AlikeWithin, WithinBoth DEF Mine

\* Own parts of the invariant.
LEMMA QueuesKept ==
    ASSUME TypeOK, NEW p \in Peers, Queues(p), MailKept(p), KeepsQueues(p), KeepsRequests(p)
    PROVE  Queues(p)'
    <1>1. /\ outbox[p] \in Seq(Messages) /\ icebox[p] \in Seq(Messages) /\ Len(progress[p]) \in Nat
          /\ Held(p)' = Held(p)
      BY Typed, Kept
    <1>2. Alone(mailbox'[p], outbox[p], icebox[p])
      BY <1>1, MailKeptIs DEF Queues
    <1>3. PostedOK(Posted(p)', Len(progress[p]))
      BY <1>1, MailKeptIs DEF Queues
    <1> QED  BY <1>1, <1>2, <1>3 DEF Queues, KeepsQueues, KeepsRequests

LEMMA InMailKept ==
    ASSUME TypeOK, NEW p \in Peers, Queues(p), Mail(p), MailKept(p), KeepsRequests(p),
           lastMessageNo'[p] = lastMessageNo[p], Live(p)' => Live(p)
    PROVE  Mail(p)'
    <1>1. lastMessageNo[p] \in Nat /\ Len(progress[p]) \in Nat
      BY Typed
    <1> SUFFICES ASSUME Live(p)' PROVE InMail(mailbox'[p], lastMessageNo[p], Len(progress[p]))
      BY DEF Mail, KeepsRequests
    <1>2. InMail(mailbox[p], lastMessageNo[p], Len(progress[p])) /\ PostedOK(Posted(p), Len(progress[p]))
      BY DEF Mail, Queues
    <1> QED  BY <1>1, <1>2, MailKeptIs

LEMMA AnswersKept ==
    ASSUME NEW p \in Peers, Answers(p), Within(Mine(p)', Mine(p)), toRespond'[p] = toRespond[p],
           numReceived'[p] = numReceived[p], DOMAIN pendingRequests'[p] \subseteq DOMAIN pendingRequests[p]
    PROVE  Answers(p)'
    <1>1. RepliesIn(Mine(p)', Mine(p))
      BY WithinReplies
    <1>2. Answered(Mine(p)', toRespond[p], numReceived[p], pendingRequests'[p])
      BY <1>1, AnsweredLess DEF Answers
    <1> QED  BY <1>2 DEF Answers

\* The requests of p that are awaited are requests of p.
LEMMA AwaitedAre ==
    ASSUME TypeOK, NEW p \in Peers, Queues(p), Awaits(p)
    PROVE  \A n \in DOMAIN pendingResponses[p] : n \in DOMAIN progress[p] /\ ~progress[p][n].noReply
    <1>1. /\ lastMessageNo[p] <= Len(progress[p]) /\ lastMessageNo[p] \in Nat /\ Len(progress[p]) \in Nat
          /\ DOMAIN progress[p] = 1..Len(progress[p]) /\ DOMAIN pendingResponses[p] \subseteq Nat \ {0}
      BY Typed DEF Queues, IsPending
    <1>2. \A n \in DOMAIN pendingResponses[p] : n <= lastMessageNo[p]
      BY DEF Awaits, Awaited
    <1>3. \A n \in DOMAIN pendingResponses[p] : n \in 1..Len(progress[p])
      BY <1>1, <1>2
    <1> QED  BY <1>1, <1>3 DEF Awaits

\* So are those in the mailbox and in the queues.
LEMMA MineAre ==
    ASSUME TypeOK, NEW p \in Peers, Queues(p)
    PROVE  \A m \in Mine(p) : m \in Messages /\ (IsReq(m) => m.id \in DOMAIN progress[p])
    <1>1. /\ lastMessageNo[p] <= Len(progress[p]) /\ lastMessageNo[p] \in Nat /\ Len(progress[p]) \in Nat
          /\ DOMAIN progress[p] = 1..Len(progress[p]) /\ mailbox[p] \in Seq(Events)
          /\ outbox[p] \in Seq(Messages) /\ icebox[p] \in Seq(Messages)
      BY Typed DEF Queues
    <1>2. \A m \in Posted(p) : m \in Messages /\ (IsReq(m) => m.id \in 1..Len(progress[p]))
      BY <1>1, PostedAre DEF Queues, PostedOK, Posted
    <1>3. \A m \in Held(p) : m \in Messages
      BY <1>1 DEF Held, HeldIn, ToSet
    <1>4. \A m \in Held(p) : IsReq(m) => m.number > 0 /\ m.number = m.id /\ m.id <= lastMessageNo[p]
      BY DEF Queues, HeldOK
    <1>5. \A m \in Held(p) : IsReq(m) => m.id \in 1..Len(progress[p])
      <2>1. \A m \in Messages : m.id \in Nat
        BY DEF Messages
      <2> QED  BY <1>1, <1>3, <1>4, <2>1
    <1> QED  BY <1>1, <1>2, <1>3, <1>5 DEF Mine

LEMMA AwaitsKept ==
    ASSUME TypeOK, NEW p \in Peers, Queues(p), Awaits(p), Within(Mine(p)', Mine(p)), KeepsRequests(p),
           lastMessageNo'[p] = lastMessageNo[p],
           DOMAIN pendingResponses'[p] \subseteq DOMAIN pendingResponses[p],
           \A n \in DOMAIN pendingResponses'[p] : pendingResponses'[p][n].id = pendingResponses[p][n].id
    PROVE  Awaits(p)'
    <1>1. \A m \in Mine(p)' : IsReq(m) => \E x \in Mine(p) : IsReq(x) /\ x.id = m.id
      BY DEF Within, Counts, Like, IsReq
    <1>2. Awaited(Mine(p)', lastMessageNo'[p], pendingResponses'[p])
      BY <1>1 DEF Awaits, Awaited
    <1>3. \A n \in DOMAIN pendingResponses'[p] : ~progress'[p][n].noReply
      BY AwaitedAre DEF KeepsRequests
    <1> QED  BY <1>2, <1>3 DEF Awaits

LEMMA EndsKept ==
    ASSUME NEW p \in Peers, progress'[p] = progress[p], Within(Mine(p)', Mine(p)),
           Within(Mine(p), Mine(p)'), DOMAIN pendingResponses'[p] = DOMAIN pendingResponses[p]
    PROVE  /\ NotTwice(p) => NotTwice(p)'
           /\ NotLost(p) => NotLost(p)'
    <1>1. \A m \in Mine(p)' : IsReq(m) => \E x \in Mine(p) : IsReq(x) /\ x.id = m.id
      BY DEF Within, Counts, Like, IsReq
    <1>2. \A m \in Mine(p) : IsReq(m) => \E x \in Mine(p)' : IsReq(x) /\ x.id = m.id
      BY DEF Within, Counts, Like, IsReq
    <1>3. NotTwice(p) => NotTwice(p)'
      BY <1>1 DEF NotTwice
    <1>4. NotLost(p) => NotLost(p)'
      BY <1>2 DEF NotLost
    <1> QED  BY <1>3, <1>4

Own(p) ==
    /\ Queues(p) /\ Mail(p) /\ Answers(p) /\ Awaits(p) /\ NotTwice(p)
    /\ ErrorsMayThrow \/ NotLost(p)

\* What leaves the messages as they are, leaves these parts.
LEMMA OwnKept ==
    ASSUME TypeOK, NEW p \in Peers, Own(p), MailKept(p), KeepsApp(p), KeepsQueues(p), KeepsReceived(p),
           Live(p)' => Live(p)
    PROVE  Own(p)'
    <1>1. KeepsRequests(p) /\ Held(p)' = Held(p)
      BY Kept DEF KeepsApp
    <1>2. Within(Mine(p)', Mine(p)) /\ Within(Mine(p), Mine(p)')
      BY <1>1, MineKept, WithinItself
    <1>3. Queues(p)' /\ Mail(p)'
      BY <1>1, QueuesKept, InMailKept DEF Own, KeepsQueues
    <1>4. Answers(p)'
      BY <1>2, AnswersKept DEF Own, KeepsApp, KeepsReceived
    <1>5. Awaits(p)'
      BY <1>1, <1>2, AwaitsKept DEF Own, KeepsQueues, KeepsReceived
    <1>6. (NotTwice(p) => NotTwice(p)') /\ (NotLost(p) => NotLost(p)')
      BY <1>2, EndsKept DEF KeepsApp, KeepsReceived
    <1> QED  BY <1>3, <1>4, <1>5, <1>6 DEF Own
------------------------------------------------------------------------------
(***************************************************************************)
(* What relates the two peers.                                             *)
(***************************************************************************)
Link(p) ==
    /\ Flags(p) /\ Kinds(p) /\ RequestsInOrder(p) /\ RequestsContinue(p) /\ AnswersExpected(p)

LEMMA JoinedSet ==
    ASSUME NEW S, NEW s \in Seq(S), NEW t \in Seq(S)
    PROVE  ToSet(s \o t) = ToSet(s) \union ToSet(t)
    <1>1. /\ s \o t \in Seq(S) /\ Len(s \o t) = Len(s) + Len(t) /\ Len(s) \in Nat /\ Len(t) \in Nat
          /\ \A i \in 1..Len(s)+Len(t) : (s \o t)[i] = IF i <= Len(s) THEN s[i] ELSE t[i - Len(s)]
      BY ConcatProperties
    <1>2. DOMAIN s = 1..Len(s) /\ DOMAIN t = 1..Len(t) /\ DOMAIN (s \o t) = 1..Len(s)+Len(t)
      BY <1>1
    <1>3. ASSUME NEW x \in ToSet(s \o t)
          PROVE  x \in ToSet(s) \union ToSet(t)
      <2>1. PICK i \in 1..Len(s)+Len(t) : x = (s \o t)[i]
        BY <1>2 DEF ToSet
      <2>2. CASE i <= Len(s)
        <3>1. i \in 1..Len(s) /\ x = s[i]
          BY <1>1, <2>1, <2>2
        <3> QED  BY <1>2, <3>1 DEF ToSet
      <2>3. CASE ~(i <= Len(s))
        <3>1. i - Len(s) \in 1..Len(t) /\ x = t[i - Len(s)]
          BY <1>1, <2>1, <2>3
        <3> QED  BY <1>2, <3>1 DEF ToSet
      <2> QED  BY <2>2, <2>3
    <1>4. ASSUME NEW x \in ToSet(s)
          PROVE  x \in ToSet(s \o t)
      <2>1. PICK i \in 1..Len(s) : x = s[i]
        BY <1>2 DEF ToSet
      <2>2. i \in 1..Len(s)+Len(t) /\ x = (s \o t)[i]
        BY <1>1, <2>1
      <2> QED  BY <1>2, <2>2 DEF ToSet
    <1>5. ASSUME NEW x \in ToSet(t)
          PROVE  x \in ToSet(s \o t)
      <2>1. PICK i \in 1..Len(t) : x = t[i]
        BY <1>2 DEF ToSet
      <2>2. i + Len(s) \in 1..Len(s)+Len(t) /\ x = (s \o t)[i + Len(s)]
        BY <1>1, <2>1
      <2> QED  BY <1>2, <2>2 DEF ToSet
    <1> QED  BY <1>3, <1>4, <1>5

LEMMA StreamIs ==
    ASSUME TypeOK, NEW p \in Peers
    PROVE  /\ Stream(p) \in Seq(Frames)
           /\ ToSet(Stream(p)) = (ToSet(batch[Other(p)]) \union ToSet(incoming[Other(p)])) \union ToSet(wire[p])
    <1>1. /\ batch[Other(p)] \in Seq(Frames) /\ incoming[Other(p)] \in Seq(Frames) /\ wire[p] \in Seq(Frames)
      BY TwoPeers, Typed
    <1>2. batch[Other(p)] \o incoming[Other(p)] \in Seq(Frames)
      BY <1>1, Joined
    <1>3. ToSet(batch[Other(p)] \o incoming[Other(p)]) = ToSet(batch[Other(p)]) \union ToSet(incoming[Other(p)])
      BY <1>1, JoinedSet
    <1>4. (batch[Other(p)] \o incoming[Other(p)]) \o wire[p] \in Seq(Frames)
      BY <1>1, <1>2, Joined
    <1>5. ToSet((batch[Other(p)] \o incoming[Other(p)]) \o wire[p])
             = ToSet(batch[Other(p)] \o incoming[Other(p)]) \union ToSet(wire[p])
      BY <1>1, <1>2, JoinedSet
    <1> QED  BY <1>3, <1>4, <1>5 DEF Stream

\* One part at a time, what keeps it.
LEMMA FlagsKept ==
    ASSUME TypeOK, NEW p \in Peers, Queues(p), Flags(p), Within(Mine(p)', Mine(p)), KeepsRequests(p),
           ToSet(Stream(p)') \subseteq ToSet(Stream(p)),
           \A n \in DOMAIN pendingRequests'[Other(p)] :
              /\ n \in DOMAIN pendingRequests[Other(p)]
              /\ pendingRequests'[Other(p)][n].noReply = pendingRequests[Other(p)][n].noReply
    PROVE  Flags(p)'
    <1>1. ASSUME NEW m \in Mine(p)', IsReq(m)
          PROVE  m.noReply = progress'[p][m.id].noReply
      <2>1. PICK x \in Mine(p) : IsReq(x) /\ x.id = m.id /\ x.noReply = m.noReply
        BY <1>1 DEF Within, Counts, Like, IsReq
      <2>2. x.id \in DOMAIN progress[p] /\ x.noReply = progress[p][x.id].noReply
        BY <2>1, MineAre DEF Flags
      <2> QED  BY <2>1, <2>2 DEF KeepsRequests
    <1>2. \A f \in ToSet(Stream(p)') : IsReq(f) =>
             f.number \in DOMAIN progress'[p] /\ f.noReply = progress'[p][f.number].noReply
      BY DEF Flags, KeepsRequests
    <1>3. \A n \in DOMAIN pendingRequests'[Other(p)] :
             n \in DOMAIN progress'[p] /\ pendingRequests'[Other(p)][n].noReply = progress'[p][n].noReply
      BY DEF Flags, KeepsRequests
    <1> QED  BY <1>1, <1>2, <1>3 DEF Flags

LEMMA KindsKept ==
    ASSUME NEW p \in Peers, Kinds(p), Within(Mine(p)', Mine(p)), ToSet(Stream(p)') \subseteq ToSet(Stream(p))
    PROVE  Kinds(p)'
    <1>1. ASSUME NEW m \in Mine(p)', m.type = "ERR"
          PROVE  ErrorsMade
      <2>1. PICK x \in Mine(p) : x.type = "ERR"
        BY <1>1 DEF Within, Counts, Like, IsReq, IsReply
      <2> QED  BY <2>1 DEF Kinds
    <1>2. ASSUME NEW f \in ToSet(Stream(p)'), f.type = "ERR"
          PROVE  ErrorsMade
      BY <1>2 DEF Kinds
    <1> QED  BY <1>1, <1>2 DEF Kinds, ErrorsMade

LEMMA OrderKept ==
    ASSUME NEW p \in Peers, RequestsInOrder(p), Live(Other(p))' => Live(Other(p)) /\ Stream(p)' = Stream(p),
           numReceived'[Other(p)] = numReceived[Other(p)],
           pendingRequests'[Other(p)] = pendingRequests[Other(p)]
    PROVE  RequestsInOrder(p)'
    BY DEF RequestsInOrder

LEMMA ContinueKept ==
    ASSUME NEW p \in Peers, RequestsContinue(p), Live(Other(p))' => Live(Other(p)) /\ Stream(p)' = Stream(p),
           Live(p)' => Live(p), closeSent[p] => closeSent'[p],
           AllAlike(Held(p)', Held(p)), AllAlike(Held(p), Held(p)'), lastMessageNo'[p] = lastMessageNo[p],
           numReceived'[Other(p)] = numReceived[Other(p)],
           pendingRequests'[Other(p)] = pendingRequests[Other(p)]
    PROVE  RequestsContinue(p)'
    <1> SUFFICES ASSUME Live(p)', Live(Other(p))', ~closeSent'[p]
                 PROVE  Continues(Held(p)', lastMessageNo[p], Stream(p), numReceived[Other(p)],
                                  pendingRequests[Other(p)])
      BY DEF RequestsContinue
    <1>1. Continues(Held(p), lastMessageNo[p], Stream(p), numReceived[Other(p)], pendingRequests[Other(p)])
      BY DEF RequestsContinue
    <1> QED  BY <1>1, ContinuesAlike

LEMMA ExpectedKept ==
    ASSUME NEW p \in Peers, AnswersExpected(p), Live(p)' => Live(p) /\ Stream(Other(p))' = Stream(Other(p)),
           RepliesIn(Mine(Other(p))', Mine(Other(p))), toRespond'[Other(p)] \subseteq toRespond[Other(p)],
           ToSet(Stream(p)') \subseteq ToSet(Stream(p)),
           Live(p)' => DOMAIN pendingResponses[p] \subseteq DOMAIN pendingResponses'[p]
    PROVE  AnswersExpected(p)'
    <1> SUFFICES ASSUME Live(p)'
                 PROVE  Expected(Mine(Other(p))', toRespond'[Other(p)], Stream(p)', Stream(Other(p)),
                                 pendingResponses'[p])
      BY DEF AnswersExpected
    <1>1. Expected(Mine(Other(p)), toRespond[Other(p)], Stream(p), Stream(Other(p)), pendingResponses[p])
      BY DEF AnswersExpected
    <1> QED  BY <1>1, ExpectedLess
------------------------------------------------------------------------------
(***************************************************************************)
(* Steps that only move frames on, or close.                               *)
(***************************************************************************)

\* The messages and the frames of p stay, while someone handles them.
Quiet(p) ==
    /\ MailKept(p) /\ KeepsApp(p) /\ KeepsQueues(p) /\ KeepsReceived(p)
    /\ Live(p)' = Live(p) /\ (closeSent[p] => closeSent'[p])
    /\ ToSet(Stream(p)') \subseteq ToSet(Stream(p))
    /\ Live(Other(p)) => Stream(p)' = Stream(p)

LEMMA QuietKept ==
    ASSUME TypeOK, \A p \in Peers : Own(p) /\ Link(p), \A p \in Peers : Quiet(p)
    PROVE  \A p \in Peers : Own(p)' /\ Link(p)'
    <1> SUFFICES ASSUME NEW p \in Peers PROVE Own(p)' /\ Link(p)'
      OBVIOUS
    <1>1. Other(p) \in Peers /\ Other(Other(p)) = p
      BY TwoPeers
    <1>2. \A q \in Peers : AllAlike(Held(q)', Held(q)) /\ AllAlike(Held(q), Held(q)')
      <2> TAKE q \in Peers
      <2>1. Held(q)' = Held(q)
        BY Kept DEF Quiet
      <2> QED  BY <2>1, WithinItself
    <1>3. \A q \in Peers : Within(Mine(q)', Mine(q)) /\ RepliesIn(Mine(q)', Mine(q))
      BY <1>2, MineKept, WithinReplies DEF Quiet
    <1>4. Own(p)'
      BY OwnKept DEF Quiet
    <1>5. /\ Queues(p) /\ Flags(p) /\ Kinds(p) /\ RequestsInOrder(p) /\ RequestsContinue(p)
          /\ AnswersExpected(p)
      BY DEF Own, Link
    <1>6. /\ KeepsRequests(p) /\ ToSet(Stream(p)') \subseteq ToSet(Stream(p))
          /\ Live(Other(p))' => Live(Other(p)) /\ Stream(p)' = Stream(p)
          /\ Live(p)' => Live(p) /\ Stream(Other(p))' = Stream(Other(p))
          /\ closeSent[p] => closeSent'[p]
      BY <1>1, Kept DEF Quiet, KeepsApp
    <1>7. /\ pendingRequests'[Other(p)] = pendingRequests[Other(p)]
          /\ numReceived'[Other(p)] = numReceived[Other(p)]
          /\ pendingResponses'[p] = pendingResponses[p] /\ toRespond'[Other(p)] = toRespond[Other(p)]
          /\ lastMessageNo'[p] = lastMessageNo[p]
      BY <1>1 DEF Quiet, KeepsReceived, KeepsApp, KeepsQueues
    <1>8. Flags(p)'
      BY <1>3, <1>5, <1>6, <1>7, FlagsKept
    <1>9. Kinds(p)'
      BY <1>3, <1>5, <1>6, KindsKept
    <1>10. RequestsInOrder(p)'
      BY <1>5, <1>6, <1>7, OrderKept
    <1>11. RequestsContinue(p)'
      BY <1>2, <1>5, <1>6, <1>7, ContinueKept
    <1>12. AnswersExpected(p)'
      BY <1>1, <1>3, <1>5, <1>6, <1>7, ExpectedKept
    <1> QED  BY <1>4, <1>8, <1>9, <1>10, <1>11, <1>12 DEF Link

\* The streams, when the step leaves what they are made of.
LEMMA StreamKept ==
    ASSUME NEW p \in Peers, batch'[Other(p)] = batch[Other(p)], incoming'[Other(p)] = incoming[Other(p)],
           wire'[p] = wire[p]
    PROVE  Stream(p)' = Stream(p)
    BY DEF Stream

LEMMA LiveKept ==
    ASSUME NEW p \in Peers, KeepsOpen(p)
    PROVE  Live(p)' = Live(p) /\ closeSent'[p] = closeSent[p]
    BY DEF KeepsOpen, Live

LEMMA MailSignals ==
    ASSUME TypeOK, NEW p \in Peers
    PROVE  /\ \A e \in {Event("close"), Event("closed"), Room, Event("onWebSocketMessages")} :
                 mailbox'[p] = Append(mailbox[p], e) => MailKept(p)
           /\ mailbox[p] # <<>> /\ Head(mailbox[p]).ev # "queueMessage" /\ mailbox'[p] = Tail(mailbox[p])
                 => MailKept(p)
    <1>1. ASSUME NEW e \in {Event("close"), Event("closed"), Room, Event("onWebSocketMessages")},
                 mailbox'[p] = Append(mailbox[p], e)
          PROVE  MailKept(p)
      <2>1. e \in Events /\ e.ev # "queueMessage"
        BY DEF Event, Room, Events
      <2> QED  BY <1>1, <2>1 DEF MailKept
    <1>2. mailbox[p] # <<>> /\ Head(mailbox[p]).ev # "queueMessage" /\ mailbox'[p] = Tail(mailbox[p])
             => MailKept(p)
      BY DEF MailKept
    <1> QED  BY <1>1, <1>2

\* A step of a, that leaves the other peer alone.
LEMMA QuietStep ==
    ASSUME TypeOK, NEW a \in Peers, Untouched(Other(a)),
           MailKept(a), KeepsApp(a), KeepsQueues(a), KeepsReceived(a),
           Live(a)' = Live(a), closeSent[a] => closeSent'[a], wire'[a] = wire[a],
           ToSet(Stream(Other(a))') \subseteq ToSet(Stream(Other(a))),
           Live(a) => Stream(Other(a))' = Stream(Other(a))
    PROVE  \A p \in Peers : Quiet(p)
    <1>1. Other(a) \in Peers /\ Other(Other(a)) = a /\ \A q \in Peers : q = a \/ q = Other(a)
      BY TwoPeers
    <1>2. Stream(a)' = Stream(a)
      BY StreamKept DEF Untouched, KeepsLoop, KeepsLinks
    <1>3. Quiet(a)
      BY <1>2 DEF Quiet
    <1>4. MailKept(Other(a)) /\ Live(Other(a))' = Live(Other(a)) /\ closeSent'[Other(a)] = closeSent[Other(a)]
      BY <1>1, Kept, LiveKept DEF Untouched
    <1>5. Quiet(Other(a))
      BY <1>1, <1>4 DEF Quiet, Untouched
    <1> QED  BY <1>1, <1>3, <1>5

\* The steps of one actor that are quiet.
LEMMA QuietActor ==
    ASSUME TypeOK, NEW a \in Peers, Control(a),
           \/ Close(a) \/ SocketClosed(a) \/ ReceivedClose(a) \/ OnWriteable(a) \/ OnMessages(a)
           \/ OnClose(a) \/ OnClosed(a)
    PROVE  \A p \in Peers : Quiet(p)
    <1>1. Other(a) \in Peers /\ Other(Other(a)) = a
      BY TwoPeers
    <1>2. /\ batch[a] \in Seq(Frames) /\ incoming[a] \in Seq(Frames) /\ wire[Other(a)] \in Seq(Frames)
      BY <1>1, Typed
    <1>3. Untouched(Other(a)) /\ batch'[a] = batch[a] /\ incoming'[a] = incoming[a] =>
             Stream(Other(a))' = Stream(Other(a))
      BY <1>1, StreamKept DEF Untouched, KeepsLinks
    <1>4. Untouched(Other(a)) => Stream(Other(a))' = (batch'[a] \o incoming'[a]) \o wire[Other(a)]
      BY <1>1 DEF Stream, Untouched, KeepsLinks
    <1>5. Stream(Other(a)) = (batch[a] \o incoming[a]) \o wire[Other(a)]
      BY <1>1 DEF Stream
    <1>6. ToSet(wire[Other(a)]) \subseteq ToSet(Stream(Other(a)))
      BY <1>1, StreamIs
    <1>7. CASE Close(a)
      <2>1. MailKept(a)
        BY <1>7, CloseDoes, MailSignals
      <2> QED  BY <1>3, <1>7, <2>1, CloseDoes, QuietStep, LiveKept DEF KeepsLoop, KeepsLinks
    <1>8. CASE SocketClosed(a)
      <2>1. MailKept(a)
        BY <1>8, SocketClosedDoes, MailSignals
      <2>2. Live(a)' = Live(a)
        BY <1>8, SocketClosedDoes DEF Live
      <2> QED  BY <1>3, <1>8, <2>1, <2>2, SocketClosedDoes, QuietStep DEF KeepsLoop, KeepsLinks
    <1>9. CASE ReceivedClose(a)
      <2>1. MailKept(a)
        BY <1>9, ReceivedCloseDoes, Kept
      <2>2. Live(a)' = Live(a)
        BY <1>9, ReceivedCloseDoes DEF Live
      <2> QED  BY <1>3, <1>9, <2>1, <2>2, ReceivedCloseDoes, QuietStep DEF KeepsLoop, KeepsLinks
    <1>10. CASE OnWriteable(a)
      <2>1. MailKept(a)
        BY <1>10, OnWriteableDoes, MailSignals
      <2> QED  BY <1>3, <1>10, <2>1, OnWriteableDoes, QuietStep, LiveKept DEF KeepsLoop, KeepsLinks
    <1>11. CASE OnClose(a)
      <2>1. MailKept(a)
        BY <1>11, OnCloseDoes, MailSignals
      <2>2. Live(a)' = Live(a)
        BY <1>11, OnCloseDoes DEF Live
      <2>3. closeSent[a] => closeSent'[a]
        BY <1>11, OnCloseDoes
      <2> QED  BY <1>3, <1>11, <2>1, <2>2, <2>3, OnCloseDoes, QuietStep DEF KeepsLoop, KeepsLinks
    <1>12. CASE OnMessages(a) /\ (incoming[a] = <<>> \/ closingWithError[a] # "none")
      <2>1. MailKept(a)
        BY <1>12, OnMessagesDrops, MailSignals
      <2>2. incoming[a] = <<>> => Stream(Other(a))' = Stream(Other(a))
        BY <1>3, <1>12, OnMessagesDrops DEF KeepsLoop
      <2>3. closingWithError[a] # "none" => ~Live(a)
        BY DEF Live
      <2>4. batch[a] = <<>>
        BY <1>12, OnMessagesDrops DEF Control
      <2>5. Stream(Other(a))' = wire[Other(a)] \/ Stream(Other(a))' = Stream(Other(a))
        <3>1. Stream(Other(a))' = (<<>> \o <<>>) \o wire[Other(a)]
          BY <1>4, <1>12, <2>4, OnMessagesDrops DEF KeepsLoop
        <3>2. (<<>> \o <<>>) \o wire[Other(a)] = wire[Other(a)]
          BY <1>2, <2>4, Joined
        <3> QED  BY <3>1, <3>2
      <2>6. ToSet(Stream(Other(a))') \subseteq ToSet(Stream(Other(a)))
        BY <1>6, <2>5
      <2> QED  BY <1>12, <2>1, <2>2, <2>3, <2>6, OnMessagesDrops, QuietStep, LiveKept
    <1>13. CASE OnMessages(a) /\ ~(incoming[a] = <<>> \/ closingWithError[a] # "none")
      <2>1. MailKept(a)
        BY <1>13, OnMessagesPops, MailSignals
      <2>2. batch[a] = <<>>
        BY <1>13, OnMessagesPops DEF Control
      <2>3. Stream(Other(a))' = Stream(Other(a))
        <3>1. Stream(Other(a))' = (incoming[a] \o <<>>) \o wire[Other(a)]
          BY <1>4, <1>13, OnMessagesPops
        <3>2. incoming[a] \o <<>> = <<>> \o incoming[a]
          BY <1>2, <2>2, Joined
        <3> QED  BY <1>5, <2>2, <3>1, <3>2
      <2> QED  BY <1>13, <2>1, <2>3, OnMessagesPops, QuietStep, LiveKept
    <1>14. CASE OnClosed(a)
      <2>1. MailKept(a)
        BY <1>14, OnClosedDoes, MailSignals
      <2>2. batch[a] = <<>>
        BY <1>14, OnClosedDoes DEF Control
      <2>3. closingWithError[a] = "none" => Stream(Other(a))' = Stream(Other(a))
        <3> HAVE closingWithError[a] = "none"
        <3>1. Stream(Other(a))' = (incoming[a] \o <<>>) \o wire[Other(a)]
          BY <1>4, <1>14, OnClosedDoes
        <3>2. incoming[a] \o <<>> = <<>> \o incoming[a]
          BY <1>2, <2>2, Joined
        <3> QED  BY <1>5, <2>2, <3>1, <3>2
      <2>4. closingWithError[a] # "none" => Stream(Other(a))' = wire[Other(a)]
        <3> HAVE closingWithError[a] # "none"
        <3>1. Stream(Other(a))' = (<<>> \o <<>>) \o wire[Other(a)]
          BY <1>4, <1>14, OnClosedDoes
        <3>2. (<<>> \o <<>>) \o wire[Other(a)] = wire[Other(a)]
          BY <1>2, <2>2, Joined
        <3> QED  BY <3>1, <3>2
      <2>5. /\ ToSet(Stream(Other(a))') \subseteq ToSet(Stream(Other(a)))
            /\ Live(a) => Stream(Other(a))' = Stream(Other(a))
        BY <1>6, <2>3, <2>4 DEF Live
      <2> QED  BY <1>14, <2>1, <2>5, OnClosedDoes, QuietStep, LiveKept
    <1> QED  BY <1>7, <1>8, <1>9, <1>10, <1>11, <1>12, <1>13, <1>14

\* A frame is delivered.
LEMMA Moved ==
    ASSUME NEW s \in Seq(Frames), NEW t \in Seq(Frames), NEW w \in Seq(Frames), w # <<>>
    PROVE  (s \o Append(t, Head(w))) \o Tail(w) = (s \o t) \o w
    <1>1. Head(w) \in Frames /\ Tail(w) \in Seq(Frames)
      BY Shorter
    <1>2. s \o Append(t, Head(w)) = Append(s \o t, Head(w))
      BY <1>1, Joined
    <1>3. PICK u \in Seq(Frames) : u = s \o t
      BY Joined
    <1>4. \A x \in Seq(Frames) : x \o w = Append(x, Head(w)) \o Tail(w)
      <2> TAKE x \in Seq(Frames)
      <2> QED  BY Joined
    <1> QED  BY <1>2, <1>3, <1>4

LEMMA QuietDeliver ==
    ASSUME TypeOK, NEW a \in Peers, Deliver(a)
    PROVE  \A p \in Peers : Quiet(p)
    <1> DEFINE b == Other(a)
    <1>1. b \in Peers /\ Other(b) = a /\ \A q \in Peers : q = a \/ q = b
      BY TwoPeers
    <1>2. batch[b] \in Seq(Frames) /\ incoming[b] \in Seq(Frames) /\ wire[a] \in Seq(Frames)
      BY <1>1, Typed
    <1>3. /\ MailKept(a) /\ MailKept(b)
      <2>1. MailKept(a)
        BY DeliverDoes, MailSignals, Kept DEF KeepsMail, Room
      <2>2. MailKept(b)
        BY <1>1, DeliverDoes, MailSignals, Kept DEF KeepsMail
      <2> QED  BY <2>1, <2>2
    <1>4. Stream(b)' = Stream(b)
      BY <1>1, DeliverDoes, StreamKept DEF KeepsLoop
    <1>5. Stream(a)' = Stream(a)
      <2>1. Stream(a)' = (batch[b] \o Append(incoming[b], Head(wire[a]))) \o Tail(wire[a])
        BY <1>1, DeliverDoes DEF Stream, KeepsLoop
      <2>2. wire[a] # <<>>
        BY DeliverDoes
      <2>3. (batch[b] \o Append(incoming[b], Head(wire[a]))) \o Tail(wire[a]) = (batch[b] \o incoming[b]) \o wire[a]
        BY <1>2, <2>2, Moved
      <2>4. Stream(a) = (batch[b] \o incoming[b]) \o wire[a]
        BY DEF Stream
      <2> QED  BY <2>1, <2>3, <2>4
    <1>6. ASSUME NEW p \in Peers PROVE Quiet(p)
      <2>1. /\ KeepsApp(p) /\ KeepsQueues(p) /\ KeepsReceived(p) /\ KeepsOpen(p)
        BY DeliverDoes
      <2>2. MailKept(p) /\ Stream(p)' = Stream(p)
        BY <1>1, <1>3, <1>4, <1>5
      <2> QED  BY <2>1, <2>2, LiveKept DEF Quiet
    <1> QED  BY <1>6
------------------------------------------------------------------------------
(***************************************************************************)
(* Steps that move messages.                                               *)
(***************************************************************************)

\* Nothing changes for the peer that does not move ...
LEMMA NearBy ==
    ASSUME TypeOK, NEW a \in Peers, NEW b \in Peers, b = Other(a), Untouched(b), Own(b), Link(b),
           numReceived'[a] = numReceived[a], pendingRequests'[a] = pendingRequests[a],
           batch'[a] = batch[a], incoming'[a] = incoming[a], wire'[a] = wire[a], Live(a)' => Live(a)
    PROVE  /\ Own(b)' /\ Flags(b)' /\ Kinds(b)' /\ RequestsInOrder(b)' /\ RequestsContinue(b)'
           /\ Stream(b)' = Stream(b) /\ Stream(a)' = Stream(a) /\ Live(b)' = Live(b)
           /\ pendingResponses'[b] = pendingResponses[b]
    <1>1. Other(b) = a
      BY TwoPeers
    <1>2. /\ MailKept(b) /\ KeepsRequests(b) /\ Mine(b)' = Mine(b) /\ Held(b)' = Held(b)
          /\ Live(b)' = Live(b) /\ closeSent'[b] = closeSent[b]
      BY Kept, LiveKept DEF Untouched, KeepsApp
    <1>3. Stream(b)' = Stream(b) /\ Stream(a)' = Stream(a)
      BY <1>1, StreamKept DEF Untouched, KeepsLinks, KeepsLoop
    <1>4. /\ Within(Mine(b)', Mine(b)) /\ AllAlike(Held(b)', Held(b)) /\ AllAlike(Held(b), Held(b)')
      BY <1>2, WithinItself
    <1>5. Own(b)'
      BY <1>2, OwnKept DEF Untouched
    <1>6. Queues(b) /\ Flags(b) /\ Kinds(b) /\ RequestsInOrder(b) /\ RequestsContinue(b)
      BY DEF Own, Link
    <1>7. lastMessageNo'[b] = lastMessageNo[b] /\ pendingResponses'[b] = pendingResponses[b]
      BY DEF Untouched, KeepsQueues, KeepsReceived
    <1>8. Flags(b)'
      BY <1>1, <1>2, <1>3, <1>4, <1>6, FlagsKept
    <1>9. Kinds(b)'
      BY <1>3, <1>4, <1>6, KindsKept
    <1>10. RequestsInOrder(b)'
      BY <1>1, <1>3, <1>6, OrderKept
    <1>11. RequestsContinue(b)'
      BY <1>1, <1>2, <1>3, <1>4, <1>6, <1>7, ContinueKept
    <1> QED  BY <1>2, <1>3, <1>5, <1>7, <1>8, <1>9, <1>10, <1>11

\* ... unless a reply is made ...
LEMMA Bystander ==
    ASSUME TypeOK, NEW a \in Peers, NEW b \in Peers, b = Other(a), Untouched(b), Own(b), Link(b),
           RepliesIn(Mine(a)', Mine(a)), toRespond'[a] \subseteq toRespond[a],
           numReceived'[a] = numReceived[a], pendingRequests'[a] = pendingRequests[a],
           batch'[a] = batch[a], incoming'[a] = incoming[a], wire'[a] = wire[a], Live(a)' => Live(a)
    PROVE  Own(b)' /\ Link(b)'
    <1>1. Other(b) = a /\ AnswersExpected(b)
      BY TwoPeers DEF Link
    <1>2. /\ Own(b)' /\ Flags(b)' /\ Kinds(b)' /\ RequestsInOrder(b)' /\ RequestsContinue(b)'
          /\ Stream(b)' = Stream(b) /\ Stream(a)' = Stream(a) /\ Live(b)' = Live(b)
          /\ pendingResponses'[b] = pendingResponses[b]
      BY NearBy
    <1>3. AnswersExpected(b)'
      BY <1>1, <1>2, ExpectedKept
    <1> QED  BY <1>2, <1>3 DEF Link

\* ... and these parts depend on what the other peer has.
LEMMA FarSide ==
    ASSUME TypeOK, NEW a \in Peers, NEW b \in Peers, b = Other(a), Untouched(b), Link(a),
           batch'[a] = batch[a], incoming'[a] = incoming[a], wire'[a] = wire[a], Live(a)' => Live(a),
           Live(a)' => DOMAIN pendingResponses[a] \subseteq DOMAIN pendingResponses'[a]
    PROVE  RequestsInOrder(a)' /\ AnswersExpected(a)' /\ Stream(a)' = Stream(a)
    <1>1. Other(b) = a
      BY TwoPeers
    <1>2. Stream(b)' = Stream(b) /\ Stream(a)' = Stream(a)
      BY <1>1, StreamKept DEF Untouched, KeepsLinks, KeepsLoop
    <1>3. Live(b)' = Live(b) /\ Mine(b)' = Mine(b) /\ toRespond'[b] = toRespond[b]
      BY Kept, LiveKept DEF Untouched, KeepsApp
    <1>4. RepliesIn(Mine(b)', Mine(b))
      BY <1>3 DEF RepliesIn
    <1>5. RequestsInOrder(a) /\ AnswersExpected(a)
      BY DEF Link
    <1>6. RequestsInOrder(a)'
      BY <1>2, <1>3, <1>5, OrderKept DEF Untouched, KeepsReceived
    <1>7. AnswersExpected(a)'
      BY <1>2, <1>3, <1>4, <1>5, ExpectedKept
    <1> QED  BY <1>2, <1>6, <1>7

\* sendRequest
LEMMA SendRequestKeeps ==
    ASSUME TypeOK, NEW a \in Peers, NEW shape \in Shapes[a], SendRequest(a, shape),
           \A p \in Peers : Own(p) /\ Link(p)
    PROVE  \A p \in Peers : Own(p)' /\ Link(p)'
    <1> DEFINE m == NewRequest(shape, Len(progress[a]) + 1)
               r == [noReply |-> shape.noReply, ends |-> <<>>]
               made == Len(progress[a])
    <1>1. PICK b \in Peers : b = Other(a) /\ Other(b) = a /\ \A q \in Peers : q = a \/ q = b
      BY TwoPeers
    <1>2. /\ progress[a] \in Seq(Requests) /\ mailbox[a] \in Seq(Events) /\ outbox[a] \in Seq(Messages)
          /\ icebox[a] \in Seq(Messages) /\ lastMessageNo[a] \in Nat /\ made \in Nat
          /\ DOMAIN progress[a] = 1..made
      BY Typed
    <1>3. /\ m \in Messages /\ Queued(m) \in Events /\ m.type = "REQ" /\ m.id = made + 1
          /\ m.number = 0 /\ m.bytesSent = 0 /\ m.noReply = shape.noReply /\ shape.noReply \in BOOLEAN
      BY <1>2, NewMessages
    <1>4. /\ mailbox'[a] = Append(mailbox[a], Queued(m)) /\ progress'[a] = Append(progress[a], r)
          /\ Untouched(b) /\ KeepsQueues(a) /\ KeepsReceived(a) /\ KeepsLoop(a) /\ KeepsWriting(a)
          /\ KeepsLinks(a) /\ KeepsOpen(a) /\ toRespond'[a] = toRespond[a]
      BY <1>1, SendRequestDoes
    <1>5. r \in Requests /\ r.ends = <<>> /\ r.noReply = m.noReply
      BY <1>3 DEF Requests
    <1> HIDE DEF m, r
    <1>6. /\ DOMAIN progress'[a] = 1..made+1 /\ Len(progress'[a]) = made + 1
          /\ progress'[a][made + 1] = r /\ \A i \in 1..made : progress'[a][i] = progress[a][i]
      BY <1>2, <1>4, <1>5
    <1> HIDE DEF made
    <1>7. Queued(m).ev = "queueMessage" /\ Queued(m).msg = m
      BY DEF Queued
    <1>8. Posted(a)' = Posted(a) \union {m} /\ Held(a)' = Held(a) /\ Mine(a)' = Mine(a) \union {m}
      <2>1. Posted(a)' = Posted(a) \union {m}
        BY <1>2, <1>3, <1>4, <1>7, PostedMore DEF Posted
      <2>2. Held(a)' = Held(a)
        BY <1>4, Kept
      <2> QED  BY <2>1, <2>2 DEF Mine
    <1>9. IsReq(m) /\ ~IsReply(m) /\ RepliesIn(Mine(a)', Mine(a))
      BY <1>3, <1>8 DEF IsReq, IsReply, RepliesIn
    <1>10. /\ Queues(a) /\ Mail(a) /\ Answers(a) /\ Awaits(a) /\ NotTwice(a)
           /\ ErrorsMayThrow \/ NotLost(a)
      BY DEF Own
    <1>11. \A x \in Mine(a) : x \in Messages /\ (IsReq(x) => x.id \in 1..made /\ x.id # m.id)
      BY <1>2, <1>3, <1>10, MineAre
    <1>12. \A n \in DOMAIN pendingResponses[a] : n \in 1..made /\ ~progress[a][n].noReply /\ n # m.id
      BY <1>2, <1>3, <1>10, AwaitedAre
    <1>13. Queues(a)'
      <2>1. NoTwin(m, PostedIn(mailbox[a]) \union HeldIn(outbox[a], icebox[a]))
        BY <1>9, <1>11 DEF NoTwin, Twins, Mine, Posted, Held
      <2>2. Alone(mailbox'[a], outbox[a], icebox[a])
        <3>1. Alone(mailbox[a], outbox[a], icebox[a])
          BY <1>10 DEF Queues
        <3>2. Alone(Append(mailbox[a], Queued(m)), outbox[a], icebox[a])
          BY <1>2, <1>3, <1>7, <2>1, <3>1, AlonePosted
        <3> QED  BY <1>4, <3>2
      <2>3. PostedOK(Posted(a)', made + 1)
        <3>1. PostedOK(Posted(a), made)
          BY <1>10 DEF Queues, made
        <3>2. \A k \in 1..made : k \in 1..made+1
          BY <1>2
        <3>3. m.id \in 1..made+1
          BY <1>2, <1>3
        <3> QED  BY <1>3, <1>8, <1>9, <3>1, <3>2, <3>3 DEF PostedOK
      <2>4. lastMessageNo[a] <= made + 1
        <3>1. lastMessageNo[a] <= made
          BY <1>10 DEF Queues, made
        <3> QED  BY <1>2, <3>1
      <2> QED  BY <1>4, <1>6, <1>8, <1>10, <2>2, <2>3, <2>4 DEF Queues, KeepsQueues
    <1>14. Mail(a)'
      <2> SUFFICES ASSUME Live(a)' PROVE InMail(mailbox'[a], lastMessageNo[a], made + 1)
        BY <1>4, <1>6 DEF Mail, KeepsQueues
      <2>1. Live(a)
        BY <1>4, LiveKept
      <2>2. InMail(mailbox[a], lastMessageNo[a], made) /\ PostedOK(PostedIn(mailbox[a]), made) /\ lastMessageNo[a] <= made
        BY <1>10, <2>1 DEF Mail, Queues, Posted, made
      <2> QED  BY <1>2, <1>3, <1>4, <1>7, <1>9, <2>2, InMailPosted
    <1>15. Answers(a)'
      <2>1. Answered(Mine(a)', toRespond[a], numReceived[a], pendingRequests[a])
        BY <1>9, <1>10, AnsweredLess DEF Answers
      <2> QED  BY <1>4, <2>1 DEF Answers, KeepsReceived
    <1>16. Awaits(a)'
      <2>1. Awaited(Mine(a)', lastMessageNo[a], pendingResponses[a])
        BY <1>8, <1>10, <1>12 DEF Awaits, Awaited
      <2>2. \A n \in DOMAIN pendingResponses[a] : ~progress'[a][n].noReply
        BY <1>6, <1>12
      <2> QED  BY <1>4, <2>1, <2>2 DEF Awaits, KeepsQueues, KeepsReceived
    <1>17. ASSUME NEW id \in DOMAIN progress'[a]
           PROVE  (id \in 1..made /\ progress'[a][id] = progress[a][id] /\ m.id # id) \/ (id = m.id /\ progress'[a][id] = r)
      BY <1>2, <1>3, <1>6
    <1>18. NotTwice(a)'
      <2>1. ASSUME NEW id \in DOMAIN progress'[a], ~progress'[a][id].noReply
            PROVE  /\ Len(progress'[a][id].ends) <= 1
                   /\ progress'[a][id].ends # <<>> =>
                         id \notin DOMAIN pendingResponses[a] /\ \A x \in Mine(a)' : IsReq(x) => x.id # id
        <3>1. CASE id \in 1..made /\ progress'[a][id] = progress[a][id] /\ m.id # id
          BY <1>2, <1>8, <1>10, <2>1, <3>1 DEF NotTwice
        <3>2. CASE id = m.id /\ progress'[a][id] = r
          BY <1>5, <3>2
        <3> QED  BY <1>17, <3>1, <3>2
      <2> QED  BY <1>4, <2>1 DEF NotTwice, KeepsReceived
    <1>19. NotLost(a) => NotLost(a)'
      <2> HAVE NotLost(a)
      <2>1. ASSUME NEW id \in DOMAIN progress'[a], ~progress'[a][id].noReply, progress'[a][id].ends = <<>>
            PROVE  id \in DOMAIN pendingResponses[a] \/ \E x \in Mine(a)' : IsReq(x) /\ x.id = id
        <3>1. CASE id \in 1..made /\ progress'[a][id] = progress[a][id]
          BY <1>2, <1>8, <2>1, <3>1 DEF NotLost
        <3>2. CASE id = m.id
          BY <1>8, <1>9, <3>2
        <3> QED  BY <1>17, <3>1, <3>2
      <2> QED  BY <1>4, <2>1 DEF NotLost, KeepsReceived
    <1>20. Own(a)'
      BY <1>10, <1>13, <1>14, <1>15, <1>16, <1>18, <1>19 DEF Own
    <1>21. RequestsInOrder(a)' /\ AnswersExpected(a)' /\ Stream(a)' = Stream(a)
      BY <1>1, <1>4, LiveKept, FarSide DEF KeepsLoop, KeepsLinks, KeepsReceived
    <1>22. Flags(a)'
      <2>1. Flags(a)
        BY DEF Link
      <2>2. ASSUME NEW x \in Mine(a)', IsReq(x)
            PROVE  x.noReply = progress'[a][x.id].noReply
        <3>1. CASE x = m
          BY <1>3, <1>5, <1>6, <3>1
        <3>2. CASE x \in Mine(a)
          BY <1>6, <1>11, <2>1, <2>2, <3>2 DEF Flags
        <3> QED  BY <1>8, <3>1, <3>2
      <2>3. \A n \in DOMAIN progress[a] : n \in DOMAIN progress'[a] /\ progress'[a][n] = progress[a][n]
        BY <1>2, <1>6
      <2>4. \A f \in ToSet(Stream(a)') : IsReq(f) =>
               f.number \in DOMAIN progress'[a] /\ f.noReply = progress'[a][f.number].noReply
        BY <1>21, <2>1, <2>3 DEF Flags
      <2>5. pendingRequests'[b] = pendingRequests[b]
        BY <1>4 DEF Untouched, KeepsReceived
      <2>6. \A n \in DOMAIN pendingRequests'[b] :
               n \in DOMAIN progress'[a] /\ pendingRequests'[b][n].noReply = progress'[a][n].noReply
        BY <1>1, <2>1, <2>3, <2>5 DEF Flags
      <2> QED  BY <1>1, <2>2, <2>4, <2>6 DEF Flags
    <1>23. Kinds(a)'
      <2>1. Kinds(a)
        BY DEF Link
      <2> QED  BY <1>3, <1>8, <1>21, <2>1 DEF Kinds, ErrorsMade
    <1>24. RequestsContinue(a)'
      <2>1. RequestsContinue(a) /\ AllAlike(Held(a)', Held(a)) /\ AllAlike(Held(a), Held(a)')
        BY <1>8, WithinItself DEF Link
      <2>2. Live(b)' = Live(b) /\ Live(a)' = Live(a) /\ closeSent'[a] = closeSent[a]
        BY <1>4, LiveKept DEF Untouched
      <2> QED  BY <1>1, <1>4, <1>21, <2>1, <2>2, ContinueKept DEF Untouched, KeepsQueues, KeepsReceived
    <1>25. Link(a)'
      BY <1>21, <1>22, <1>23, <1>24 DEF Link
    <1>26. Own(b)' /\ Link(b)'
      BY <1>1, <1>4, <1>9, LiveKept, Bystander DEF KeepsReceived, KeepsLoop, KeepsLinks
    <1> QED  BY <1>1, <1>20, <1>25, <1>26

\* MessageIn::respond
LEMMA RespondKeeps ==
    ASSUME TypeOK, NEW a \in Peers, NEW n \in toRespond[a], NEW reply \in Replies[a], Respond(a, n, reply),
           \A p \in Peers : Own(p) /\ Link(p)
    PROVE  \A p \in Peers : Own(p)' /\ Link(p)'
    <1> DEFINE m == NewResponse(reply, n)
    <1>1. PICK b \in Peers : b = Other(a) /\ Other(b) = a /\ \A q \in Peers : q = a \/ q = b
      BY TwoPeers
    <1>2. /\ mailbox[a] \in Seq(Events) /\ outbox[a] \in Seq(Messages) /\ icebox[a] \in Seq(Messages)
          /\ lastMessageNo[a] \in Nat /\ Len(progress[a]) \in Nat /\ n \in Nat /\ n > 0
      BY Typed
    <1>3. /\ m \in Messages /\ Queued(m) \in Events /\ m.type = reply.type
          /\ IsReply(m) /\ m.number = n
      BY <1>2, NewMessages
    <1>4. /\ mailbox'[a] = Append(mailbox[a], Queued(m)) /\ toRespond'[a] = toRespond[a] \ {n}
          /\ Untouched(b) /\ KeepsQueues(a) /\ KeepsReceived(a) /\ KeepsLoop(a) /\ KeepsWriting(a)
          /\ KeepsLinks(a) /\ KeepsOpen(a) /\ progress'[a] = progress[a]
      BY <1>1, RespondDoes
    <1>5. m.type = "ERR" => ErrorsMade
      BY <1>3 DEF ErrorsMade
    <1> HIDE DEF m
    <1>6. Queued(m).ev = "queueMessage" /\ Queued(m).msg = m /\ ~IsReq(m)
      BY <1>3 DEF Queued, IsReq, IsReply
    <1>7. Posted(a)' = Posted(a) \union {m} /\ Held(a)' = Held(a) /\ Mine(a)' = Mine(a) \union {m}
      <2>1. Posted(a)' = Posted(a) \union {m}
        BY <1>2, <1>3, <1>4, <1>6, PostedMore DEF Posted
      <2>2. Held(a)' = Held(a)
        BY <1>4, Kept
      <2> QED  BY <2>1, <2>2 DEF Mine
    <1>8. /\ Queues(a) /\ Mail(a) /\ Answers(a) /\ Awaits(a) /\ NotTwice(a)
          /\ ErrorsMayThrow \/ NotLost(a)
      BY DEF Own
    <1>9. Queues(a)'
      <2>1. NoTwin(m, PostedIn(mailbox[a]) \union HeldIn(outbox[a], icebox[a]))
        <3>1. \A x \in Mine(a) : IsReply(x) => x.number # n
          BY <1>8 DEF Answers, Answered
        <3> QED  BY <1>3, <1>6, <3>1 DEF NoTwin, Twins, Mine, Posted, Held
      <2>2. Alone(mailbox'[a], outbox[a], icebox[a])
        <3>1. Alone(mailbox[a], outbox[a], icebox[a])
          BY <1>8 DEF Queues
        <3>2. Alone(Append(mailbox[a], Queued(m)), outbox[a], icebox[a])
          BY <1>2, <1>3, <1>6, <2>1, <3>1, AlonePosted
        <3> QED  BY <1>4, <3>2
      <2>3. PostedOK(Posted(a)', Len(progress[a]))
        BY <1>2, <1>3, <1>6, <1>7, <1>8 DEF PostedOK, Queues
      <2> QED  BY <1>4, <1>7, <1>8, <2>2, <2>3 DEF Queues, KeepsQueues
    <1>10. Mail(a)'
      <2> SUFFICES ASSUME Live(a)' PROVE InMail(mailbox'[a], lastMessageNo[a], Len(progress[a]))
        BY <1>4 DEF Mail, KeepsQueues
      <2>1. Live(a)
        BY <1>4, LiveKept
      <2>2. InMail(mailbox[a], lastMessageNo[a], Len(progress[a]))
        BY <1>8, <2>1 DEF Mail
      <2> QED  BY <1>2, <1>3, <1>4, <1>6, <2>2, InMailPosted
    <1>11. Answers(a)'
      <2>1. Answered(Mine(a) \union {m}, toRespond[a] \ {m.number}, numReceived[a], pendingRequests[a])
        BY <1>3, <1>8, AnsweredMore DEF Answers
      <2> QED  BY <1>3, <1>4, <1>7, <2>1 DEF Answers, KeepsReceived
    <1>12. Awaits(a)'
      <2>1. Awaited(Mine(a)', lastMessageNo[a], pendingResponses[a])
        BY <1>6, <1>7, <1>8 DEF Awaits, Awaited
      <2> QED  BY <1>4, <1>8, <2>1 DEF Awaits, KeepsQueues, KeepsReceived
    <1>13. NotTwice(a)'
      BY <1>4, <1>6, <1>7, <1>8 DEF NotTwice, KeepsReceived
    <1>14. NotLost(a) => NotLost(a)'
      BY <1>4, <1>7 DEF NotLost, KeepsReceived
    <1>15. Own(a)'
      BY <1>8, <1>9, <1>10, <1>11, <1>12, <1>13, <1>14 DEF Own
    <1>16. RequestsInOrder(a)' /\ AnswersExpected(a)' /\ Stream(a)' = Stream(a)
      BY <1>1, <1>4, LiveKept, FarSide DEF KeepsLoop, KeepsLinks, KeepsReceived
    <1>17. Flags(a)'
      BY <1>1, <1>4, <1>6, <1>7, <1>16 DEF Flags, Link, Untouched, KeepsReceived
    <1>18. Kinds(a)'
      <2>1. Kinds(a)
        BY DEF Link
      <2> QED  BY <1>5, <1>7, <1>16, <2>1 DEF Kinds, ErrorsMade
    <1>19. RequestsContinue(a)'
      <2>1. RequestsContinue(a) /\ AllAlike(Held(a)', Held(a)) /\ AllAlike(Held(a), Held(a)')
        BY <1>7, WithinItself DEF Link
      <2>2. Live(b)' = Live(b) /\ Live(a)' = Live(a) /\ closeSent'[a] = closeSent[a]
        BY <1>4, LiveKept DEF Untouched
      <2> QED  BY <1>1, <1>4, <1>16, <2>1, <2>2, ContinueKept DEF Untouched, KeepsQueues, KeepsReceived
    <1>20. Link(a)'
      BY <1>16, <1>17, <1>18, <1>19 DEF Link
    <1>21. /\ Own(b)' /\ Flags(b)' /\ Kinds(b)' /\ RequestsInOrder(b)' /\ RequestsContinue(b)'
           /\ Stream(b)' = Stream(b) /\ Stream(a)' = Stream(a) /\ Live(b)' = Live(b)
           /\ pendingResponses'[b] = pendingResponses[b]
      BY <1>1, <1>4, LiveKept, NearBy DEF KeepsReceived, KeepsLoop, KeepsLinks
    <1>22. AnswersExpected(b)'
      <2> SUFFICES ASSUME Live(b)
                   PROVE  Expected(Mine(a) \union {m}, toRespond[a] \ {n}, Stream(b), Stream(a),
                                   pendingResponses[b])
        BY <1>1, <1>4, <1>7, <1>21 DEF AnswersExpected
      <2>1. Expected(Mine(a), toRespond[a], Stream(b), Stream(a), pendingResponses[b])
        BY <1>1 DEF AnswersExpected, Link
      <2>2. Expected(Mine(a) \union {m}, toRespond[a] \ {m.number}, Stream(b), Stream(a), pendingResponses[b])
        BY <1>3, <2>1, ExpectedAnswer
      <2> QED  BY <1>3, <2>2
    <1> QED  BY <1>1, <1>15, <1>20, <1>21, <1>22 DEF Link

\* A request that waits, for its turn or for its answer.
Waits(p, id) == id \in DOMAIN pendingResponses[p] \/ \E m \in Mine(p) : IsReq(m) /\ m.id = id

\* Requests go on waiting, or end.
LEMMA EndsStep ==
    ASSUME NEW p \in Peers, KeepsRequests(p), TypeOK,
           \A id \in DOMAIN progress[p] : ~progress[p][id].noReply =>
              \/ progress'[p][id].ends = progress[p][id].ends /\ (Waits(p, id)' => Waits(p, id))
              \/ /\ \E how : progress'[p][id].ends = Append(progress[p][id].ends, how)
                 /\ Waits(p, id) /\ ~Waits(p, id)'
    PROVE  /\ NotTwice(p) => NotTwice(p)'
           /\ /\ NotLost(p)
              /\ \A id \in DOMAIN progress[p] : ~progress[p][id].noReply =>
                    \/ Waits(p, id) => Waits(p, id)'
                    \/ \E how : progress'[p][id].ends = Append(progress[p][id].ends, how)
              => NotLost(p)'
    <1>1. \A id \in DOMAIN progress[p] : progress[p][id].ends \in Seq({"complete", "disconnected"})
      <2>1. progress[p] \in Seq(Requests)
        BY Typed
      <2>2. \A id \in DOMAIN progress[p] : progress[p][id] \in Requests
        BY <2>1
      <2> QED  BY <2>2 DEF Requests
    <1>2. \A s \in Seq({"complete", "disconnected"}) : \A how : Append(s, how) # <<>>
      OBVIOUS
    <1>3. ASSUME NotTwice(p) PROVE NotTwice(p)'
      <2>1. ASSUME NEW id \in DOMAIN progress[p], ~progress[p][id].noReply
            PROVE  /\ Len(progress'[p][id].ends) <= 1
                   /\ progress'[p][id].ends # <<>> => ~Waits(p, id)'
        <3>1. /\ Len(progress[p][id].ends) <= 1
              /\ progress[p][id].ends # <<>> => ~Waits(p, id)
          BY <1>3, <2>1 DEF NotTwice, Waits
        <3>2. CASE progress'[p][id].ends = progress[p][id].ends /\ (Waits(p, id)' => Waits(p, id))
          BY <3>1, <3>2
        <3>3. ASSUME NEW how, progress'[p][id].ends = Append(progress[p][id].ends, how),
                     Waits(p, id), ~Waits(p, id)'
              PROVE  /\ Len(progress'[p][id].ends) <= 1
                     /\ progress'[p][id].ends # <<>> => ~Waits(p, id)'
          <4>1. progress[p][id].ends = <<>>
            BY <3>1, <3>3
          <4>2. Len(Append(<<>>, how)) = 1
            OBVIOUS
          <4> QED  BY <3>3, <4>1, <4>2
        <3> QED  BY <2>1, <3>2, <3>3
      <2> QED  BY <2>1 DEF NotTwice, Waits, KeepsRequests
    <1>4. ASSUME NotLost(p),
                 \A id \in DOMAIN progress[p] : ~progress[p][id].noReply =>
                    \/ Waits(p, id) => Waits(p, id)'
                    \/ \E how : progress'[p][id].ends = Append(progress[p][id].ends, how)
          PROVE  NotLost(p)'
      <2>1. ASSUME NEW id \in DOMAIN progress[p], ~progress[p][id].noReply, progress'[p][id].ends = <<>>
            PROVE  Waits(p, id)'
        <3>1. progress'[p][id].ends = progress[p][id].ends /\ (Waits(p, id) => Waits(p, id)')
          BY <1>1, <1>2, <1>4, <2>1
        <3>2. Waits(p, id)
          BY <1>4, <2>1, <3>1 DEF NotLost, Waits
        <3> QED  BY <3>1, <3>2
      <2> QED  BY <2>1 DEF NotLost, Waits, KeepsRequests
    <1> QED  BY <1>3, <1>4

\* What is known of the message that is taken from the mailbox.
LEMMA TakenIs ==
    ASSUME TypeOK, NEW a \in Peers, Queues(a), mailbox[a] # <<>>, Head(mailbox[a]).ev = "queueMessage",
           mailbox'[a] = Tail(mailbox[a]), NEW m, m = Head(mailbox[a]).msg
    PROVE  /\ m \in Messages /\ Posted(a) = {m} \union Posted(a)' /\ m \in Mine(a)
           /\ Alone(mailbox'[a], outbox[a], icebox[a])
           /\ NoTwin(m, Posted(a)' \union Held(a))
           /\ IsReq(m) => m.id \in 1..Len(progress[a]) /\ m.number = 0 /\ m.bytesSent = 0
           /\ ~IsReq(m) => m.number > 0
           /\ PostedOK(Posted(a)', Len(progress[a]))
    <1>1. /\ mailbox[a] \in Seq(Events) /\ outbox[a] \in Seq(Messages) /\ icebox[a] \in Seq(Messages)
      BY Typed
    <1>2. m \in Messages /\ Posted(a) = {m} \union Posted(a)'
      BY <1>1, PostedLess DEF Posted
    <1>3. Alone(Tail(mailbox[a]), outbox[a], icebox[a]) /\ NoTwin(m, PostedIn(Tail(mailbox[a])) \union HeldIn(outbox[a], icebox[a]))
      BY <1>1, AloneTaken DEF Queues
    <1>4. NoTwin(m, Posted(a)' \union Held(a))
      BY <1>3 DEF Posted, Held
    <1>5. PostedOK(Posted(a), Len(progress[a]))
      BY DEF Queues
    <1> QED  BY <1>2, <1>3, <1>4, <1>5 DEF PostedOK, Mine

\* _queueMessage, refused
LEMMA RefuseKeeps ==
    ASSUME TypeOK, NEW a \in Peers, QueueMessage(a), ~Live(a), \A p \in Peers : Own(p) /\ Link(p)
    PROVE  \A p \in Peers : Own(p)' /\ Link(p)'
    <1>1. PICK b \in Peers : b = Other(a) /\ Other(b) = a /\ \A q \in Peers : q = a \/ q = b
      BY TwoPeers
    <1>2. PICK m : m = Head(mailbox[a]).msg
      OBVIOUS
    <1> DEFINE ids == IF wantsReply(m) THEN {m.id} ELSE {}
    <1>3. /\ mailbox'[a] = Tail(mailbox[a]) /\ progress'[a] = Ended(a, ids, "disconnected")
          /\ mailbox[a] # <<>> /\ Head(mailbox[a]).ev = "queueMessage"
          /\ Untouched(b) /\ KeepsQueues(a) /\ KeepsReceived(a) /\ KeepsLoop(a)
          /\ KeepsLinks(a) /\ KeepsOpen(a) /\ toRespond'[a] = toRespond[a]
      BY <1>1, <1>2, QueueMessageRefuses
    <1>4. /\ Queues(a) /\ Mail(a) /\ Answers(a) /\ Awaits(a) /\ NotTwice(a)
          /\ ErrorsMayThrow \/ NotLost(a)
      BY DEF Own
    <1>5. /\ m \in Messages /\ Posted(a) = {m} \union Posted(a)' /\ m \in Mine(a)
          /\ Alone(mailbox'[a], outbox[a], icebox[a]) /\ NoTwin(m, Posted(a)' \union Held(a))
          /\ PostedOK(Posted(a)', Len(progress[a]))
      BY <1>2, <1>3, <1>4, TakenIs
    <1>6. Held(a)' = Held(a) /\ Mine(a) = {m} \union Mine(a)' /\ NoTwin(m, Mine(a)')
      <2>1. Held(a)' = Held(a)
        BY <1>3, Kept
      <2> QED  BY <1>5, <2>1 DEF Mine
    <1>7. Within(Mine(a)', Mine(a)) /\ RepliesIn(Mine(a)', Mine(a)) /\ KeepsRequests(a)
      BY <1>3, <1>6, WithinItself, WithinReplies, EndedKeeps
    <1>8. Queues(a)'
      BY <1>3, <1>4, <1>5, <1>6, <1>7 DEF Queues, KeepsQueues, KeepsRequests
    <1>9. Mail(a)'
      BY <1>3, LiveKept DEF Mail
    <1>10. Answers(a)'
      BY <1>3, <1>4, <1>7, AnswersKept DEF KeepsReceived
    <1>11. Awaits(a)'
      BY <1>3, <1>4, <1>7, AwaitsKept DEF KeepsReceived, KeepsQueues
    <1>12. /\ \A i \in DOMAIN progress[a] :
                 /\ i \notin ids => progress'[a][i].ends = progress[a][i].ends
                 /\ i \in ids => progress'[a][i].ends = Append(progress[a][i].ends, "disconnected")
      <2>1. \A i \in DOMAIN progress[a] :
               /\ i \notin ids => Ended(a, ids, "disconnected")[i].ends = progress[a][i].ends
               /\ i \in ids => Ended(a, ids, "disconnected")[i].ends = Append(progress[a][i].ends, "disconnected")
        <3> HIDE DEF ids
        <3> QED  BY EndedIs
      <2> QED  BY <1>3, <2>1
    <1>13. pendingResponses'[a] = pendingResponses[a]
      BY <1>3 DEF KeepsReceived
    <1>14. \A id : Waits(a, id)' => Waits(a, id)
      BY <1>6, <1>13 DEF Waits
    <1>15. \A id \in ids : Waits(a, id) /\ ~Waits(a, id)'
      <2>1. ASSUME IsReq(m), NEW id, id = m.id
            PROVE  Waits(a, id) /\ ~Waits(a, id)'
        <3>1. id \notin DOMAIN pendingResponses[a]
          BY <1>4, <1>5, <2>1 DEF Awaits, Awaited
        <3>2. \A x \in Mine(a)' : ~(IsReq(x) /\ x.id = id)
          BY <1>6, <2>1 DEF NoTwin, Twins
        <3> QED  BY <1>5, <1>13, <2>1, <3>1, <3>2 DEF Waits
      <2> QED  BY <2>1 DEF wantsReply, IsReq
    <1>16. ASSUME NEW id \in DOMAIN progress[a], ~progress[a][id].noReply, id \notin ids, Waits(a, id)
           PROVE  Waits(a, id)'
      <2>1. Flags(a)
        BY DEF Link
      <2>2. IsReq(m) /\ m.id = id => wantsReply(m)
        BY <1>5, <1>16, <2>1 DEF Flags, wantsReply, IsReq
      <2>3. ~(IsReq(m) /\ m.id = id)
        BY <1>16, <2>2
      <2> QED  BY <1>6, <1>13, <1>16, <2>3 DEF Waits
    <1> HIDE DEF ids
    <1>17. NotTwice(a)' /\ (NotLost(a) => NotLost(a)')
      <2>1. \A id \in DOMAIN progress[a] : ~progress[a][id].noReply =>
               \/ progress'[a][id].ends = progress[a][id].ends /\ (Waits(a, id)' => Waits(a, id))
               \/ /\ \E how : progress'[a][id].ends = Append(progress[a][id].ends, how)
                  /\ Waits(a, id) /\ ~Waits(a, id)'
        BY <1>12, <1>14, <1>15
      <2>2. \A id \in DOMAIN progress[a] : ~progress[a][id].noReply =>
               \/ Waits(a, id) => Waits(a, id)'
               \/ \E how : progress'[a][id].ends = Append(progress[a][id].ends, how)
        BY <1>12, <1>16
      <2> QED  BY <1>4, <1>7, <2>1, <2>2, EndsStep
    <1>18. Own(a)'
      BY <1>4, <1>8, <1>9, <1>10, <1>11, <1>17 DEF Own
    <1>19. RequestsInOrder(a)' /\ AnswersExpected(a)' /\ Stream(a)' = Stream(a)
      BY <1>1, <1>3, LiveKept, FarSide DEF KeepsLoop, KeepsLinks, KeepsReceived
    <1>20. Flags(a)' /\ Kinds(a)'
      <2>1. Flags(a) /\ Kinds(a)
        BY DEF Link
      <2>2. pendingRequests'[b] = pendingRequests[b]
        BY <1>3 DEF Untouched, KeepsReceived
      <2> QED  BY <1>1, <1>4, <1>7, <1>19, <2>1, <2>2, FlagsKept, KindsKept
    <1>21. RequestsContinue(a)'
      BY <1>3, LiveKept DEF RequestsContinue
    <1>22. Own(b)' /\ Link(b)'
      BY <1>1, <1>3, <1>7, LiveKept, Bystander DEF KeepsReceived, KeepsLoop, KeepsLinks
    <1> QED  BY <1>1, <1>18, <1>19, <1>20, <1>21, <1>22 DEF Link

\* _queueMessage, accepted: the message and its number.
LEMMA NumberedIs ==
    ASSUME TypeOK, NEW a \in Peers, Queues(a), Mail(a), Live(a), mailbox[a] # <<>>,
           Head(mailbox[a]).ev = "queueMessage", mailbox'[a] = Tail(mailbox[a]),
           lastMessageNo'[a] = IF Head(mailbox[a]).msg.number = 0 THEN NextNo(a) ELSE lastMessageNo[a],
           NEW m, m = Head(mailbox[a]).msg, NEW m2, m2 = Numbered(a)
    PROVE  /\ m2 \in Messages /\ m2.type = m.type /\ m2.id = m.id /\ m2.noReply = m.noReply
           /\ m2.bytesSent = m.bytesSent /\ m2.number > 0
           /\ IsReq(m) => /\ m2.number = lastMessageNo[a] + 1 /\ m2.id = lastMessageNo[a] + 1
                          /\ lastMessageNo'[a] = lastMessageNo[a] + 1
                          /\ lastMessageNo[a] + 1 <= Len(progress[a])
           /\ ~IsReq(m) => m2.number = m.number /\ lastMessageNo'[a] = lastMessageNo[a]
           /\ InMail(mailbox'[a], lastMessageNo'[a], Len(progress[a]))
    <1>1. /\ m \in Messages /\ (IsReq(m) => m.id \in 1..Len(progress[a]) /\ m.number = 0)
          /\ ~IsReq(m) => m.number > 0
      BY TakenIs
    <1>2. /\ mailbox[a] \in Seq(Events) /\ lastMessageNo[a] \in Nat /\ Len(progress[a]) \in Nat
          /\ PostedOK(PostedIn(mailbox[a]), Len(progress[a]))
          /\ InMail(mailbox[a], lastMessageNo[a], Len(progress[a]))
      BY Typed DEF Queues, Mail, Posted
    <1>3. PICK n : n = NextNo(a)
      OBVIOUS
    <1>4. n \in Nat /\ n > 0 /\ n = IF m.number = 0 THEN lastMessageNo[a] + 1 ELSE m.number
      <2>1. n = IF m.number = 0 THEN lastMessageNo[a] + 1 ELSE m.number
        BY <1>3 DEF NextNo
      <2>2. m.number \in Nat
        BY <1>1 DEF Messages
      <2> QED  BY <1>2, <2>1, <2>2
    <1>5. m2 = [m EXCEPT !.number = n]
      BY <1>3 DEF Numbered
    <1>6. /\ m2 \in Messages /\ m2.type = m.type /\ m2.id = m.id /\ m2.noReply = m.noReply
          /\ m2.bytesSent = m.bytesSent /\ m2.number = n
      BY <1>1, <1>4, <1>5 DEF Messages
    <1>7. CASE IsReq(m)
      <2>1. m.id = lastMessageNo[a] + 1 /\ InMail(Tail(mailbox[a]), lastMessageNo[a] + 1, Len(progress[a]))
        BY <1>2, <1>7, InMailTaken
      <2>2. n = lastMessageNo[a] + 1 /\ lastMessageNo'[a] = lastMessageNo[a] + 1
        BY <1>1, <1>3, <1>4, <1>7
      <2>3. lastMessageNo[a] + 1 <= Len(progress[a])
        BY <1>1, <1>2, <1>7, <2>1
      <2> QED  BY <1>4, <1>6, <1>7, <2>1, <2>2, <2>3
    <1>8. CASE ~IsReq(m)
      <2>1. InMail(Tail(mailbox[a]), lastMessageNo[a], Len(progress[a]))
        BY <1>2, <1>8, InMailTaken
      <2>2. m.number # 0
        <3>1. m.number > 0
          BY <1>1, <1>8
        <3> QED  BY <3>1
      <2>3. n = m.number /\ lastMessageNo'[a] = lastMessageNo[a]
        BY <1>4, <2>2
      <2> QED  BY <1>4, <1>6, <1>8, <2>1, <2>3
    <1> QED  BY <1>7, <1>8

LEMMA AcceptKeeps ==
    ASSUME TypeOK, NEW a \in Peers, QueueMessage(a), Live(a), \A p \in Peers : Own(p) /\ Link(p)
    PROVE  \A p \in Peers : Own(p)' /\ Link(p)'
    <1>1. PICK b \in Peers : b = Other(a) /\ Other(b) = a /\ \A q \in Peers : q = a \/ q = b
      BY TwoPeers
    <1>2. PICK m, m2 : m = Head(mailbox[a]).msg /\ m2 = Numbered(a)
      OBVIOUS
    <1>3. /\ mailbox'[a] = Tail(mailbox[a]) /\ outbox'[a] = requeue(outbox[a], m2)
          /\ mailbox[a] # <<>> /\ Head(mailbox[a]).ev = "queueMessage"
          /\ lastMessageNo'[a] = IF Head(mailbox[a]).msg.number = 0 THEN NextNo(a) ELSE lastMessageNo[a]
          /\ Untouched(b) /\ icebox'[a] = icebox[a] /\ KeepsReceived(a) /\ KeepsLoop(a)
          /\ KeepsLinks(a) /\ KeepsOpen(a) /\ KeepsApp(a)
      BY <1>1, <1>2, QueueMessageAccepts
    <1>4. /\ Queues(a) /\ Mail(a) /\ Answers(a) /\ Awaits(a) /\ NotTwice(a)
          /\ ErrorsMayThrow \/ NotLost(a)
      BY DEF Own
    <1>5. /\ m \in Messages /\ Posted(a) = {m} \union Posted(a)' /\ m \in Mine(a)
          /\ Alone(mailbox'[a], outbox[a], icebox[a]) /\ NoTwin(m, Posted(a)' \union Held(a))
          /\ PostedOK(Posted(a)', Len(progress[a]))
          /\ IsReq(m) => m.bytesSent = 0
      BY <1>2, <1>3, <1>4, TakenIs
    <1>6. /\ m2 \in Messages /\ m2.type = m.type /\ m2.id = m.id /\ m2.noReply = m.noReply
          /\ m2.bytesSent = m.bytesSent /\ m2.number > 0
          /\ IsReq(m) => /\ m2.number = lastMessageNo[a] + 1 /\ m2.id = lastMessageNo[a] + 1
                         /\ lastMessageNo'[a] = lastMessageNo[a] + 1
                         /\ lastMessageNo[a] + 1 <= Len(progress[a])
          /\ ~IsReq(m) => m2.number = m.number /\ lastMessageNo'[a] = lastMessageNo[a]
          /\ InMail(mailbox'[a], lastMessageNo'[a], Len(progress[a]))
      BY <1>2, <1>3, <1>4, NumberedIs
    <1>7. /\ mailbox'[a] \in Seq(Events) /\ outbox[a] \in Seq(Messages) /\ icebox[a] \in Seq(Messages)
          /\ lastMessageNo[a] \in Nat /\ Len(progress[a]) \in Nat /\ mailbox[a] \in Seq(Events)
      <2>1. mailbox[a] \in Seq(Events) /\ Tail(mailbox[a]) \in Seq(Events)
        BY <1>3, Typed, Shorter
      <2> QED  BY <1>3, <2>1, Typed
    <1>8. Held(a)' = Held(a) \union {m2} /\ Mine(a)' = (Posted(a)' \union Held(a)) \union {m2}
      <2>1. ToSet(requeue(outbox[a], m2)) = ToSet(outbox[a]) \union {m2}
        BY <1>6, <1>7, Requeued
      <2>2. Held(a)' = Held(a) \union {m2}
        BY <1>3, <2>1 DEF Held, HeldIn
      <2> QED  BY <2>2 DEF Mine
    <1>9. Like(m, m2) /\ Like(m2, m) /\ (IsReq(m2) <=> IsReq(m)) /\ (IsReply(m2) <=> IsReply(m))
      BY <1>6 DEF Like, IsReq, IsReply
    <1>10. Within(Mine(a)', Mine(a)) /\ Within(Mine(a), Mine(a)') /\ RepliesIn(Mine(a)', Mine(a))
      <2>1. \A x : Like(x, x)
        BY DEF Like
      <2>2. Mine(a) = (Posted(a)' \union Held(a)) \union {m}
        BY <1>5 DEF Mine
      <2>3. Within(Mine(a)', Mine(a))
        BY <1>8, <1>9, <2>1, <2>2 DEF Within
      <2>4. Within(Mine(a), Mine(a)')
        BY <1>8, <1>9, <2>1, <2>2 DEF Within
      <2> QED  BY <2>3, <2>4, WithinReplies
    <1>11. Queues(a)'
      <2>1. NoTwin(m2, Posted(a)' \union Held(a))
        BY <1>5, <1>6, <1>9 DEF NoTwin, Twins, IsReply, IsReq
      <2>2. Alone(mailbox'[a], requeue(outbox[a], m2), icebox[a])
        <3>1. NoTwin(m2, PostedIn(mailbox'[a]) \union HeldIn(outbox[a], icebox[a]))
          BY <2>1 DEF Posted, Held
        <3> QED  BY <1>5, <1>6, <1>7, <3>1, AloneQueued
      <2>3. HeldOK(Held(a), lastMessageNo[a]) /\ NewInOrder(outbox[a])
        BY <1>4 DEF Queues
      <2>4. \A x \in ToSet(outbox[a]) : x \in Held(a) /\ x \in Messages /\ x.number \in Nat /\ x.id \in Nat
        <3>1. \A x \in ToSet(outbox[a]) : x \in Held(a) /\ x \in Messages
          BY <1>7 DEF Held, HeldIn, ToSet
        <3> QED  BY <3>1 DEF Messages
      <2>5. New(m2) => \A x \in ToSet(outbox[a]) : New(x) => x.number < m2.number
        <3> SUFFICES ASSUME New(m2), NEW x \in ToSet(outbox[a]), New(x)
                     PROVE  x.number < m2.number
          OBVIOUS
        <3>1. IsReq(m) /\ IsReq(x)
          BY <1>9 DEF New, IsReq
        <3>2. x.number <= lastMessageNo[a] /\ x.number \in Nat
          BY <2>3, <2>4, <3>1 DEF HeldOK
        <3> QED  BY <1>6, <1>7, <3>1, <3>2
      <2>6. NewInOrder(requeue(outbox[a], m2))
        BY <1>6, <1>7, <2>3, <2>5, NewQueued
      <2>7. HeldOK(Held(a)', lastMessageNo'[a])
        <3>1. \A x \in Held(a) : x \in Messages /\ x.id \in Nat
          <4>1. \A x \in Held(a) : x \in Messages
            BY <1>7 DEF Held, HeldIn, ToSet
          <4> QED  BY <4>1 DEF Messages
        <3>2. \A k \in Nat : k <= lastMessageNo[a] => k <= lastMessageNo'[a]
          BY <1>6, <1>7
        <3>3. IsReq(m2) => m2.number = m2.id /\ m2.id <= lastMessageNo'[a]
          BY <1>6, <1>7, <1>9
        <3> QED  BY <1>6, <1>8, <2>3, <3>1, <3>2, <3>3 DEF HeldOK
      <2>8. lastMessageNo'[a] <= Len(progress[a])
        BY <1>4, <1>6 DEF Queues
      <2> QED  BY <1>3, <1>4, <1>5, <2>2, <2>6, <2>7, <2>8 DEF Queues, KeepsApp
    <1>12. Mail(a)'
      BY <1>3, <1>6 DEF Mail, KeepsApp
    <1>13. Answers(a)'
      BY <1>3, <1>4, <1>10, AnswersKept DEF KeepsReceived, KeepsApp
    <1>14. Awaits(a)'
      <2>1. \A x \in Mine(a)' : IsReq(x) => \E y \in Mine(a) : IsReq(y) /\ y.id = x.id
        BY <1>10 DEF Within, Counts, Like, IsReq
      <2>2. DOMAIN pendingResponses[a] \subseteq Nat
        BY Typed DEF IsPending
      <2>3. \A k \in Nat : k <= lastMessageNo[a] => k <= lastMessageNo'[a]
        BY <1>6, <1>7
      <2>4. Awaited(Mine(a)', lastMessageNo'[a], pendingResponses[a])
        BY <1>4, <2>1, <2>2, <2>3 DEF Awaits, Awaited
      <2> QED  BY <1>3, <1>4, <2>4 DEF Awaits, KeepsReceived, KeepsApp
    <1>15. (NotTwice(a) => NotTwice(a)') /\ (NotLost(a) => NotLost(a)')
      BY <1>3, <1>10, EndsKept DEF KeepsApp, KeepsReceived
    <1>16. Own(a)'
      BY <1>4, <1>11, <1>12, <1>13, <1>14, <1>15 DEF Own
    <1>17. RequestsInOrder(a)' /\ AnswersExpected(a)' /\ Stream(a)' = Stream(a)
      BY <1>1, <1>3, LiveKept, FarSide DEF KeepsLoop, KeepsLinks, KeepsReceived
    <1>18. Flags(a)' /\ Kinds(a)'
      <2>1. Flags(a) /\ Kinds(a) /\ KeepsRequests(a)
        BY <1>3, Kept DEF Link, KeepsApp
      <2>2. pendingRequests'[b] = pendingRequests[b]
        BY <1>3 DEF Untouched, KeepsReceived
      <2> QED  BY <1>1, <1>4, <1>10, <1>17, <2>1, <2>2, FlagsKept, KindsKept
    <1>19. RequestsContinue(a)'
      <2>1. /\ Live(a)' = Live(a) /\ Live(b)' = Live(b) /\ closeSent'[a] = closeSent[a]
            /\ numReceived'[b] = numReceived[b] /\ pendingRequests'[b] = pendingRequests[b]
        BY <1>3, LiveKept DEF Untouched, KeepsReceived
      <2> SUFFICES ASSUME Live(b), ~closeSent[a]
                   PROVE  Continues(Held(a)', lastMessageNo'[a], Stream(a), numReceived[b], pendingRequests[b])
        BY <1>1, <1>17, <2>1 DEF RequestsContinue
      <2>2. Continues(Held(a), lastMessageNo[a], Stream(a), numReceived[b], pendingRequests[b])
        BY <1>1 DEF RequestsContinue, Link
      <2>3. Held(a) \in SUBSET Messages /\ Stream(a) \in Seq(Frames) /\ numReceived[b] \in Nat
        BY <1>7, Typed, StreamIs DEF Held, HeldIn, ToSet
      <2>4. CASE IsReq(m)
        <3>1. New(m2)
          BY <1>5, <1>6, <1>9, <2>4 DEF New, IsReq
        <3>2. Continues(Held(a)', lastMessageNo[a] + 1, Stream(a), numReceived[b], pendingRequests[b])
          BY <1>6, <1>7, <1>8, <2>2, <2>3, <2>4, <3>1, ContinuesQueued
        <3> QED  BY <1>6, <2>4, <3>2
      <2>5. CASE ~IsReq(m)
        <3>1. Continues(Held(a)', lastMessageNo[a], Stream(a), numReceived[b], pendingRequests[b])
          BY <1>6, <1>7, <1>8, <1>9, <2>2, <2>3, <2>5, ContinuesQueued
        <3> QED  BY <1>6, <2>5, <3>1
      <2> QED  BY <2>4, <2>5
    <1>20. Own(b)' /\ Link(b)'
      BY <1>1, <1>3, <1>10, LiveKept, Bystander DEF KeepsReceived, KeepsLoop, KeepsLinks, KeepsApp
    <1> QED  BY <1>1, <1>16, <1>17, <1>18, <1>19, <1>20 DEF Link

\* What is empty, is all right.
LEMMA NothingHeld ==
    ASSUME NEW mb, NEW out, NEW ice, Alone(mb, out, ice)
    PROVE  /\ Alone(mb, <<>>, <<>>) /\ NewInOrder(<<>>) /\ HeldIn(<<>>, <<>>) = {}
           /\ \A last : HeldOK({}, last)
    <1>1. HeldIn(<<>>, <<>>) = {}
      BY Nothing DEF HeldIn
    <1>2. Alone(mb, <<>>, <<>>)
      BY <1>1, Nothing DEF Alone
    <1>3. NewInOrder(<<>>) /\ \A last : HeldOK({}, last)
      BY Nothing DEF NewInOrder, HeldOK
    <1> QED  BY <1>1, <1>2, <1>3

\* The end of _closed
LEMMA FinishKeeps ==
    ASSUME TypeOK, NEW a \in Peers, FinishClosed(a), \A p \in Peers : Own(p) /\ Link(p)
    PROVE  \A p \in Peers : Own(p)' /\ Link(p)'
    <1>1. PICK b \in Peers : b = Other(a) /\ Other(b) = a /\ \A q \in Peers : q = a \/ q = b
      BY TwoPeers
    <1>2. /\ progress'[a] = Ended(a, Cancelled(a), "disconnected") /\ outbox'[a] = <<>> /\ icebox'[a] = <<>>
          /\ pendingRequests'[a] = <<>> /\ pendingResponses'[a] = <<>> /\ socket'[a] = "gone"
          /\ Untouched(b) /\ KeepsMail(a) /\ KeepsLinks(a) /\ batch'[a] = batch[a]
          /\ toRespond'[a] = toRespond[a] /\ lastMessageNo'[a] = lastMessageNo[a]
          /\ numReceived'[a] = numReceived[a]
      BY <1>1, FinishClosedDoes
    <1>3. /\ Queues(a) /\ Answers(a) /\ Awaits(a) /\ NotTwice(a)
          /\ ErrorsMayThrow \/ NotLost(a)
      BY DEF Own
    <1>4. DOMAIN pendingRequests'[a] = {} /\ DOMAIN pendingResponses'[a] = {}
      BY <1>2, Nothing
    <1>5. ~Live(a)'
      BY <1>2 DEF Live
    <1>6. /\ Alone(mailbox[a], <<>>, <<>>) /\ NewInOrder(<<>>) /\ Held(a)' = {} /\ HeldOK(Held(a)', lastMessageNo[a])
      BY <1>2, <1>3, NothingHeld DEF Queues, Held
    <1>7. Posted(a)' = Posted(a) /\ Mine(a)' = Posted(a) /\ Mine(a)' \subseteq Mine(a)
      BY <1>2, <1>6 DEF Mine, Posted, KeepsMail
    <1>8. Within(Mine(a)', Mine(a)) /\ RepliesIn(Mine(a)', Mine(a)) /\ KeepsRequests(a)
      <2>1. Within(Mine(a)', Mine(a))
        BY <1>7, WithinItself
      <2> QED  BY <1>2, <2>1, WithinReplies, EndedKeeps
    <1>9. Queues(a)'
      <2>1. \A m \in ToSet(icebox'[a]) : m.bytesSent > 0
        BY <1>2, Nothing
      <2> QED  BY <1>2, <1>3, <1>6, <1>7, <1>8, <2>1 DEF Queues, KeepsMail, KeepsRequests
    <1>10. Mail(a)'
      BY <1>5 DEF Mail
    <1>11. Answers(a)'
      BY <1>2, <1>3, <1>4, <1>8, AnswersKept
    <1>12. Awaits(a)'
      BY <1>2, <1>3, <1>4, <1>8, AwaitsKept
    <1>13. \A i \in DOMAIN progress[a] :
              /\ i \notin Cancelled(a) => progress'[a][i].ends = progress[a][i].ends
              /\ i \in Cancelled(a) => progress'[a][i].ends = Append(progress[a][i].ends, "disconnected")
      <2>1. \A i \in DOMAIN progress[a] :
               /\ i \notin Cancelled(a) => Ended(a, Cancelled(a), "disconnected")[i].ends = progress[a][i].ends
               /\ i \in Cancelled(a) =>
                     Ended(a, Cancelled(a), "disconnected")[i].ends = Append(progress[a][i].ends, "disconnected")
        BY EndedIs
      <2> QED  BY <1>2, <2>1
    <1>14. \A id : Waits(a, id)' <=> \E m \in Posted(a) : IsReq(m) /\ m.id = id
      BY <1>4, <1>7 DEF Waits
    <1>15. \A id : Waits(a, id)' => Waits(a, id)
      BY <1>14 DEF Waits, Mine
    <1>16. Cancelled(a) = {m.id : m \in {m \in Held(a) : wantsReply(m)}}
                             \union {pendingResponses[a][n].id : n \in DOMAIN pendingResponses[a]}
      BY DEF Cancelled, Held, HeldIn
    <1>17. ASSUME NEW id \in Cancelled(a)
           PROVE  Waits(a, id) /\ ~Waits(a, id)'
      <2>1. ASSUME NEW m \in Held(a), wantsReply(m), id = m.id
            PROVE  Waits(a, id) /\ ~Waits(a, id)'
        <3>1. IsReq(m) /\ m \in Mine(a)
          BY <2>1 DEF wantsReply, IsReq, Mine
        <3>2. \A x \in Posted(a) : ~Twins(x, m)
          BY <1>3 DEF Queues, Alone, Posted, Held
        <3>3. \A x \in Posted(a) : ~(IsReq(x) /\ x.id = id)
          BY <2>1, <3>1, <3>2 DEF Twins
        <3> QED  BY <1>14, <2>1, <3>1, <3>3 DEF Waits
      <2>2. ASSUME NEW n \in DOMAIN pendingResponses[a], id = pendingResponses[a][n].id
            PROVE  Waits(a, id) /\ ~Waits(a, id)'
        <3>1. id = n
          BY <1>3, <2>2 DEF Awaits, Awaited
        <3>2. \A x \in Posted(a) : ~(IsReq(x) /\ x.id = id)
          BY <1>3, <3>1 DEF Awaits, Awaited, Mine
        <3> QED  BY <1>14, <3>1, <3>2 DEF Waits
      <2> QED  BY <1>16, <1>17, <2>1, <2>2
    <1>18. ASSUME NEW id \in DOMAIN progress[a], ~progress[a][id].noReply, id \notin Cancelled(a), Waits(a, id)
           PROVE  Waits(a, id)'
      <2>1. Flags(a)
        BY DEF Link
      <2>2. id \notin DOMAIN pendingResponses[a]
        <3>1. id \in DOMAIN pendingResponses[a] => pendingResponses[a][id].id = id
          BY <1>3 DEF Awaits, Awaited
        <3> QED  BY <1>16, <1>18, <3>1
      <2>3. \A m \in Held(a) : ~(IsReq(m) /\ m.id = id)
        <3> SUFFICES ASSUME NEW m \in Held(a), IsReq(m), m.id = id PROVE FALSE
          OBVIOUS
        <3>1. ~m.noReply
          BY <1>18, <2>1 DEF Flags, Mine
        <3>2. wantsReply(m)
          BY <3>1 DEF wantsReply, IsReq
        <3> QED  BY <1>16, <1>18, <3>2
      <2> QED  BY <1>14, <1>18, <2>2, <2>3 DEF Waits, Mine
    <1>19. NotTwice(a)' /\ (NotLost(a) => NotLost(a)')
      <2>1. \A id \in DOMAIN progress[a] : ~progress[a][id].noReply =>
               \/ progress'[a][id].ends = progress[a][id].ends /\ (Waits(a, id)' => Waits(a, id))
               \/ /\ \E how : progress'[a][id].ends = Append(progress[a][id].ends, how)
                  /\ Waits(a, id) /\ ~Waits(a, id)'
        BY <1>13, <1>15, <1>17
      <2>2. \A id \in DOMAIN progress[a] : ~progress[a][id].noReply =>
               \/ Waits(a, id) => Waits(a, id)'
               \/ \E how : progress'[a][id].ends = Append(progress[a][id].ends, how)
        BY <1>13, <1>18
      <2> QED  BY <1>3, <1>8, <2>1, <2>2, EndsStep
    <1>20. Own(a)'
      BY <1>3, <1>9, <1>10, <1>11, <1>12, <1>19 DEF Own
    <1>21. Stream(a)' = Stream(a) /\ Stream(b)' = Stream(b)
      BY <1>1, <1>2, StreamKept DEF Untouched, KeepsLinks, KeepsLoop
    <1>22. /\ MailKept(b) /\ KeepsRequests(b) /\ Mine(b)' = Mine(b) /\ Live(b)' = Live(b)
           /\ pendingResponses'[b] = pendingResponses[b] /\ pendingRequests'[b] = pendingRequests[b]
           /\ numReceived'[b] = numReceived[b]
      BY <1>2, Kept, LiveKept DEF Untouched, KeepsApp, KeepsReceived
    <1>23. Own(b)'
      BY <1>2, <1>22, OwnKept DEF Untouched
    <1>24. /\ Queues(b) /\ Flags(b) /\ Kinds(b) /\ AnswersExpected(b) /\ Within(Mine(b)', Mine(b))
           /\ Flags(a) /\ Kinds(a) /\ RequestsInOrder(a)
      BY <1>22, WithinItself DEF Own, Link
    <1>25. Flags(a)' /\ Kinds(a)'
      BY <1>1, <1>3, <1>8, <1>21, <1>22, <1>24, FlagsKept, KindsKept
    <1>26. RequestsInOrder(a)'
      BY <1>1, <1>21, <1>22, <1>24, OrderKept
    <1>27. Flags(b)' /\ Kinds(b)'
      BY <1>1, <1>4, <1>21, <1>22, <1>24, FlagsKept, KindsKept
    <1>28. AnswersExpected(b)'
      BY <1>1, <1>2, <1>8, <1>21, <1>22, <1>24, ExpectedKept
    <1>29. RequestsContinue(a)' /\ AnswersExpected(a)' /\ RequestsInOrder(b)' /\ RequestsContinue(b)'
      BY <1>1, <1>5 DEF RequestsContinue, AnswersExpected, RequestsInOrder
    <1> QED  BY <1>1, <1>20, <1>23, <1>25, <1>26, <1>27, <1>28, <1>29 DEF Link
------------------------------------------------------------------------------
(***************************************************************************)
(* Steps that handle a frame.                                              *)
(***************************************************************************)

\* The frame is the first of those that the other peer has sent.
LEMMA FirstOfStream ==
    ASSUME TypeOK, NEW a \in Peers, NEW b \in Peers, b = Other(a), Untouched(b), KeepsLinks(a), batch[a] # <<>>
    PROVE  /\ Stream(b) \in Seq(Frames) /\ Stream(b) # <<>> /\ Head(Stream(b)) = Frame(a)
           /\ Frame(a) \in ToSet(Stream(b)) /\ ToSet(Tail(Stream(b))) \subseteq ToSet(Stream(b))
           /\ batch'[a] = Tail(batch[a]) => Stream(b)' = Tail(Stream(b))
           /\ batch'[a] = <<>> => ToSet(Stream(b)') \subseteq ToSet(Stream(b))
           /\ Stream(a)' = Stream(a)
    <1>1. Other(b) = a
      BY TwoPeers
    <1>2. batch[a] \in Seq(Frames) /\ incoming[a] \in Seq(Frames) /\ wire[b] \in Seq(Frames)
      BY Typed
    <1>3. PICK u, v, w : u = batch[a] /\ v = incoming[a] /\ w = wire[b]
      OBVIOUS
    <1>4. /\ Stream(b) = (u \o v) \o w /\ Stream(b)' = (batch'[a] \o v) \o w
          /\ u \in Seq(Frames) /\ v \in Seq(Frames) /\ w \in Seq(Frames) /\ u # <<>>
      BY <1>1, <1>2, <1>3 DEF Stream, Untouched, KeepsLinks
    <1>5. u \o v \in Seq(Frames) /\ u \o v # <<>> /\ Head(u \o v) = Head(u) /\ Tail(u \o v) = Tail(u) \o v
      BY <1>4, Joined
    <1>6. \A x \in Seq(Frames) : x # <<>> =>
             x \o w # <<>> /\ Head(x \o w) = Head(x) /\ Tail(x \o w) = Tail(x) \o w
      <2> TAKE x \in Seq(Frames)
      <2> QED  BY <1>4, Joined
    <1>7. (u \o v) \o w # <<>> /\ Head((u \o v) \o w) = Head(u) /\ Tail((u \o v) \o w) = (Tail(u) \o v) \o w
      BY <1>5, <1>6
    <1>8. Stream(b) # <<>> /\ Head(Stream(b)) = Frame(a) /\ Tail(Stream(b)) = (Tail(u) \o v) \o w
      BY <1>3, <1>4, <1>7 DEF Frame
    <1>9. /\ Stream(b) \in Seq(Frames)
          /\ ToSet(Stream(b)) = (ToSet(u) \union ToSet(v)) \union ToSet(w)
      BY <1>1, <1>3, StreamIs
    <1>10. ToSet(Stream(b)) = {Head(Stream(b))} \union ToSet(Tail(Stream(b)))
      BY <1>8, <1>9, Shorter
    <1>11. ASSUME batch'[a] = <<>>
           PROVE  ToSet(Stream(b)') \subseteq ToSet(Stream(b))
      <2>1. <<>> \o v = v
        BY <1>4, Joined
      <2>2. Stream(b)' = v \o w
        BY <1>4, <1>11, <2>1
      <2>3. ToSet(v \o w) = ToSet(v) \union ToSet(w)
        BY <1>4, JoinedSet
      <2> QED  BY <1>9, <2>2, <2>3
    <1>12. batch'[a] = Tail(batch[a]) => Stream(b)' = Tail(Stream(b))
      BY <1>3, <1>4, <1>8
    <1>13. Stream(a)' = Stream(a)
      BY <1>1, StreamKept DEF Untouched, KeepsLinks, KeepsLoop
    <1> QED  BY <1>8, <1>9, <1>10, <1>11, <1>12, <1>13

\* The peer that handles it.
LEMMA Handler ==
    ASSUME TypeOK, NEW a \in Peers, NEW b \in Peers, b = Other(a), Untouched(b), Own(a), Link(a),
           Within(Mine(a)', Mine(a)), KeepsRequests(a), Stream(a)' = Stream(a), lastMessageNo'[a] = lastMessageNo[a],
           Live(a)' => Live(a), closeSent[a] => closeSent'[a],
           AllAlike(Held(a)', Held(a)), AllAlike(Held(a), Held(a)')
    PROVE  Flags(a)' /\ Kinds(a)' /\ RequestsInOrder(a)' /\ RequestsContinue(a)'
    <1>1. Live(b)' = Live(b) /\ pendingRequests'[b] = pendingRequests[b] /\ numReceived'[b] = numReceived[b]
      BY LiveKept DEF Untouched, KeepsReceived
    <1>2. Queues(a) /\ Flags(a) /\ Kinds(a) /\ RequestsInOrder(a) /\ RequestsContinue(a)
      BY DEF Own, Link
    <1>3. Flags(a)' /\ Kinds(a)'
      BY <1>1, <1>2, FlagsKept, KindsKept
    <1>4. RequestsInOrder(a)'
      BY <1>1, <1>2, OrderKept
    <1>5. RequestsContinue(a)'
      BY <1>1, <1>2, ContinueKept
    <1> QED  BY <1>3, <1>4, <1>5

\* What it expects, after a frame that is no reply.
LEMMA HandlerExpects ==
    ASSUME TypeOK, NEW a \in Peers, NEW b \in Peers, b = Other(a), Untouched(b), Link(a), Live(a)' => Live(a),
           Stream(a)' = Stream(a), Stream(b) \in Seq(Frames), Stream(b) # <<>>,
           Stream(b)' = Tail(Stream(b)), ~IsReply(Head(Stream(b))), pendingResponses'[a] = pendingResponses[a]
    PROVE  AnswersExpected(a)'
    <1>1. Mine(b)' = Mine(b) /\ toRespond'[b] = toRespond[b]
      BY Kept DEF Untouched, KeepsApp
    <1> SUFFICES ASSUME Live(a)
                 PROVE  Expected(Mine(b), toRespond[b], Stream(a), Tail(Stream(b)), pendingResponses[a])
      BY <1>1 DEF AnswersExpected
    <1>2. Expected(Mine(b), toRespond[b], Stream(a), Stream(b), pendingResponses[a])
      BY DEF AnswersExpected, Link
    <1> QED  BY <1>2, ExpectedHandled

\* The peer that sent it.
LEMMA Sender ==
    ASSUME TypeOK, NEW a \in Peers, NEW b \in Peers, b = Other(a), Untouched(b), Own(b), Link(b),
           Stream(a)' = Stream(a), ToSet(Stream(b)') \subseteq ToSet(Stream(b)),
           RepliesIn(Mine(a)', Mine(a))
    PROVE  /\ Own(b)' /\ Kinds(b)' /\ Live(b)' = Live(b)
           /\ pendingResponses'[b] = pendingResponses[b]
           /\ toRespond'[a] \subseteq toRespond[a] => AnswersExpected(b)'
           /\ (\A n \in DOMAIN pendingRequests'[a] :
                 /\ n \in DOMAIN pendingRequests[a]
                 /\ pendingRequests'[a][n].noReply = pendingRequests[a][n].noReply) => Flags(b)'
    <1>1. Other(b) = a
      BY TwoPeers
    <1>2. /\ MailKept(b) /\ KeepsRequests(b) /\ Mine(b)' = Mine(b) /\ Live(b)' = Live(b)
          /\ pendingResponses'[b] = pendingResponses[b]
      BY Kept, LiveKept DEF Untouched, KeepsApp, KeepsReceived
    <1>3. Queues(b) /\ Flags(b) /\ Kinds(b) /\ AnswersExpected(b) /\ Within(Mine(b)', Mine(b))
      BY <1>2, WithinItself DEF Own, Link
    <1>4. Own(b)'
      BY <1>2, OwnKept DEF Untouched
    <1>5. Kinds(b)'
      BY <1>3, KindsKept
    <1>6. ASSUME toRespond'[a] \subseteq toRespond[a]
          PROVE  AnswersExpected(b)'
      BY <1>1, <1>2, <1>3, <1>6, ExpectedKept
    <1>7. ASSUME \A n \in DOMAIN pendingRequests'[a] :
                    /\ n \in DOMAIN pendingRequests[a]
                    /\ pendingRequests'[a][n].noReply = pendingRequests[a][n].noReply
          PROVE  Flags(b)'
      BY <1>1, <1>2, <1>3, <1>7, FlagsKept
    <1> QED  BY <1>2, <1>4, <1>5, <1>6, <1>7

\* Its requests go on, after a frame of something else ...
LEMMA SenderGoesOn ==
    ASSUME TypeOK, NEW a \in Peers, NEW b \in Peers, b = Other(a), Untouched(b), Link(b), Answers(a),
           Live(a)' => Live(a), Stream(b) \in Seq(Frames), Stream(b) # <<>>,
           Stream(b)' = Tail(Stream(b)), ~IsReq(Head(Stream(b))),
           numReceived'[a] = numReceived[a], pendingRequests'[a] = pendingRequests[a]
    PROVE  RequestsInOrder(b)' /\ RequestsContinue(b)'
    <1>1. Other(b) = a
      BY TwoPeers
    <1>2. /\ Live(b)' = Live(b) /\ closeSent'[b] = closeSent[b] /\ Held(b)' = Held(b)
          /\ lastMessageNo'[b] = lastMessageNo[b]
      BY Kept, LiveKept DEF Untouched, KeepsQueues
    <1>3. DOMAIN pendingRequests[a] \subseteq 1..numReceived[a] /\ numReceived[a] \in Nat
          /\ lastMessageNo[b] \in Nat
      BY Typed DEF Answers, Answered
    <1>4. Live(a) => InOrder(Stream(b), numReceived[a], pendingRequests[a])
      BY <1>1 DEF RequestsInOrder, Link
    <1>5. RequestsInOrder(b)'
      <2> SUFFICES ASSUME Live(a) PROVE InOrder(Tail(Stream(b)), numReceived[a], pendingRequests[a])
        BY <1>1 DEF RequestsInOrder
      <2> QED  BY <1>3, <1>4, InOrderHandled
    <1>6. RequestsContinue(b)'
      <2> SUFFICES ASSUME Live(a), Live(b), ~closeSent[b]
                   PROVE  Continues(Held(b), lastMessageNo[b], Tail(Stream(b)), numReceived[a], pendingRequests[a])
        BY <1>1, <1>2 DEF RequestsContinue
      <2>1. Continues(Held(b), lastMessageNo[b], Stream(b), numReceived[a], pendingRequests[a])
        BY <1>1 DEF RequestsContinue, Link
      <2>2. Held(b) \in SUBSET Messages
        BY Typed DEF Held, HeldIn, ToSet
      <2> QED  BY <1>3, <1>4, <2>1, <2>2, ContinuesHandled
    <1> QED  BY <1>5, <1>6

\* ... and are not looked at any more by a peer that has given up.
LEMMA GaveUp ==
    ASSUME NEW a \in Peers, NEW b \in Peers, b = Other(a), ~Live(a)'
    PROVE  RequestsInOrder(b)' /\ RequestsContinue(b)' /\ AnswersExpected(a)' /\ Mail(a)'
    <1>1. Other(b) = a
      BY TwoPeers
    <1> QED  BY <1>1 DEF RequestsInOrder, RequestsContinue, AnswersExpected, Mail

\* An ACK changes no message but for what is not acknowledged, and moves one.
LEMMA AckedQueues ==
    ASSUME TypeOK, NEW a \in Peers, Queues(a), AckFrame(a)
    PROVE  /\ \A x \in Held(a)' : \E y \in Held(a) : Alike(x, y)
           /\ \A y \in Held(a) : \E x \in Held(a)' : Alike(y, x)
           /\ Alone(mailbox[a], outbox'[a], icebox'[a]) /\ NewInOrder(outbox'[a])
           /\ \A m \in ToSet(icebox'[a]) : m.bytesSent > 0
    <1>1. PICK count \in Nat, out \in Seq(Messages), ice \in Seq(Messages), mb \in Seq(Events) :
             count = Frame(a).count /\ out = outbox[a] /\ ice = icebox[a] /\ mb = mailbox[a]
      BY AckFrameDoes, FrameIs, Typed
    <1>2. /\ Alone(mb, out, ice) /\ NewInOrder(out) /\ \A m \in ToSet(ice) : m.bytesSent > 0
      BY <1>1 DEF Queues
    <1>3. \A x : Alike(x, x)
      BY DEF Alike
    <1>4. \A x \in Messages : Alike(Acked(x, count), x) /\ Alike(x, Acked(x, count))
      <2> TAKE x \in Messages
      <2> QED  BY <1>1, AckedIs DEF Alike
    <1>5. Held(a) = ToSet(out) \union ToSet(ice) /\ Held(a)' = ToSet(outbox'[a]) \union ToSet(icebox'[a])
      BY <1>1 DEF Held, HeldIn
    <1>6. CASE outbox'[a] = out /\ icebox'[a] = ice
      BY <1>1, <1>2, <1>3, <1>5, <1>6
    <1>7. ASSUME NEW i \in 1..Len(out), outbox'[a] = [out EXCEPT ![i] = Acked(out[i], count)], icebox'[a] = ice
          PROVE  /\ \A x \in Held(a)' : \E y \in Held(a) : Alike(x, y)
                 /\ \A y \in Held(a) : \E x \in Held(a)' : Alike(y, x)
                 /\ Alone(mailbox[a], outbox'[a], icebox'[a]) /\ NewInOrder(outbox'[a])
                 /\ \A m \in ToSet(icebox'[a]) : m.bytesSent > 0
      <2>1. out[i] \in Messages
        BY <1>1, <1>7
      <2>2. PICK m \in Messages : m = Acked(out[i], count)
        BY <1>1, <2>1, AckedIs
      <2>3. /\ m.type = out[i].type /\ m.number = out[i].number /\ m.id = out[i].id
            /\ m.bytesSent = out[i].bytesSent /\ Alike(m, out[i]) /\ Alike(out[i], m)
        BY <1>1, <1>4, <2>1, <2>2, AckedIs
      <2>4. outbox'[a] = [out EXCEPT ![i] = m]
        BY <1>7, <2>2
      <2>5. /\ ToSet(outbox'[a]) \subseteq ToSet(out) \union {m} /\ m \in ToSet(outbox'[a])
            /\ \A x \in ToSet(out) : x = out[i] \/ x \in ToSet(outbox'[a])
            /\ out[i] \in ToSet(out)
        <3>1. /\ ToSet([out EXCEPT ![i] = m]) \subseteq ToSet(out) \union {m}
              /\ m \in ToSet([out EXCEPT ![i] = m])
              /\ \A x \in ToSet(out) : x = out[i] \/ x \in ToSet([out EXCEPT ![i] = m])
              /\ out[i] \in ToSet(out)
          BY Replaced
        <3> QED  BY <2>4, <3>1
      <2>6. Alone(mb, outbox'[a], ice)
        <3>1. Alone(mb, [out EXCEPT ![i] = m], ice)
          BY <1>2, <2>3, AloneReplaced
        <3> QED  BY <2>4, <3>1
      <2>7. NewInOrder(outbox'[a])
        BY <1>1, <1>2, <1>7, <2>3, <2>4, NewReplaced
      <2>8. \A x \in Held(a)' : \E y \in Held(a) : Alike(x, y)
        BY <1>3, <1>5, <1>7, <2>3, <2>5
      <2>9. \A y \in Held(a) : \E x \in Held(a)' : Alike(y, x)
        BY <1>3, <1>5, <1>7, <2>3, <2>5
      <2> QED  BY <1>1, <1>2, <1>7, <2>6, <2>7, <2>8, <2>9
    <1>8. ASSUME NEW j \in 1..Len(ice), icebox'[a] = [ice EXCEPT ![j] = Acked(ice[j], count)], outbox'[a] = out
          PROVE  /\ \A x \in Held(a)' : \E y \in Held(a) : Alike(x, y)
                 /\ \A y \in Held(a) : \E x \in Held(a)' : Alike(y, x)
                 /\ Alone(mailbox[a], outbox'[a], icebox'[a]) /\ NewInOrder(outbox'[a])
                 /\ \A m \in ToSet(icebox'[a]) : m.bytesSent > 0
      <2>1. ice[j] \in Messages
        BY <1>1, <1>8
      <2>2. PICK m \in Messages : m = Acked(ice[j], count)
        BY <1>1, <2>1, AckedIs
      <2>3. /\ m.type = ice[j].type /\ m.number = ice[j].number /\ m.id = ice[j].id
            /\ m.bytesSent = ice[j].bytesSent /\ Alike(m, ice[j]) /\ Alike(ice[j], m)
        BY <1>1, <1>4, <2>1, <2>2, AckedIs
      <2>4. icebox'[a] = [ice EXCEPT ![j] = m]
        BY <1>8, <2>2
      <2>5. /\ ToSet(icebox'[a]) \subseteq ToSet(ice) \union {m} /\ m \in ToSet(icebox'[a])
            /\ \A x \in ToSet(ice) : x = ice[j] \/ x \in ToSet(icebox'[a])
            /\ ice[j] \in ToSet(ice)
        <3>1. /\ ToSet([ice EXCEPT ![j] = m]) \subseteq ToSet(ice) \union {m}
              /\ m \in ToSet([ice EXCEPT ![j] = m])
              /\ \A x \in ToSet(ice) : x = ice[j] \/ x \in ToSet([ice EXCEPT ![j] = m])
              /\ ice[j] \in ToSet(ice)
          BY Replaced
        <3> QED  BY <2>4, <3>1
      <2>6. Alone(mb, out, icebox'[a])
        <3>1. Alone(mb, out, [ice EXCEPT ![j] = m])
          BY <1>2, <2>3, AloneReplaced
        <3> QED  BY <2>4, <3>1
      <2>7. \A x \in ToSet(icebox'[a]) : x.bytesSent > 0
        BY <1>2, <2>3, <2>5
      <2>8. \A x \in Held(a)' : \E y \in Held(a) : Alike(x, y)
        BY <1>3, <1>5, <1>8, <2>3, <2>5
      <2>9. \A y \in Held(a) : \E x \in Held(a)' : Alike(y, x)
        BY <1>3, <1>5, <1>8, <2>3, <2>5
      <2> QED  BY <1>1, <1>2, <1>8, <2>6, <2>7, <2>8, <2>9
    <1>9. ASSUME NEW j \in 1..Len(ice), icebox'[a] = RemoveAt(ice, j), outbox'[a] = requeue(out, Acked(ice[j], count))
          PROVE  /\ \A x \in Held(a)' : \E y \in Held(a) : Alike(x, y)
                 /\ \A y \in Held(a) : \E x \in Held(a)' : Alike(y, x)
                 /\ Alone(mailbox[a], outbox'[a], icebox'[a]) /\ NewInOrder(outbox'[a])
                 /\ \A m \in ToSet(icebox'[a]) : m.bytesSent > 0
      <2>1. ice[j] \in Messages /\ ice[j] \in ToSet(ice)
        BY <1>1, <1>9 DEF ToSet
      <2>2. PICK m \in Messages : m = Acked(ice[j], count)
        BY <1>1, <2>1, AckedIs
      <2>3. /\ m.type = ice[j].type /\ m.number = ice[j].number /\ m.id = ice[j].id
            /\ m.bytesSent = ice[j].bytesSent /\ Alike(m, ice[j]) /\ Alike(ice[j], m)
        BY <1>1, <1>4, <2>1, <2>2, AckedIs
      <2>4. PICK rest \in Seq(Messages) : rest = RemoveAt(ice, j) /\ icebox'[a] = rest
        BY <1>1, <1>9, Removed
      <2>5. ToSet(rest) \subseteq ToSet(ice)
        BY <1>1, <1>9, <2>4, Removed
      <2>6. \A x \in ToSet(ice) : x = ice[j] \/ x \in ToSet(rest)
        <3> SUFFICES ASSUME NEW k \in 1..Len(ice), k # j PROVE ice[k] \in ToSet(rest)
          BY <1>1 DEF ToSet
        <3>1. /\ DOMAIN rest = 1..Len(ice)-1 /\ Len(ice) \in Nat
              /\ \A i \in 1..Len(ice)-1 : i < j => rest[i] = ice[i]
              /\ \A i \in 1..Len(ice)-1 : i >= j => rest[i] = ice[i + 1]
          BY <1>1, <1>9, <2>4, Removed
        <3>2. CASE k < j
          <4>1. k \in 1..Len(ice)-1
            BY <1>9, <3>1, <3>2
          <4>2. rest[k] = ice[k]
            BY <3>1, <3>2, <4>1
          <4> QED  BY <3>1, <4>1, <4>2 DEF ToSet
        <3>3. CASE k > j
          <4>1. k - 1 \in 1..Len(ice)-1 /\ k - 1 >= j /\ (k - 1) + 1 = k
            BY <1>9, <3>1, <3>3
          <4>2. rest[k - 1] = ice[k]
            BY <3>1, <4>1
          <4> QED  BY <3>1, <4>1, <4>2 DEF ToSet
        <3> QED  BY <1>9, <3>2, <3>3
      <2>7. ToSet(outbox'[a]) = ToSet(out) \union {m}
        <3>1. ToSet(requeue(out, m)) = ToSet(out) \union {m}
          BY Requeued
        <3> QED  BY <1>9, <2>2, <3>1
      <2>8. Alone(mb, out, rest) /\ NoTwin(ice[j], PostedIn(mb) \union HeldIn(out, rest))
        BY <1>1, <1>2, <1>9, <2>4, AloneThawed
      <2>9. NoTwin(m, PostedIn(mb) \union HeldIn(out, rest))
        BY <2>3, <2>8, TwinsKept DEF NoTwin
      <2>10. Alone(mb, requeue(out, m), rest)
        BY <1>1, <2>8, <2>9, AloneQueued
      <2>11. NewInOrder(requeue(out, m))
        <3>1. ~New(m)
          BY <1>2, <2>1, <2>3 DEF New
        <3> QED  BY <1>1, <1>2, <3>1, NewQueued
      <2>12. \A x \in Held(a)' : \E y \in Held(a) : Alike(x, y)
        BY <1>3, <1>5, <2>1, <2>3, <2>4, <2>5, <2>7
      <2>13. \A y \in Held(a) : \E x \in Held(a)' : Alike(y, x)
        BY <1>3, <1>5, <2>3, <2>4, <2>6, <2>7
      <2> QED  BY <1>1, <1>2, <1>9, <2>2, <2>4, <2>5, <2>10, <2>11, <2>12, <2>13
    <1>10. \/ outbox'[a] = out /\ icebox'[a] = ice
           \/ \E i \in 1..Len(out) : outbox'[a] = [out EXCEPT ![i] = Acked(out[i], count)] /\ icebox'[a] = ice
           \/ \E j \in 1..Len(ice) : icebox'[a] = [ice EXCEPT ![j] = Acked(ice[j], count)] /\ outbox'[a] = out
           \/ \E j \in 1..Len(ice) :
                 icebox'[a] = RemoveAt(ice, j) /\ outbox'[a] = requeue(out, Acked(ice[j], count))
      BY <1>1, AckFrameDoes
    <1> QED  BY <1>6, <1>7, <1>8, <1>9, <1>10

\* receivedAck
LEMMA AckFrameKeeps ==
    ASSUME TypeOK, NEW a \in Peers, AckFrame(a), \A p \in Peers : Own(p) /\ Link(p)
    PROVE  \A p \in Peers : Own(p)' /\ Link(p)'
    <1>1. PICK b \in Peers : b = Other(a) /\ Other(b) = a /\ \A q \in Peers : q = a \/ q = b
      BY TwoPeers
    <1>2. /\ Untouched(b) /\ KeepsApp(a) /\ KeepsMail(a) /\ KeepsReceived(a) /\ KeepsLinks(a) /\ KeepsOpen(a)
          /\ lastMessageNo'[a] = lastMessageNo[a] /\ batch'[a] = Tail(batch[a])
          /\ batch[a] # <<>> /\ isAck(Frame(a))
      BY <1>1, AckFrameDoes
    <1>3. /\ Queues(a) /\ Mail(a) /\ Answers(a) /\ Awaits(a) /\ NotTwice(a)
          /\ ErrorsMayThrow \/ NotLost(a)
      BY DEF Own
    <1>4. /\ \A x \in Held(a)' : \E y \in Held(a) : Alike(x, y)
          /\ \A y \in Held(a) : \E x \in Held(a)' : Alike(y, x)
          /\ Alone(mailbox[a], outbox'[a], icebox'[a]) /\ NewInOrder(outbox'[a])
          /\ \A m \in ToSet(icebox'[a]) : m.bytesSent > 0
      BY <1>3, AckedQueues
    <1>5. /\ AllAlike(Held(a)', Held(a)) /\ AllAlike(Held(a), Held(a)')
      BY <1>4 DEF AllAlike
    <1>6. /\ MailKept(a) /\ KeepsRequests(a) /\ Live(a)' = Live(a) /\ closeSent'[a] = closeSent[a]
      BY <1>2, Kept, LiveKept DEF KeepsApp
    <1>7. Within(Mine(a)', Mine(a)) /\ Within(Mine(a), Mine(a)') /\ RepliesIn(Mine(a)', Mine(a))
      <2>1. Within(Mine(a)', Mine(a)) /\ Within(Mine(a), Mine(a)')
        BY <1>5, <1>6, MineKept
      <2> QED  BY <2>1, WithinReplies
    <1>8. Queues(a)'
      <2>1. HeldOK(Held(a)', lastMessageNo[a])
        <3>1. HeldOK(Held(a), lastMessageNo[a])
          BY <1>3 DEF Queues
        <3> QED  BY <1>4, <3>1 DEF HeldOK, Alike, IsReq
      <2>2. Posted(a)' = Posted(a) /\ Len(progress'[a]) = Len(progress[a])
        BY <1>2 DEF Posted, KeepsMail, KeepsApp
      <2> QED  BY <1>2, <1>3, <1>4, <2>1, <2>2 DEF Queues, KeepsMail
    <1>9. Mail(a)' /\ Answers(a)' /\ Awaits(a)'
      <2>1. Mail(a)'
        BY <1>2, <1>3, <1>6, InMailKept
      <2>2. Answers(a)'
        BY <1>2, <1>3, <1>7, AnswersKept DEF KeepsReceived, KeepsApp
      <2>3. Awaits(a)'
        BY <1>2, <1>3, <1>6, <1>7, AwaitsKept DEF KeepsReceived
      <2> QED  BY <2>1, <2>2, <2>3
    <1>10. (NotTwice(a) => NotTwice(a)') /\ (NotLost(a) => NotLost(a)')
      BY <1>2, <1>7, EndsKept DEF KeepsApp, KeepsReceived
    <1>11. Own(a)'
      BY <1>3, <1>8, <1>9, <1>10 DEF Own
    <1>12. /\ Stream(b) \in Seq(Frames) /\ Stream(b) # <<>> /\ Head(Stream(b)) = Frame(a)
           /\ Stream(b)' = Tail(Stream(b)) /\ ToSet(Stream(b)') \subseteq ToSet(Stream(b))
           /\ Stream(a)' = Stream(a)
      BY <1>1, <1>2, FirstOfStream
    <1>13. ~IsReq(Head(Stream(b))) /\ ~IsReply(Head(Stream(b)))
      BY <1>2, <1>12, AcksDoNotCount
    <1>14. Flags(a)' /\ Kinds(a)' /\ RequestsInOrder(a)' /\ RequestsContinue(a)'
      BY <1>1, <1>2, <1>5, <1>6, <1>7, <1>12, Handler
    <1>15. AnswersExpected(a)'
      BY <1>1, <1>2, <1>6, <1>12, <1>13, HandlerExpects DEF KeepsReceived
    <1>16. Own(b)' /\ Kinds(b)' /\ AnswersExpected(b)' /\ Flags(b)'
      BY <1>1, <1>2, <1>7, <1>12, Sender DEF KeepsApp, KeepsReceived
    <1>17. RequestsInOrder(b)' /\ RequestsContinue(b)'
      BY <1>1, <1>2, <1>3, <1>6, <1>12, <1>13, SenderGoesOn DEF KeepsReceived
    <1> QED  BY <1>1, <1>11, <1>14, <1>15, <1>16, <1>17 DEF Link

\* The first frame, if it is one of a request, is expected.
LEMMA RequestExpected ==
    ASSUME TypeOK, NEW a \in Peers, \A p \in Peers : Own(p) /\ Link(p), Live(a), batch[a] # <<>>, IsReq(Frame(a))
    PROVE  IsExpected(a, Frame(a).number)
    <1>1. PICK b \in Peers : b = Other(a) /\ Other(b) = a
      BY TwoPeers
    <1>2. batch[a] \in Seq(Frames) /\ incoming[a] \in Seq(Frames) /\ wire[b] \in Seq(Frames) /\ numReceived[a] \in Nat
      BY Typed
    <1>3. PICK u \in Seq(Frames), v \in Seq(Frames), w \in Seq(Frames) :
             u = batch[a] /\ v = incoming[a] /\ w = wire[b] /\ u # <<>>
      BY <1>2
    <1>4. PICK x \in Seq(Frames) : x = u \o v /\ x # <<>> /\ Head(x) = Head(u)
      <2>1. u # <<>>
        BY <1>3
      <2>2. u \o v \in Seq(Frames) /\ u \o v # <<>> /\ Head(u \o v) = Head(u)
        BY <2>1, Joined
      <2> QED  BY <2>2
    <1>5. x \o w \in Seq(Frames) /\ x \o w # <<>> /\ Head(x \o w) = Head(x)
      <2>1. \A y \in Seq(Frames) : y \o w \in Seq(Frames) /\ (y # <<>> => y \o w # <<>> /\ Head(y \o w) = Head(y))
        <3> TAKE y \in Seq(Frames)
        <3> QED  BY Joined
      <2> QED  BY <1>4, <2>1
    <1>6. Stream(b) \in Seq(Frames) /\ Stream(b) # <<>> /\ Head(Stream(b)) = Frame(a)
      BY <1>1, <1>3, <1>4, <1>5 DEF Stream, Frame
    <1>7. InOrder(Stream(b), numReceived[a], pendingRequests[a]) /\ DOMAIN pendingRequests[a] \subseteq 1..numReceived[a]
      BY <1>1 DEF Link, RequestsInOrder, Own, Answers, Answered
    <1>8. Frame(a).number \in DOMAIN pendingRequests[a] \/ Frame(a).number = numReceived[a] + 1
      BY <1>2, <1>6, <1>7, InOrderHandled
    <1> QED  BY <1>8 DEF IsExpected

\* The flags of what the frame is added to.
LEMMA RequestFlags ==
    ASSUME TypeOK, NEW a \in Peers, NEW b \in Peers, b = Other(a), a = Other(b), Flags(b), batch[a] # <<>>,
           IsReq(Frame(a)), Frame(a) \in ToSet(Stream(b))
    PROVE  /\ Frame(a).number \in DOMAIN progress[b]
           /\ Frame(a).noReply = progress[b][Frame(a).number].noReply
           /\ IncomingRequest(a, Frame(a)).noReply = progress[b][Frame(a).number].noReply
    <1>1. /\ Frame(a).number \in DOMAIN progress[b]
          /\ Frame(a).noReply = progress[b][Frame(a).number].noReply
      BY DEF Flags
    <1>2. IncomingRequest(a, Frame(a)).noReply = progress[b][Frame(a).number].noReply
      BY <1>1, IncomingIs DEF Flags
    <1> QED  BY <1>1, <1>2

LEMMA RequestFlagsKept ==
    ASSUME TypeOK, NEW a \in Peers, NEW b \in Peers, b = Other(a), a = Other(b), Untouched(b), Flags(b), batch[a] # <<>>,
           IsReq(Frame(a)), Frame(a) \in ToSet(Stream(b)), ToSet(Stream(b)') \subseteq ToSet(Stream(b)),
           \/ pendingRequests'[a] = With(pendingRequests[a], Frame(a).number, Counted(IncomingRequest(a, Frame(a)), Frame(a)))
           \/ pendingRequests'[a] = Without(pendingRequests[a], Frame(a).number)
    PROVE  Flags(b)'
    <1>1. PICK n \in Nat \ {0} : n = Frame(a).number
      BY FrameIs
    <1>2. PICK in \in Incomings : in = Counted(IncomingRequest(a, Frame(a)), Frame(a)) /\ in.noReply = IncomingRequest(a, Frame(a)).noReply
      BY FrameIs, IncomingIs, CountedIs
    <1>3. n \in DOMAIN progress[b] /\ in.noReply = progress[b][n].noReply
      BY <1>1, <1>2, RequestFlags
    <1>4. IsPending(pendingRequests[a])
      BY Typed
    <1>5. ASSUME NEW k \in DOMAIN pendingRequests'[a]
          PROVE  \/ k \in DOMAIN pendingRequests[a] /\ pendingRequests'[a][k] = pendingRequests[a][k]
                 \/ k = n /\ pendingRequests'[a][k] = in
      <2>1. PICK map : map = pendingRequests[a] /\ IsPending(map)
        BY <1>4
      <2>2. /\ DOMAIN With(map, n, in) = DOMAIN map \union {n} /\ With(map, n, in)[n] = in
            /\ \A j \in DOMAIN map \ {n} : With(map, n, in)[j] = map[j]
            /\ DOMAIN Without(map, n) = DOMAIN map \ {n}
            /\ \A j \in DOMAIN map \ {n} : Without(map, n)[j] = map[j]
        BY DEF With, Without
      <2>3. CASE pendingRequests'[a] = With(map, n, in)
        BY <1>5, <2>1, <2>2, <2>3
      <2>4. CASE pendingRequests'[a] = Without(map, n)
        BY <1>5, <2>1, <2>2, <2>4
      <2> QED  BY <1>1, <1>2, <2>1, <2>3, <2>4
    <1>6. progress'[b] = progress[b] /\ Mine(b)' = Mine(b)
      BY Kept DEF Untouched, KeepsApp
    <1>7. \A k \in DOMAIN pendingRequests'[a] :
             k \in DOMAIN progress[b] /\ pendingRequests'[a][k].noReply = progress[b][k].noReply
      BY <1>3, <1>5 DEF Flags
    <1> QED  BY <1>6, <1>7 DEF Flags

\* receivedFrame, for a request
LEMMA RequestFrameKeeps ==
    ASSUME TypeOK, NEW a \in Peers, RequestFrame(a), Live(a), \A p \in Peers : Own(p) /\ Link(p)
    PROVE  \A p \in Peers : Own(p)' /\ Link(p)'
    <1>1. PICK b \in Peers : b = Other(a) /\ Other(b) = a /\ \A q \in Peers : q = a \/ q = b
      BY TwoPeers
    <1>2. batch[a] # <<>> /\ IsReq(Frame(a))
      BY DEF RequestFrame, Handles, IsReq, Frame
    <1>3. IsExpected(a, Frame(a).number)
      BY <1>2, RequestExpected
    <1>4. PICK f \in Frames, in \in Incomings : f = Frame(a) /\ in = IncomingRequest(a, Frame(a))
      BY <1>2, FrameIs, IncomingIs
    <1>5. /\ Untouched(b) /\ KeepsQueues(a) /\ KeepsLinks(a) /\ KeepsOpen(a)
          /\ progress'[a] = progress[a] /\ pendingResponses'[a] = pendingResponses[a]
          /\ mailbox'[a] = mailbox[a] \o Acknowledgement(in, f, "ACKREQ")
          /\ numReceived'[a] = IF f.number \in DOMAIN pendingRequests[a] THEN numReceived[a] ELSE f.number
          /\ pendingRequests'[a] = IF f.more THEN With(pendingRequests[a], f.number, Counted(in, f))
                                             ELSE Without(pendingRequests[a], f.number)
          /\ toRespond'[a] = IF f.more \/ in.noReply THEN toRespond[a] ELSE toRespond[a] \union {f.number}
          /\ batch'[a] = Tail(batch[a])
      BY <1>1, <1>3, <1>4, RequestFrameDoes
    <1>6. /\ Queues(a) /\ Mail(a) /\ Answers(a) /\ Awaits(a) /\ NotTwice(a)
          /\ ErrorsMayThrow \/ NotLost(a)
      BY DEF Own
    <1>7. /\ MailKept(a) /\ KeepsRequests(a) /\ Held(a)' = Held(a) /\ Live(a)' = Live(a)
          /\ closeSent'[a] = closeSent[a] /\ lastMessageNo'[a] = lastMessageNo[a]
      BY <1>5, MailAcked, Kept, LiveKept DEF KeepsQueues
    <1>8. /\ AllAlike(Held(a)', Held(a)) /\ AllAlike(Held(a), Held(a)')
          /\ Within(Mine(a)', Mine(a)) /\ Within(Mine(a), Mine(a)') /\ RepliesIn(Mine(a)', Mine(a))
      BY <1>7, WithinItself, MineKept, WithinReplies
    <1>9. /\ IsPending(pendingRequests[a]) /\ f.number \in Nat \ {0} /\ f.more \in BOOLEAN /\ f.noReply \in BOOLEAN
          /\ Counted(in, f) \in Incomings /\ numReceived[a] \in Nat /\ toRespond[a] \subseteq Nat
      BY Typed, CountedIs DEF Frames
    <1>10. DOMAIN pendingRequests'[a] =
              IF f.more THEN DOMAIN pendingRequests[a] \union {f.number} ELSE DOMAIN pendingRequests[a] \ {f.number}
      <2>1. PICK map, n, c : /\ map = pendingRequests[a] /\ n = f.number /\ c = Counted(in, f)
                             /\ IsPending(map) /\ n \in Nat \ {0} /\ c \in Incomings
        BY <1>9
      <2>2. DOMAIN With(map, n, c) = DOMAIN map \union {n} /\ DOMAIN Without(map, n) = DOMAIN map \ {n}
        BY DEF With, Without
      <2>3. pendingRequests'[a] = IF f.more THEN With(map, n, c) ELSE Without(map, n)
        BY <1>5, <2>1
      <2> QED  BY <2>1, <2>2, <2>3
    <1>11. f.number \in DOMAIN pendingRequests[a] \/ f.number = numReceived[a] + 1
      BY <1>3, <1>4 DEF IsExpected
    <1>12. Answers(a)'
      <2>1. DOMAIN pendingRequests'[a] \subseteq DOMAIN pendingRequests[a] \union {f.number}
        BY <1>10
      <2>2. toRespond'[a] \subseteq toRespond[a] \union {f.number}
        BY <1>5
      <2>3. f.number \notin toRespond[a]
        BY <1>6, <1>9, <1>11 DEF Answers, Answered
      <2>4. f.number \in toRespond'[a] => f.number \notin DOMAIN pendingRequests'[a]
        BY <1>5, <1>10, <2>3
      <2>5. Answered(Mine(a), toRespond[a], numReceived[a], pendingRequests[a])
        BY <1>6 DEF Answers
      <2>6. Answered(Mine(a)', toRespond'[a], numReceived'[a], pendingRequests'[a])
        <3>1. PICK N, due2, num2, pend2, n :
                 /\ N = Mine(a)' /\ due2 = toRespond'[a] /\ num2 = numReceived'[a] /\ pend2 = pendingRequests'[a]
                 /\ n = f.number
          OBVIOUS
        <3>2. /\ num2 = IF n \in DOMAIN pendingRequests[a] THEN numReceived[a] ELSE n
              /\ n \in Nat \ {0} /\ numReceived[a] \in Nat
              /\ n \in DOMAIN pendingRequests[a] \/ n = numReceived[a] + 1
          BY <1>5, <1>9, <1>11, <3>1
        <3>3. /\ RepliesIn(N, Mine(a)) /\ DOMAIN pend2 \subseteq DOMAIN pendingRequests[a] \union {n}
              /\ due2 \subseteq toRespond[a] \union {n} /\ (n \in due2 => n \notin DOMAIN pend2)
          BY <1>8, <2>1, <2>2, <2>4, <3>1
        <3>4. Answered(N, due2, num2, pend2)
          BY <2>5, <3>2, <3>3, AnsweredHandled
        <3> QED  BY <3>1, <3>4
      <2> QED  BY <2>6 DEF Answers
    <1>13. Queues(a)' /\ Mail(a)' /\ Awaits(a)'
      <2>1. Queues(a)'
        BY <1>5, <1>6, <1>7, QueuesKept
      <2>2. Mail(a)'
        BY <1>6, <1>7, InMailKept
      <2>3. Awaits(a)'
        BY <1>5, <1>6, <1>7, <1>8, AwaitsKept
      <2> QED  BY <2>1, <2>2, <2>3
    <1>14. (NotTwice(a) => NotTwice(a)') /\ (NotLost(a) => NotLost(a)')
      BY <1>5, <1>8, EndsKept
    <1>15. Own(a)'
      BY <1>6, <1>12, <1>13, <1>14 DEF Own
    <1>16. /\ Stream(b) \in Seq(Frames) /\ Stream(b) # <<>> /\ Head(Stream(b)) = f /\ f \in ToSet(Stream(b))
           /\ Stream(b)' = Tail(Stream(b)) /\ ToSet(Stream(b)') \subseteq ToSet(Stream(b))
           /\ Stream(a)' = Stream(a)
      BY <1>1, <1>2, <1>4, <1>5, FirstOfStream
    <1>17. IsReq(f) /\ ~IsReply(f)
      BY <1>2, <1>4 DEF IsReq, IsReply
    <1>18. Flags(a)' /\ Kinds(a)' /\ RequestsInOrder(a)' /\ RequestsContinue(a)'
      BY <1>1, <1>5, <1>7, <1>8, <1>16, Handler
    <1>19. AnswersExpected(a)'
      BY <1>1, <1>5, <1>7, <1>16, <1>17, HandlerExpects
    <1>20. /\ Own(b)' /\ Kinds(b)' /\ Live(b)' = Live(b) /\ pendingResponses'[b] = pendingResponses[b]
           /\ toRespond'[a] \subseteq toRespond[a] => AnswersExpected(b)'
      BY <1>1, <1>5, <1>8, <1>16, Sender
    <1>21. Flags(b)
      BY DEF Link
    <1>22. Flags(b)'
      BY <1>1, <1>2, <1>4, <1>5, <1>16, <1>21, RequestFlagsKept
    <1>23. Follows(f, numReceived[a], pendingRequests[a], numReceived'[a], pendingRequests'[a])
      BY <1>5, <1>10 DEF Follows
    <1>24. numReceived'[a] \in Nat
      BY <1>5, <1>9
    <1>25. InOrder(Stream(b), numReceived[a], pendingRequests[a]) /\ DOMAIN pendingRequests[a] \subseteq 1..numReceived[a]
      BY <1>1, <1>6 DEF Link, RequestsInOrder, Answers, Answered
    <1>26. RequestsInOrder(b)'
      <2>1. InOrder(Tail(Stream(b)), numReceived'[a], pendingRequests'[a])
        BY <1>9, <1>16, <1>17, <1>23, <1>24, <1>25, InOrderHandled
      <2> QED  BY <1>1, <1>16, <2>1 DEF RequestsInOrder
    <1>27. RequestsContinue(b)'
      <2>1. closeSent'[b] = closeSent[b] /\ Held(b)' = Held(b) /\ lastMessageNo'[b] = lastMessageNo[b]
        BY <1>5, Kept, LiveKept DEF Untouched, KeepsQueues
      <2> SUFFICES ASSUME Live(b), ~closeSent[b]
                   PROVE  Continues(Held(b), lastMessageNo[b], Tail(Stream(b)), numReceived'[a], pendingRequests'[a])
        BY <1>1, <1>16, <1>20, <2>1 DEF RequestsContinue
      <2>2. Continues(Held(b), lastMessageNo[b], Stream(b), numReceived[a], pendingRequests[a])
        BY <1>1 DEF RequestsContinue, Link
      <2>3. Held(b) \in SUBSET Messages /\ lastMessageNo[b] \in Nat
        BY Typed DEF Held, HeldIn, ToSet
      <2> QED  BY <1>9, <1>16, <1>17, <1>23, <1>24, <1>25, <2>2, <2>3, ContinuesHandled
    <1>28. AnswersExpected(b)'
      <2>1. CASE f.more \/ in.noReply
        BY <1>5, <1>20, <2>1
      <2>2. CASE ~(f.more \/ in.noReply)
        <3> SUFFICES ASSUME Live(b)
                     PROVE  Expected(Mine(a)', toRespond[a] \union {f.number}, Stream(b)', Stream(a), pendingResponses[b])
          BY <1>1, <1>5, <1>16, <1>20, <2>2 DEF AnswersExpected
        <3>1. Expected(Mine(a), toRespond[a], Stream(b), Stream(a), pendingResponses[b])
          BY <1>1 DEF AnswersExpected, Link
        <3>2. ~f.noReply
          BY <1>1, <1>2, <1>4, <1>16, <1>21, <2>2, RequestFlags
        <3>3. Expected(Mine(a), toRespond[a] \union {f.number}, Stream(b), Stream(a), pendingResponses[b])
          BY <1>16, <1>17, <2>2, <3>1, <3>2, ExpectedDue
        <3> QED  BY <1>8, <1>16, <3>3, ExpectedLess
      <2> QED  BY <2>1, <2>2
    <1> QED  BY <1>1, <1>15, <1>18, <1>19, <1>20, <1>22, <1>26, <1>27, <1>28 DEF Link

\* receivedFrame throws
LEMMA RequestThrowsKeeps ==
    ASSUME TypeOK, NEW a \in Peers, RequestFrameThrows(a), \A p \in Peers : Own(p) /\ Link(p)
    PROVE  \A p \in Peers : Own(p)' /\ Link(p)'
    <1>1. PICK b \in Peers : b = Other(a) /\ Other(b) = a /\ \A q \in Peers : q = a \/ q = b
      BY TwoPeers
    <1>2. batch[a] # <<>> /\ IsReq(Frame(a)) /\ IsExpected(a, Frame(a).number)
      BY RequestFrameThrowsDoes DEF IsReq
    <1>3. PICK f \in Frames, in \in Incomings : f = Frame(a) /\ in = IncomingRequest(a, Frame(a))
      BY <1>2, FrameIs, IncomingIs
    <1>4. /\ Untouched(b) /\ KeepsApp(a) /\ KeepsQueues(a) /\ KeepsLinks(a)
          /\ pendingResponses'[a] = pendingResponses[a]
          /\ mailbox'[a] = mailbox[a] \o Acknowledgement(in, f, "ACKREQ")
          /\ numReceived'[a] = IF f.number \in DOMAIN pendingRequests[a] THEN numReceived[a] ELSE f.number
          /\ pendingRequests'[a] = With(pendingRequests[a], f.number, Counted(in, f))
          /\ batch'[a] = <<>> /\ closingWithError'[a] = "exception" /\ closeSent'[a] = TRUE
      BY <1>1, <1>3, RequestFrameThrowsDoes
    <1>5. /\ Queues(a) /\ Answers(a) /\ Awaits(a) /\ NotTwice(a)
          /\ ErrorsMayThrow \/ NotLost(a)
      BY DEF Own
    <1>6. /\ MailKept(a) /\ KeepsRequests(a) /\ Held(a)' = Held(a) /\ ~Live(a)'
          /\ lastMessageNo'[a] = lastMessageNo[a]
      BY <1>4, MailAcked, Kept DEF KeepsQueues, KeepsApp, Live
    <1>7. /\ AllAlike(Held(a)', Held(a)) /\ AllAlike(Held(a), Held(a)')
          /\ Within(Mine(a)', Mine(a)) /\ Within(Mine(a), Mine(a)') /\ RepliesIn(Mine(a)', Mine(a))
      BY <1>6, WithinItself, MineKept, WithinReplies
    <1>8. /\ f.number \in Nat \ {0} /\ numReceived[a] \in Nat
          /\ f.number \in DOMAIN pendingRequests[a] \/ f.number = numReceived[a] + 1
      BY <1>2, <1>3, Typed DEF IsExpected, Frames
    <1>9. DOMAIN pendingRequests'[a] = DOMAIN pendingRequests[a] \union {f.number}
      BY <1>4 DEF With
    <1>10. Answers(a)'
      <2>1. Answered(Mine(a), toRespond[a], numReceived[a], pendingRequests[a])
        BY <1>5 DEF Answers
      <2>2. f.number \notin toRespond[a]
        BY <1>8, <2>1 DEF Answered
      <2>3. PICK M, N, due, num, num2, pend, pend2, n :
               /\ M = Mine(a) /\ N = Mine(a)' /\ due = toRespond[a] /\ num = numReceived[a]
               /\ num2 = numReceived'[a] /\ pend = pendingRequests[a] /\ pend2 = pendingRequests'[a]
               /\ n = f.number
        OBVIOUS
      <2>4. /\ num2 = IF n \in DOMAIN pend THEN num ELSE n
            /\ n \in Nat \ {0} /\ num \in Nat /\ (n \in DOMAIN pend \/ n = num + 1)
        BY <1>4, <1>8, <2>3
      <2>5. /\ RepliesIn(N, M) /\ DOMAIN pend2 \subseteq DOMAIN pend \union {n}
            /\ due \subseteq due \union {n} /\ (n \in due => n \notin DOMAIN pend2)
            /\ Answered(M, due, num, pend)
        BY <1>7, <1>9, <2>1, <2>2, <2>3
      <2>6. Answered(N, due, num2, pend2)
        BY <2>4, <2>5, AnsweredHandled
      <2> QED  BY <1>4, <2>3, <2>6 DEF Answers, KeepsApp
    <1>11. Queues(a)' /\ Awaits(a)'
      <2>1. Queues(a)'
        BY <1>4, <1>5, <1>6, QueuesKept
      <2>2. Awaits(a)'
        BY <1>4, <1>5, <1>6, <1>7, AwaitsKept
      <2> QED  BY <2>1, <2>2
    <1>12. (NotTwice(a) => NotTwice(a)') /\ (NotLost(a) => NotLost(a)')
      BY <1>4, <1>7, EndsKept DEF KeepsApp
    <1>13. RequestsInOrder(b)' /\ RequestsContinue(b)' /\ AnswersExpected(a)' /\ Mail(a)'
      BY <1>1, <1>6, GaveUp
    <1>14. Own(a)'
      BY <1>5, <1>10, <1>11, <1>12, <1>13 DEF Own
    <1>15. /\ f \in ToSet(Stream(b)) /\ ToSet(Stream(b)') \subseteq ToSet(Stream(b)) /\ Stream(a)' = Stream(a)
      BY <1>1, <1>2, <1>3, <1>4, FirstOfStream
    <1>16. Flags(a)' /\ Kinds(a)' /\ RequestsInOrder(a)' /\ RequestsContinue(a)'
      BY <1>1, <1>4, <1>6, <1>7, <1>15, Handler
    <1>17. Own(b)' /\ Kinds(b)' /\ AnswersExpected(b)'
      BY <1>1, <1>4, <1>7, <1>15, Sender DEF KeepsApp
    <1>18. Flags(b)'
      <2>1. Flags(b)
        BY DEF Link
      <2> QED  BY <1>1, <1>2, <1>3, <1>4, <1>15, <2>1, RequestFlagsKept
    <1> QED  BY <1>1, <1>13, <1>14, <1>16, <1>17, <1>18 DEF Link

\* The first frame, if it is one of a reply, finds its request waiting.
LEMMA ReplyAwaited ==
    ASSUME TypeOK, NEW a \in Peers, \A p \in Peers : Own(p) /\ Link(p), Live(a), batch[a] # <<>>, IsReply(Frame(a))
    PROVE  IsAwaited(a, Frame(a).number)
    <1>1. PICK b \in Peers : b = Other(a) /\ Other(b) = a
      BY TwoPeers
    <1>2. Frame(a) \in ToSet(batch[a])
      <2>1. batch[a] \in Seq(Frames)
        BY Typed
      <2> QED  BY <2>1, Shorter DEF Frame
    <1>3. Frame(a) \in ToSet(Stream(b))
      BY <1>1, <1>2, StreamIs
    <1>4. Expected(Mine(b), toRespond[b], Stream(a), Stream(b), pendingResponses[a])
      BY <1>1 DEF Link, AnswersExpected
    <1> QED  BY <1>3, <1>4 DEF Expected, IsAwaited

\* receivedFrame, for a reply
LEMMA ResponseFrameKeeps ==
    ASSUME TypeOK, NEW a \in Peers, ResponseFrame(a), Live(a), \A p \in Peers : Own(p) /\ Link(p)
    PROVE  \A p \in Peers : Own(p)' /\ Link(p)'
    <1>1. PICK b \in Peers : b = Other(a) /\ Other(b) = a /\ \A q \in Peers : q = a \/ q = b
      BY TwoPeers
    <1>2. batch[a] # <<>> /\ IsReply(Frame(a))
      BY DEF ResponseFrame, Handles, IsReply, Frame
    <1>3. IsAwaited(a, Frame(a).number)
      BY <1>2, ReplyAwaited
    <1>4. PICK f \in Frames, in \in Incomings : f = Frame(a) /\ in = pendingResponses[a][Frame(a).number]
      BY <1>2, <1>3, FrameIs, IncomingIs DEF IsAwaited
    <1>5. /\ Untouched(b) /\ KeepsQueues(a) /\ KeepsLinks(a) /\ KeepsOpen(a)
          /\ toRespond'[a] = toRespond[a] /\ pendingRequests'[a] = pendingRequests[a]
          /\ numReceived'[a] = numReceived[a]
          /\ mailbox'[a] = mailbox[a] \o Acknowledgement(in, f, "ACKRES")
          /\ pendingResponses'[a] = IF f.more THEN With(pendingResponses[a], f.number, Counted(in, f))
                                              ELSE Without(pendingResponses[a], f.number)
          /\ progress'[a] = Ended(a, IF f.more THEN {} ELSE {in.id}, "complete")
          /\ batch'[a] = Tail(batch[a])
      BY <1>1, <1>3, <1>4, ResponseFrameDoes
    <1>6. /\ Queues(a) /\ Mail(a) /\ Answers(a) /\ Awaits(a) /\ NotTwice(a)
          /\ ErrorsMayThrow \/ NotLost(a)
      BY DEF Own
    <1>7. KeepsRequests(a)
      <2>1. PICK ids : progress'[a] = Ended(a, ids, "complete")
        BY <1>5
      <2> QED  BY <2>1, EndedKeeps
    <1>8. /\ MailKept(a) /\ Held(a)' = Held(a) /\ Live(a)' = Live(a)
          /\ closeSent'[a] = closeSent[a] /\ lastMessageNo'[a] = lastMessageNo[a]
      BY <1>5, MailAcked, Kept, LiveKept DEF KeepsQueues
    <1>9. /\ AllAlike(Held(a)', Held(a)) /\ AllAlike(Held(a), Held(a)')
          /\ Within(Mine(a)', Mine(a)) /\ Within(Mine(a), Mine(a)') /\ RepliesIn(Mine(a)', Mine(a))
      BY <1>8, WithinItself, MineKept, WithinReplies
    <1>10. /\ f.number \in DOMAIN pendingResponses[a] /\ in = pendingResponses[a][f.number]
           /\ in.id = f.number /\ Counted(in, f).id = in.id /\ f.more \in BOOLEAN
      <2>1. f.number \in DOMAIN pendingResponses[a] /\ in = pendingResponses[a][f.number]
        BY <1>3, <1>4 DEF IsAwaited
      <2>2. in.id = f.number
        BY <1>6, <2>1 DEF Awaits, Awaited
      <2> QED  BY <2>1, <2>2, CountedIs DEF Frames
    <1>11. /\ DOMAIN pendingResponses'[a] = IF f.more THEN DOMAIN pendingResponses[a] ELSE DOMAIN pendingResponses[a] \ {f.number}
           /\ \A n \in DOMAIN pendingResponses'[a] : pendingResponses'[a][n].id = pendingResponses[a][n].id
      <2>1. CASE f.more
        BY <1>5, <1>10, <2>1 DEF With
      <2>2. CASE ~f.more
        BY <1>5, <2>2 DEF Without
      <2> QED  BY <2>1, <2>2
    <1>12. Queues(a)' /\ Mail(a)' /\ Answers(a)' /\ Awaits(a)'
      <2>1. Queues(a)'
        BY <1>5, <1>6, <1>7, <1>8, QueuesKept
      <2>2. Mail(a)'
        BY <1>6, <1>7, <1>8, InMailKept
      <2>3. Answers(a)'
        BY <1>5, <1>6, <1>9, AnswersKept
      <2>4. Awaits(a)'
        BY <1>6, <1>7, <1>8, <1>9, <1>11, AwaitsKept
      <2> QED  BY <2>1, <2>2, <2>3, <2>4
    <1>13. /\ \A m \in Mine(a)' : IsReq(m) => \E x \in Mine(a) : IsReq(x) /\ x.id = m.id
           /\ \A m \in Mine(a) : IsReq(m) => \E x \in Mine(a)' : IsReq(x) /\ x.id = m.id
      BY <1>9 DEF Within, Counts, Like, IsReq
    <1>14. /\ \A id : Waits(a, id)' => Waits(a, id)
           /\ \A id : Waits(a, id) /\ (f.more \/ id # f.number) => Waits(a, id)'
      <2>1. \A id : id \in DOMAIN pendingResponses'[a] => id \in DOMAIN pendingResponses[a]
        BY <1>11
      <2>2. \A id : id \in DOMAIN pendingResponses[a] /\ (f.more \/ id # f.number) => id \in DOMAIN pendingResponses'[a]
        BY <1>11
      <2> QED  BY <1>13, <2>1, <2>2 DEF Waits
    <1>15. ~f.more => Waits(a, f.number) /\ ~Waits(a, f.number)'
      <2>1. \A x \in Mine(a) : IsReq(x) => x.id # f.number
        BY <1>6, <1>10 DEF Awaits, Awaited
      <2> QED  BY <1>10, <1>11, <1>13, <2>1 DEF Waits
    <1>16. \A id \in DOMAIN progress[a] :
              /\ f.more \/ id # f.number => progress'[a][id].ends = progress[a][id].ends
              /\ ~f.more /\ id = f.number => progress'[a][id].ends = Append(progress[a][id].ends, "complete")
      <2>1. PICK ids : ids = (IF f.more THEN {} ELSE {in.id}) /\ progress'[a] = Ended(a, ids, "complete")
        BY <1>5
      <2>2. \A i \in DOMAIN progress[a] :
               /\ i \notin ids => Ended(a, ids, "complete")[i].ends = progress[a][i].ends
               /\ i \in ids => Ended(a, ids, "complete")[i].ends = Append(progress[a][i].ends, "complete")
        BY EndedIs
      <2> QED  BY <1>10, <2>1, <2>2
    <1>17. NotTwice(a)' /\ (NotLost(a) => NotLost(a)')
      <2>1. \A id \in DOMAIN progress[a] : ~progress[a][id].noReply =>
               \/ progress'[a][id].ends = progress[a][id].ends /\ (Waits(a, id)' => Waits(a, id))
               \/ /\ \E how : progress'[a][id].ends = Append(progress[a][id].ends, how)
                  /\ Waits(a, id) /\ ~Waits(a, id)'
        BY <1>14, <1>15, <1>16
      <2>2. \A id \in DOMAIN progress[a] : ~progress[a][id].noReply =>
               \/ Waits(a, id) => Waits(a, id)'
               \/ \E how : progress'[a][id].ends = Append(progress[a][id].ends, how)
        BY <1>14, <1>16
      <2> QED  BY <1>6, <1>7, <2>1, <2>2, EndsStep
    <1>18. Own(a)'
      BY <1>6, <1>12, <1>17 DEF Own
    <1>19. /\ Stream(b) \in Seq(Frames) /\ Stream(b) # <<>> /\ Head(Stream(b)) = f
           /\ Stream(b)' = Tail(Stream(b)) /\ ToSet(Stream(b)') \subseteq ToSet(Stream(b))
           /\ Stream(a)' = Stream(a)
      BY <1>1, <1>2, <1>4, <1>5, FirstOfStream
    <1>20. IsReply(f) /\ ~IsReq(f)
      BY <1>2, <1>4 DEF IsReq, IsReply
    <1>21. Flags(a)' /\ Kinds(a)' /\ RequestsInOrder(a)' /\ RequestsContinue(a)'
      BY <1>1, <1>5, <1>7, <1>8, <1>9, <1>19, Handler
    <1>22. AnswersExpected(a)'
      <2>1. Mine(b)' = Mine(b) /\ toRespond'[b] = toRespond[b]
        BY <1>5, Kept DEF Untouched, KeepsApp
      <2>2. Expected(Mine(b), toRespond[b], Stream(a), Stream(b), pendingResponses[a])
        BY <1>1 DEF AnswersExpected, Link
      <2>3. Expected(Mine(b), toRespond[b], Stream(a), Tail(Stream(b)), pendingResponses'[a])
        BY <1>11, <1>19, <1>20, <2>2, ExpectedHandled
      <2> QED  BY <1>1, <1>19, <2>1, <2>3 DEF AnswersExpected
    <1>23. Own(b)' /\ Kinds(b)' /\ AnswersExpected(b)' /\ Flags(b)'
      BY <1>1, <1>5, <1>9, <1>19, Sender
    <1>24. RequestsInOrder(b)' /\ RequestsContinue(b)'
      BY <1>1, <1>5, <1>6, <1>8, <1>19, <1>20, SenderGoesOn
    <1> QED  BY <1>1, <1>18, <1>21, <1>22, <1>23, <1>24 DEF Link

\* receivedFrame throws
LEMMA ResponseThrowsKeeps ==
    ASSUME TypeOK, NEW a \in Peers, ResponseFrameThrows(a), \A p \in Peers : Own(p) /\ Link(p)
    PROVE  \A p \in Peers : Own(p)' /\ Link(p)'
    <1>1. PICK b \in Peers : b = Other(a) /\ Other(b) = a /\ \A q \in Peers : q = a \/ q = b
      BY TwoPeers
    <1>2. batch[a] # <<>> /\ IsReply(Frame(a)) /\ IsAwaited(a, Frame(a).number) /\ Throwing
      BY ResponseFrameThrowsDoes DEF IsReply
    <1>3. PICK f \in Frames, in \in Incomings : f = Frame(a) /\ in = pendingResponses[a][Frame(a).number]
      BY <1>2, FrameIs, IncomingIs DEF IsAwaited
    <1>4. /\ Untouched(b) /\ KeepsApp(a) /\ KeepsQueues(a) /\ KeepsLinks(a)
          /\ pendingRequests'[a] = pendingRequests[a] /\ numReceived'[a] = numReceived[a]
          /\ mailbox'[a] = mailbox[a] \o Acknowledgement(in, f, "ACKRES")
          /\ pendingResponses'[a] = IF f.more \/ f.type = "RES"
                                    THEN With(pendingResponses[a], f.number, Counted(in, f))
                                    ELSE Without(pendingResponses[a], f.number)
          /\ batch'[a] = <<>> /\ closingWithError'[a] = "exception" /\ closeSent'[a] = TRUE
      BY <1>1, <1>3, ResponseFrameThrowsDoes
    <1>5. /\ Queues(a) /\ Answers(a) /\ Awaits(a) /\ NotTwice(a)
          /\ ErrorsMayThrow \/ NotLost(a)
      BY DEF Own
    <1>6. /\ MailKept(a) /\ KeepsRequests(a) /\ Held(a)' = Held(a) /\ ~Live(a)'
          /\ lastMessageNo'[a] = lastMessageNo[a]
      BY <1>4, MailAcked, Kept DEF KeepsQueues, KeepsApp, Live
    <1>7. /\ AllAlike(Held(a)', Held(a)) /\ AllAlike(Held(a), Held(a)')
          /\ Within(Mine(a)', Mine(a)) /\ Within(Mine(a), Mine(a)') /\ RepliesIn(Mine(a)', Mine(a))
      BY <1>6, WithinItself, MineKept, WithinReplies
    <1>8. /\ f.number \in DOMAIN pendingResponses[a] /\ in = pendingResponses[a][f.number]
          /\ Counted(in, f).id = in.id
      BY <1>2, <1>3, CountedIs DEF IsAwaited
    <1>9. /\ DOMAIN pendingResponses'[a] \subseteq DOMAIN pendingResponses[a]
          /\ f.type = "RES" => DOMAIN pendingResponses'[a] = DOMAIN pendingResponses[a]
          /\ \A n \in DOMAIN pendingResponses'[a] : pendingResponses'[a][n].id = pendingResponses[a][n].id
      <2>1. CASE f.more \/ f.type = "RES"
        BY <1>4, <1>8, <2>1 DEF With
      <2>2. CASE ~(f.more \/ f.type = "RES")
        BY <1>4, <2>2 DEF Without
      <2> QED  BY <2>1, <2>2
    <1>10. Queues(a)' /\ Answers(a)' /\ Awaits(a)'
      <2>1. Queues(a)'
        BY <1>4, <1>5, <1>6, QueuesKept
      <2>2. Answers(a)'
        BY <1>4, <1>5, <1>7, AnswersKept DEF KeepsApp
      <2>3. Awaits(a)'
        BY <1>5, <1>6, <1>7, <1>9, AwaitsKept
      <2> QED  BY <2>1, <2>2, <2>3
    <1>11. /\ f \in ToSet(Stream(b)) /\ ToSet(Stream(b)') \subseteq ToSet(Stream(b)) /\ Stream(a)' = Stream(a)
      BY <1>1, <1>2, <1>3, <1>4, FirstOfStream
    <1>12. ErrorsMayThrow \/ f.type = "RES"
      <2>1. f.type = "ERR" => ErrorsMade
        BY <1>11 DEF Link, Kinds
      <2> QED  BY <1>2, <1>3, <2>1 DEF ErrorsMayThrow, IsReply
    <1>13. NotTwice(a)'
      <2>1. \A m \in Mine(a)' : IsReq(m) => \E x \in Mine(a) : IsReq(x) /\ x.id = m.id
        BY <1>7 DEF Within, Counts, Like, IsReq
      <2> QED  BY <1>4, <1>5, <1>9, <2>1 DEF NotTwice, KeepsApp
    <1>14. ErrorsMayThrow \/ NotLost(a)'
      BY <1>4, <1>5, <1>7, <1>9, <1>12, EndsKept DEF KeepsApp
    <1>15. RequestsInOrder(b)' /\ RequestsContinue(b)' /\ AnswersExpected(a)' /\ Mail(a)'
      BY <1>1, <1>6, GaveUp
    <1>16. Own(a)'
      BY <1>10, <1>13, <1>14, <1>15 DEF Own, ErrorsMayThrow, ErrorsMade
    <1>17. Flags(a)' /\ Kinds(a)' /\ RequestsInOrder(a)' /\ RequestsContinue(a)'
      BY <1>1, <1>4, <1>6, <1>7, <1>11, Handler
    <1>18. Own(b)' /\ Kinds(b)' /\ AnswersExpected(b)' /\ Flags(b)'
      BY <1>1, <1>4, <1>7, <1>11, Sender DEF KeepsApp
    <1> QED  BY <1>1, <1>15, <1>16, <1>17, <1>18 DEF Link
------------------------------------------------------------------------------
(***************************************************************************)
(* The step that writes a frame.                                           *)
(***************************************************************************)

\* The frame, and what remains of its message.
LEMMA WrittenIs ==
    ASSUME TypeOK, NEW a \in Peers, Queues(a), outbox[a] # <<>>,
           NEW m, m = Written(a), NEW c, c = Left(a), NEW f, f = NextFrame(a)
    PROVE  /\ m \in Messages /\ m.number > 0 /\ m \in Held(a) /\ m \in Mine(a)
           /\ c.type = m.type /\ c.number = m.number /\ c.id = m.id /\ c.noReply = m.noReply
           /\ c.left > 0 => c \in Messages /\ c.bytesSent > 0 /\ ~isAck(m) /\ f.more
           /\ c.left > 0 \/ isAck(m) \/ ~f.more
           /\ f \in Frames /\ f.type = m.type /\ f.number = m.number /\ f.noReply = m.noReply
    <1>1. outbox[a] \in Seq(Messages)
      BY Typed
    <1>2. m \in Messages /\ m \in ToSet(outbox[a])
      BY <1>1, Shorter DEF Written
    <1>3. m \in Held(a) /\ m \in Mine(a)
      BY <1>2 DEF Held, HeldIn, Mine
    <1>4. m.number > 0
      BY <1>3 DEF Queues, HeldOK
    <1>5. PICK rest, size : rest = Rest(a) /\ size = Size(a)
      OBVIOUS
    <1>6. size = SmallerOf(m.left, FrameRoom(m, rest)) /\ c = Sent(m, size) /\ f = FrameOf(m, size)
      BY <1>5 DEF Size, Left, NextFrame
    <1>7. /\ FrameOf(m, size) \in Frames
          /\ FrameOf(m, size).type = m.type /\ FrameOf(m, size).number = m.number
          /\ FrameOf(m, size).noReply = m.noReply
          /\ Sent(m, size).left > 0 =>
                /\ Sent(m, size) \in Messages /\ Sent(m, size).bytesSent > 0
                /\ ~isAck(m) /\ FrameOf(m, size).more
          /\ Sent(m, size).left <= 0 /\ ~isAck(m) => ~FrameOf(m, size).more
          /\ Sent(m, size).type = m.type /\ Sent(m, size).number = m.number
          /\ Sent(m, size).id = m.id /\ Sent(m, size).noReply = m.noReply
      BY <1>2, <1>4, <1>6, SentIs
    <1>8. Sent(m, size).left > 0 \/ Sent(m, size).left <= 0
      <2>1. size \in Nat \ {0}
        BY <1>2, <1>4, <1>6, SentIs
      <2>2. Sent(m, size).left \in Int
        BY <1>2, <2>1 DEF Sent, Messages
      <2> QED  BY <2>2
    <1> QED  BY <1>2, <1>3, <1>4, <1>6, <1>7, <1>8

\* The message is taken out of the queues, and what remains of it is put back.
LEMMA WrittenQueues ==
    ASSUME TypeOK, NEW a \in Peers, Queues(a), outbox[a] # <<>>, WriteFrame(a),
           NEW m, m = Written(a), NEW c, c = Left(a)
    PROVE  \E R \in SUBSET Messages :
              /\ Held(a) = {m} \union R /\ NoTwin(m, Posted(a) \union R)
              /\ Held(a)' = (IF c.left > 0 THEN {c} ELSE {}) \union R
              /\ New(m) => \A x \in R : New(x) => m.number < x.number
              /\ Alone(mailbox[a], outbox'[a], icebox'[a]) /\ NewInOrder(outbox'[a])
              /\ \A x \in ToSet(icebox'[a]) : x.bytesSent > 0
    <1> DEFINE R == ToSet(Rest(a)) \union ToSet(icebox[a])
    <1>1. /\ outbox[a] \in Seq(Messages) /\ icebox[a] \in Seq(Messages) /\ mailbox[a] \in Seq(Events)
          /\ Alone(mailbox[a], outbox[a], icebox[a]) /\ NewInOrder(outbox[a])
          /\ \A x \in ToSet(icebox[a]) : x.bytesSent > 0
      BY Typed DEF Queues
    <1>2. /\ m \in Messages /\ m.number > 0
          /\ c.type = m.type /\ c.number = m.number /\ c.id = m.id
          /\ c.left > 0 => c \in Messages /\ c.bytesSent > 0
      <2> HIDE DEF NextFrame
      <2> QED  BY WrittenIs
    <1>3. /\ outbox'[a] = IF Requeues(a) THEN requeue(Rest(a), c) ELSE Rest(a)
          /\ icebox'[a] = IF Freezes(a) THEN Append(icebox[a], c) ELSE icebox[a]
      BY <1>2, WriteFrameDoes
    <1>4. PICK out, rest, ice : out = outbox[a] /\ rest = Rest(a) /\ ice = icebox[a]
      OBVIOUS
    <1>5. /\ rest \in Seq(Messages) /\ ToSet(out) = {m} \union ToSet(rest)
          /\ ice \in Seq(Messages) /\ R = ToSet(rest) \union ToSet(ice)
      BY <1>1, <1>4, Shorter DEF Rest, Written
    <1>6. Alone(mailbox[a], rest, ice) /\ NoTwin(m, PostedIn(mailbox[a]) \union HeldIn(rest, ice))
      BY <1>1, <1>4, AlonePopped DEF Rest, Written
    <1>7. NewInOrder(rest) /\ (New(m) => \A x \in ToSet(rest) : New(x) => m.number < x.number)
      BY <1>1, <1>4, NewPopped DEF Rest, Written
    <1>8. New(m) => \A x \in R : New(x) => m.number < x.number
      <2>1. \A x \in ToSet(ice) : ~New(x)
        <3> SUFFICES ASSUME NEW x \in ToSet(ice), x.bytesSent = 0  PROVE FALSE
          BY DEF New
        <3>1. x.bytesSent > 0
          BY <1>1, <1>4
        <3> QED  BY <3>1
      <2> QED  BY <1>5, <1>7, <2>1
    <1>9. Held(a) = {m} \union R /\ NoTwin(m, Posted(a) \union R)
      BY <1>4, <1>5, <1>6 DEF Held, HeldIn, Posted
    <1>10. NoTwin(c, PostedIn(mailbox[a]) \union HeldIn(rest, ice))
      BY <1>2, <1>6, TwinsKept DEF NoTwin
    <1>11. ~(c.left > 0) => ~Requeues(a) /\ ~Freezes(a)
      BY DEF Requeues, Freezes
    <1>12. ASSUME Requeues(a)
           PROVE  /\ Held(a)' = (IF c.left > 0 THEN {c} ELSE {}) \union R
                  /\ Alone(mailbox[a], outbox'[a], icebox'[a]) /\ NewInOrder(outbox'[a])
                  /\ \A x \in ToSet(icebox'[a]) : x.bytesSent > 0
      <2>1. c.left > 0 /\ ~Freezes(a) /\ c \in Messages
        BY <1>2, <1>12 DEF Requeues, Freezes
      <2>2. ~New(c)
        <3>1. c.bytesSent > 0
          BY <1>2, <2>1
        <3> QED  BY <3>1 DEF New
      <2>3. /\ Alone(mailbox[a], requeue(rest, c), ice) /\ NewInOrder(requeue(rest, c))
            /\ ToSet(requeue(rest, c)) = ToSet(rest) \union {c}
        BY <1>1, <1>5, <1>6, <1>7, <1>10, <2>1, <2>2, AloneQueued, NewQueued, Requeued
      <2>4. outbox'[a] = requeue(rest, c) /\ icebox'[a] = ice
        BY <1>3, <1>4, <1>12, <2>1
      <2>5. Held(a)' = {c} \union R
        BY <1>5, <2>3, <2>4 DEF Held, HeldIn
      <2> QED  BY <1>1, <1>4, <2>1, <2>3, <2>4, <2>5
    <1>13. ASSUME Freezes(a)
           PROVE  /\ Held(a)' = (IF c.left > 0 THEN {c} ELSE {}) \union R
                  /\ Alone(mailbox[a], outbox'[a], icebox'[a]) /\ NewInOrder(outbox'[a])
                  /\ \A x \in ToSet(icebox'[a]) : x.bytesSent > 0
      <2>1. c.left > 0 /\ ~Requeues(a) /\ c \in Messages /\ c.bytesSent > 0
        BY <1>2, <1>13 DEF Requeues, Freezes
      <2>2. Alone(mailbox[a], rest, Append(ice, c)) /\ ToSet(Append(ice, c)) = ToSet(ice) \union {c}
        <3>1. Alone(mailbox[a], rest, Append(ice, c))
          BY <1>1, <1>5, <1>6, <1>10, <2>1, AloneFrozen
        <3>2. ToSet(Append(ice, c)) = ToSet(ice) \union {c}
          BY <1>5, <2>1, Longer
        <3> QED  BY <3>1, <3>2
      <2>3. outbox'[a] = rest /\ icebox'[a] = Append(ice, c)
        BY <1>3, <1>4, <1>13, <2>1
      <2>4. Held(a)' = {c} \union R
        BY <1>5, <2>2, <2>3 DEF Held, HeldIn
      <2> QED  BY <1>1, <1>4, <1>7, <2>1, <2>2, <2>3, <2>4
    <1>14. ASSUME ~Requeues(a) /\ ~Freezes(a)
           PROVE  /\ Held(a)' = (IF c.left > 0 THEN {c} ELSE {}) \union R
                  /\ Alone(mailbox[a], outbox'[a], icebox'[a]) /\ NewInOrder(outbox'[a])
                  /\ \A x \in ToSet(icebox'[a]) : x.bytesSent > 0
      <2>1. ~(c.left > 0)
        BY <1>14 DEF Requeues, Freezes
      <2>2. outbox'[a] = rest /\ icebox'[a] = ice
        BY <1>3, <1>4, <1>14
      <2>3. Held(a)' = R
        BY <1>5, <2>2 DEF Held, HeldIn
      <2> QED  BY <1>1, <1>4, <1>6, <1>7, <2>1, <2>2, <2>3
    <1>15. R \in SUBSET Messages
      <2>1. \A s \in Seq(Messages) : ToSet(s) \subseteq Messages
        BY DEF ToSet
      <2>2. ToSet(rest) \subseteq Messages /\ ToSet(ice) \subseteq Messages
        BY <1>5, <2>1
      <2> QED  BY <1>5, <2>2
    <1> HIDE DEF R
    <1>16. /\ Held(a)' = (IF c.left > 0 THEN {c} ELSE {}) \union R
           /\ Alone(mailbox[a], outbox'[a], icebox'[a]) /\ NewInOrder(outbox'[a])
           /\ \A x \in ToSet(icebox'[a]) : x.bytesSent > 0
      BY <1>12, <1>13, <1>14
    <1> QED  BY <1>8, <1>9, <1>15, <1>16

\* Its requests, its answers, and what it waits for.
LEMMA WriteFrameOwn ==
    ASSUME TypeOK, NEW a \in Peers, WriteFrame(a), outbox[a] # <<>>, Own(a), Flags(a)
    PROVE  Own(a)' /\ Within(Mine(a)', Mine(a)) /\ KeepsRequests(a)
    <1>1. PICK m, c, f : m = Written(a) /\ c = Left(a) /\ f = NextFrame(a)
      OBVIOUS
    <1>2. /\ Queues(a) /\ Mail(a) /\ Answers(a) /\ Awaits(a) /\ NotTwice(a)
          /\ ErrorsMayThrow \/ NotLost(a)
      BY DEF Own
    <1>3. /\ m \in Messages /\ m.number > 0 /\ m \in Held(a) /\ m \in Mine(a)
          /\ c.type = m.type /\ c.number = m.number /\ c.id = m.id /\ c.noReply = m.noReply
          /\ c.left > 0 => c \in Messages
      BY <1>1, <1>2, WrittenIs
    <1>4. PICK R \in SUBSET Messages :
             /\ Held(a) = {m} \union R /\ NoTwin(m, Posted(a) \union R)
             /\ Held(a)' = (IF c.left > 0 THEN {c} ELSE {}) \union R
             /\ Alone(mailbox[a], outbox'[a], icebox'[a]) /\ NewInOrder(outbox'[a])
             /\ \A x \in ToSet(icebox'[a]) : x.bytesSent > 0
      BY <1>1, <1>2, WrittenQueues
    <1>5. /\ KeepsMail(a) /\ KeepsOpen(a) /\ toRespond'[a] = toRespond[a] /\ lastMessageNo'[a] = lastMessageNo[a]
          /\ pendingRequests'[a] = pendingRequests[a] /\ numReceived'[a] = numReceived[a]
          /\ pendingResponses'[a] =
                IF AwaitsReply(a) THEN With(pendingResponses[a], m.number, NewIncoming(m.id, FALSE))
                ELSE pendingResponses[a]
          /\ progress'[a] =
                Ended(a, IF ~(c.left > 0) /\ m.type = "REQ" /\ m.noReply THEN {m.id} ELSE {}, "complete")
      BY <1>1, <1>3, WriteFrameDoes
    <1>6. Posted(a)' = Posted(a) /\ Mine(a)' = Posted(a) \union Held(a)' /\ Mine(a) = Posted(a) \union Held(a)
      BY <1>5 DEF Posted, Mine, KeepsMail
    <1>7. Like(c, m)
      BY <1>3 DEF Like
    <1>8. Within(Mine(a)', Mine(a))
      <2>1. \A x : Like(x, x)
        BY DEF Like
      <2>2. \A x \in Mine(a)' : x = c \/ x \in Mine(a)
        BY <1>4, <1>6
      <2> QED  BY <1>3, <1>7, <2>1, <2>2 DEF Within
    <1>9. KeepsRequests(a)
      BY <1>5, EndedKeeps
    <1>10. HeldOK(Held(a), lastMessageNo[a]) /\ PostedOK(Posted(a), Len(progress[a])) /\ lastMessageNo[a] <= Len(progress[a])
      BY <1>2 DEF Queues
    <1>11. IsReq(m) => /\ m.number = m.id /\ m.id <= lastMessageNo[a]
                       /\ m.id \in DOMAIN progress[a] /\ m.noReply = progress[a][m.id].noReply
      <2>1. IsReq(m) => m.number = m.id /\ m.id <= lastMessageNo[a]
        BY <1>3, <1>10 DEF HeldOK
      <2>2. IsReq(m) => m.noReply = progress[a][m.id].noReply
        BY <1>3 DEF Flags
      <2> QED  BY <1>2, <1>3, <2>1, <2>2, MineAre
    <1>12. Queues(a)'
      <2>1. HeldOK(Held(a)', lastMessageNo[a])
        <3>1. HeldOK(R, lastMessageNo[a])
          BY <1>4, <1>10 DEF HeldOK
        <3>2. c.number > 0 /\ (IsReq(c) => c.number = c.id /\ c.id <= lastMessageNo[a])
          BY <1>3, <1>11 DEF IsReq
        <3> QED  BY <1>4, <3>1, <3>2 DEF HeldOK
      <2>2. Len(progress'[a]) = Len(progress[a])
        BY <1>9 DEF KeepsRequests
      <2>3. mailbox'[a] = mailbox[a]
        BY <1>5 DEF KeepsMail
      <2> QED  BY <1>4, <1>5, <1>6, <1>10, <2>1, <2>2, <2>3 DEF Queues
    <1>13. Mail(a)'
      <2>1. MailKept(a) /\ (Live(a)' => Live(a))
        BY <1>5, Kept, LiveKept
      <2> QED  BY <1>2, <1>5, <1>9, <2>1, InMailKept
    <1>14. Answers(a)'
      BY <1>2, <1>5, <1>8, AnswersKept
    <1>15. AwaitsReply(a) <=> ~(c.left > 0) /\ IsReq(m) /\ ~m.noReply
      BY <1>1 DEF AwaitsReply, wantsReply, IsReq
    <1>16. DOMAIN pendingResponses'[a] = DOMAIN pendingResponses[a] \union (IF AwaitsReply(a) THEN {m.id} ELSE {})
      <2>1. CASE AwaitsReply(a)
        <3>1. pendingResponses'[a] = With(pendingResponses[a], m.id, NewIncoming(m.id, FALSE))
          BY <1>5, <1>11, <1>15, <2>1
        <3>2. DOMAIN With(pendingResponses[a], m.id, NewIncoming(m.id, FALSE)) = DOMAIN pendingResponses[a] \union {m.id}
          BY DEF With
        <3> QED  BY <2>1, <3>1, <3>2
      <2>2. CASE ~AwaitsReply(a)
        BY <1>5, <2>2
      <2> QED  BY <2>1, <2>2
    <1>17. Awaits(a)'
      <2>1. CASE AwaitsReply(a)
        <3>1. IsReq(m) /\ ~m.noReply /\ Held(a)' = R
          BY <1>4, <1>15, <2>1
        <3>2. /\ Awaited(Mine(a), lastMessageNo[a], pendingResponses[a])
              /\ \A n \in DOMAIN pendingResponses[a] : n \in DOMAIN progress[a] /\ ~progress[a][n].noReply
          BY <1>2, AwaitedAre DEF Awaits
        <3>3. \A n \in DOMAIN pendingResponses'[a] : n \in DOMAIN progress[a] /\ ~progress[a][n].noReply
          BY <1>11, <1>16, <3>1, <3>2
        <3>4. \A n \in DOMAIN pendingResponses'[a] : n <= lastMessageNo[a] /\ pendingResponses'[a][n].id = n
          <4>1. PICK k, pend, in, pend2 :
                   /\ k = m.id /\ pend = pendingResponses[a] /\ in = NewIncoming(m.id, FALSE)
                   /\ pend2 = pendingResponses'[a]
            OBVIOUS
          <4>2. pend2 = With(pend, k, in)
            BY <1>5, <1>11, <2>1, <3>1, <4>1
          <4>3. k \in Nat /\ k <= lastMessageNo[a] /\ in.id = k
            BY <1>3, <1>11, <3>1, <4>1, NewIncomings DEF Messages
          <4>4. \A n \in DOMAIN pend : n <= lastMessageNo[a] /\ pend[n].id = n
            BY <3>2, <4>1 DEF Awaited
          <4>5. \A n \in DOMAIN pend2 : n <= lastMessageNo[a] /\ pend2[n].id = n
            BY <4>2, <4>3, <4>4 DEF With
          <4> QED  BY <4>1, <4>5
        <3>5. \A x \in Mine(a)' : IsReq(x) => x.id \notin DOMAIN pendingResponses'[a]
          <4> SUFFICES ASSUME NEW x \in Mine(a)', IsReq(x), x.id \in DOMAIN pendingResponses'[a]
                       PROVE  FALSE
            OBVIOUS
          <4>1. x \in Posted(a) \union R /\ x \in Mine(a)
            BY <1>4, <1>6, <3>1
          <4>2. x.id = m.id
            BY <1>16, <3>2, <4>1 DEF Awaited
          <4> QED  BY <1>4, <3>1, <4>1, <4>2 DEF NoTwin, Twins
        <3>6. \A n \in DOMAIN pendingResponses'[a] : ~progress'[a][n].noReply
          BY <1>9, <3>3 DEF KeepsRequests
        <3>7. Awaited(Mine(a)', lastMessageNo'[a], pendingResponses'[a])
          BY <1>5, <3>4, <3>5 DEF Awaited
        <3> QED  BY <3>6, <3>7 DEF Awaits
      <2>2. CASE ~AwaitsReply(a)
        <3>1. pendingResponses'[a] = pendingResponses[a]
          BY <1>5, <2>2
        <3> QED  BY <1>2, <1>5, <1>8, <1>9, <3>1, AwaitsKept
      <2> QED  BY <2>1, <2>2
    <1>18. \A id \in DOMAIN progress[a] : ~progress[a][id].noReply =>
              progress'[a][id].ends = progress[a][id].ends /\ (Waits(a, id)' <=> Waits(a, id))
      <2> SUFFICES ASSUME NEW id \in DOMAIN progress[a], ~progress[a][id].noReply
                   PROVE  /\ progress'[a][id].ends = progress[a][id].ends
                          /\ Waits(a, id)' <=> Waits(a, id)
        OBVIOUS
      <2>1. progress'[a][id].ends = progress[a][id].ends
        <3>1. PICK ids : ids = IF ~(c.left > 0) /\ m.type = "REQ" /\ m.noReply THEN {m.id} ELSE {}
          OBVIOUS
        <3>2. id \notin ids
          BY <1>11, <3>1 DEF IsReq
        <3>3. Ended(a, ids, "complete")[id].ends = progress[a][id].ends
          BY <3>2, EndedIs
        <3> QED  BY <1>5, <3>1, <3>3
      <2>2. ASSUME Waits(a, id)  PROVE Waits(a, id)'
        <3>1. CASE id \in DOMAIN pendingResponses[a]
          BY <1>16, <3>1 DEF Waits
        <3>2. ASSUME NEW x \in Mine(a), IsReq(x), x.id = id  PROVE Waits(a, id)'
          <4>1. CASE x # m
            <5>1. x \in Mine(a)'
              BY <1>4, <1>6, <4>1
            <5> QED  BY <3>2, <5>1 DEF Waits
          <4>2. CASE x = m /\ c.left > 0
            <5>1. c \in Mine(a)' /\ IsReq(c) /\ c.id = id
              BY <1>3, <1>4, <1>6, <3>2, <4>2 DEF IsReq
            <5> QED  BY <5>1 DEF Waits
          <4>3. CASE x = m /\ ~(c.left > 0)
            <5>1. id \in DOMAIN pendingResponses'[a]
              BY <1>11, <1>15, <1>16, <3>2, <4>3
            <5> QED  BY <5>1 DEF Waits
          <4> QED  BY <4>1, <4>2, <4>3
        <3> QED  BY <2>2, <3>1, <3>2 DEF Waits
      <2>3. ASSUME Waits(a, id)'  PROVE Waits(a, id)
        <3>1. CASE id \in DOMAIN pendingResponses'[a]
          BY <1>3, <1>15, <1>16, <3>1 DEF Waits
        <3>2. ASSUME NEW x \in Mine(a)', IsReq(x), x.id = id  PROVE Waits(a, id)
          <4>1. PICK y \in Mine(a) : IsReq(y) /\ y.id = id
            BY <1>8, <3>2 DEF Within, Counts, Like, IsReq
          <4> QED  BY <4>1 DEF Waits
        <3> QED  BY <2>3, <3>1, <3>2 DEF Waits
      <2> QED  BY <2>1, <2>2, <2>3
    <1>19. (NotTwice(a) => NotTwice(a)') /\ (NotLost(a) => NotLost(a)')
      BY <1>9, <1>18, EndsStep
    <1> QED  BY <1>2, <1>8, <1>9, <1>12, <1>13, <1>14, <1>17, <1>19 DEF Own

\* The stream of a grows by the frame, unless the WebSocket drops it.
LEMMA WriteFrameStream ==
    ASSUME TypeOK, NEW a \in Peers, NEW b \in Peers, b = Other(a), a = Other(b), Untouched(b), KeepsLoop(a),
           incoming'[a] = incoming[a], NEW f \in Frames,
           wire'[a] = IF closeSent[a] THEN wire[a] ELSE Append(wire[a], f)
    PROVE  /\ Stream(b)' = Stream(b)
           /\ closeSent[a] => Stream(a)' = Stream(a)
           /\ ~closeSent[a] => Stream(a)' = Append(Stream(a), f)
           /\ Stream(a) \in Seq(Frames) /\ Stream(b) \in Seq(Frames)
           /\ ToSet(Stream(a)') \subseteq ToSet(Stream(a)) \union {f}
    <1>1. /\ batch'[b] = batch[b] /\ incoming'[b] = incoming[b] /\ wire'[b] = wire[b]
          /\ batch'[a] = batch[a]
      BY DEF Untouched, KeepsLoop, KeepsLinks
    <1>2. Stream(b)' = Stream(b)
      BY <1>1, StreamKept
    <1>3. Stream(a) \in Seq(Frames) /\ Stream(b) \in Seq(Frames)
      BY StreamIs
    <1>4. CASE closeSent[a]
      <2>1. Stream(a)' = Stream(a)
        BY <1>1, <1>4, StreamKept
      <2> QED  BY <1>2, <1>3, <1>4, <2>1
    <1>5. CASE ~closeSent[a]
      <2>1. PICK s, w : s = batch[b] \o incoming[b] /\ w = wire[a]
        OBVIOUS
      <2>2. s \in Seq(Frames) /\ w \in Seq(Frames)
        BY <2>1, Typed, Joined
      <2>3. s \o Append(w, f) = Append(s \o w, f)
        BY <2>2, Joined
      <2>4. Stream(a) = s \o w
        BY <2>1 DEF Stream
      <2>5. Stream(a)' = s \o Append(w, f)
        BY <1>1, <1>5, <2>1 DEF Stream
      <2>6. Stream(a)' = Append(Stream(a), f)
        BY <2>3, <2>4, <2>5
      <2>7. ToSet(Append(Stream(a), f)) = ToSet(Stream(a)) \union {f}
        BY <1>3, Longer
      <2> QED  BY <1>2, <1>3, <1>5, <2>6, <2>7
    <1> QED  BY <1>4, <1>5

\* nextFrameToSend, for a message on its way
LEMMA WriteFrameKeeps ==
    ASSUME TypeOK, NEW a \in Peers, WriteFrame(a), Control(a), \A p \in Peers : Own(p) /\ Link(p)
    PROVE  \A p \in Peers : Own(p)' /\ Link(p)'
    <1>1. PICK b \in Peers : b = Other(a) /\ Other(b) = a /\ b # a /\ \A q \in Peers : q = a \/ q = b
      BY TwoPeers
    <1>2. outbox[a] # <<>> /\ (~closeSent[a] => Live(a))
      BY DEF WriteFrame, Control, Live
    <1>3. PICK m, c, f : m = Written(a) /\ c = Left(a) /\ f = NextFrame(a)
      OBVIOUS
    <1>4. /\ Queues(a) /\ Answers(a) /\ Awaits(a) /\ Own(a) /\ Own(b) /\ Link(a) /\ Link(b) /\ Flags(a) /\ Flags(b)
          /\ Kinds(a) /\ Kinds(b) /\ Queues(b)
      BY <1>1 DEF Own, Link
    <1>5. /\ m \in Messages /\ m.number > 0 /\ m \in Held(a) /\ m \in Mine(a)
          /\ c.type = m.type /\ c.number = m.number /\ c.id = m.id /\ c.noReply = m.noReply
          /\ c.left > 0 => c \in Messages /\ c.bytesSent > 0 /\ f.more
          /\ c.left > 0 \/ isAck(m) \/ ~f.more
          /\ f \in Frames /\ f.type = m.type /\ f.number = m.number /\ f.noReply = m.noReply
      BY <1>2, <1>3, <1>4, WrittenIs
    <1>6. PICK R \in SUBSET Messages :
             /\ Held(a) = {m} \union R /\ NoTwin(m, Posted(a) \union R)
             /\ Held(a)' = (IF c.left > 0 THEN {c} ELSE {}) \union R
             /\ New(m) => \A x \in R : New(x) => m.number < x.number
      BY <1>2, <1>3, <1>4, WrittenQueues
    <1>7. /\ Untouched(b) /\ KeepsMail(a) /\ KeepsLoop(a) /\ KeepsOpen(a) /\ incoming'[a] = incoming[a]
          /\ toRespond'[a] = toRespond[a] /\ lastMessageNo'[a] = lastMessageNo[a]
          /\ pendingRequests'[a] = pendingRequests[a] /\ numReceived'[a] = numReceived[a]
          /\ wire'[a] = IF closeSent[a] THEN wire[a] ELSE Append(wire[a], f)
          /\ pendingResponses'[a] =
                IF AwaitsReply(a) THEN With(pendingResponses[a], m.number, NewIncoming(m.id, FALSE))
                ELSE pendingResponses[a]
      BY <1>1, <1>2, <1>3, <1>5, WriteFrameDoes
    <1>8. Own(a)' /\ Within(Mine(a)', Mine(a)) /\ KeepsRequests(a) /\ RepliesIn(Mine(a)', Mine(a))
      <2>1. Own(a)' /\ Within(Mine(a)', Mine(a)) /\ KeepsRequests(a)
        BY <1>2, <1>4, WriteFrameOwn
      <2> QED  BY <2>1, WithinReplies
    <1>9. /\ Live(a)' = Live(a) /\ Live(b)' = Live(b) /\ closeSent'[a] = closeSent[a] /\ closeSent'[b] = closeSent[b]
          /\ MailKept(b) /\ KeepsApp(b) /\ KeepsQueues(b) /\ KeepsReceived(b) /\ KeepsOpen(b)
          /\ Mine(b)' = Mine(b) /\ Held(b)' = Held(b) /\ KeepsRequests(b)
      BY <1>7, LiveKept, Kept DEF Untouched, KeepsApp
    <1>10. /\ Stream(b)' = Stream(b)
           /\ closeSent[a] => Stream(a)' = Stream(a)
           /\ ~closeSent[a] => Stream(a)' = Append(Stream(a), f)
           /\ Stream(a) \in Seq(Frames) /\ Stream(b) \in Seq(Frames)
           /\ ToSet(Stream(a)') \subseteq ToSet(Stream(a)) \union {f}
      BY <1>1, <1>5, <1>7, WriteFrameStream
    <1>11. /\ Own(b)'
           /\ Flags(b)' /\ Kinds(b)' /\ RequestsInOrder(b)' /\ RequestsContinue(b)'
      <2>1. Own(b)'
        BY <1>4, <1>9, OwnKept
      <2>2. Within(Mine(b)', Mine(b)) /\ AllAlike(Held(b)', Held(b)) /\ AllAlike(Held(b), Held(b)')
        BY <1>9, WithinItself
      <2>3. Flags(b)' /\ Kinds(b)'
        BY <1>1, <1>4, <1>7, <1>9, <1>10, <2>2, FlagsKept, KindsKept
      <2>4. RequestsInOrder(b) /\ RequestsContinue(b) /\ lastMessageNo'[b] = lastMessageNo[b]
        BY <1>4, <1>9 DEF Link, KeepsQueues
      <2>5. RequestsInOrder(b)'
        BY <1>1, <1>7, <1>9, <1>10, <2>4, OrderKept
      <2>6. RequestsContinue(b)'
        BY <1>1, <1>7, <1>9, <1>10, <2>2, <2>4, ContinueKept
      <2> QED  BY <2>1, <2>3, <2>5, <2>6
    <1>12. AnswersExpected(b)'
      <2> SUFFICES ASSUME Live(b)
                   PROVE  Expected(Mine(a)', toRespond[a], Stream(b), Stream(a)', pendingResponses[b])
        BY <1>1, <1>7, <1>9, <1>10 DEF AnswersExpected, KeepsReceived
      <2>1. Expected(Mine(a), toRespond[a], Stream(b), Stream(a), pendingResponses[b])
        BY <1>1, <1>4 DEF AnswersExpected, Link
      <2>2. CASE closeSent[a]
        <3>1. Expected(Mine(a)', toRespond[a], Stream(b), Stream(a), pendingResponses[b])
          BY <1>8, <2>1, ExpectedLess
        <3> QED  BY <1>10, <2>2, <3>1
      <2>3. CASE ~closeSent[a]
        <3>1. ASSUME IsReply(f)
              PROVE  /\ \E x \in Mine(a) : IsReply(x) /\ x.number = f.number
                     /\ \A x \in Mine(a)' : IsReply(x) /\ x.number = f.number => f.more
                     /\ f.number \notin toRespond[a]
                     /\ \A g \in ToSet(Stream(b)) : IsReq(g) /\ ~g.more => g.number # f.number
          <4>1. IsReply(m)
            BY <1>5, <3>1 DEF IsReply
          <4>2. m.number \in (1..numReceived[a]) \ (DOMAIN pendingRequests[a] \union toRespond[a])
            BY <1>4, <1>5, <4>1 DEF Answers, Answered
          <4>3. \A x \in Mine(a)' : IsReply(x) /\ x.number = f.number => f.more
            <5> SUFFICES ASSUME NEW x \in Mine(a)', IsReply(x), x.number = m.number
                         PROVE  f.more
              BY <1>5
            <5>1. Mine(a)' = Posted(a) \union Held(a)'
              BY <1>7 DEF Mine, Posted, KeepsMail
            <5>2. x \notin Posted(a) \union R
              BY <1>6, <4>1 DEF NoTwin, Twins
            <5>3. c.left > 0
              BY <1>6, <5>1, <5>2
            <5> QED  BY <1>5, <5>3
          <4>4. \A g \in ToSet(Stream(b)) : IsReq(g) => g.number # m.number
            <5>1. InOrder(Stream(b), numReceived[a], pendingRequests[a])
              BY <1>1, <1>2, <1>4, <2>3 DEF Link, RequestsInOrder
            <5>2. \A g \in ToSet(Stream(b)) : IsReq(g) /\ g.number <= numReceived[a] => g.number \in DOMAIN pendingRequests[a]
              BY <5>1 DEF InOrder
            <5>3. m.number <= numReceived[a] /\ m.number \notin DOMAIN pendingRequests[a]
              BY <4>2
            <5> QED  BY <5>2, <5>3
          <4> QED  BY <1>5, <4>1, <4>2, <4>3, <4>4
        <3>2. Expected(Mine(a)', toRespond[a], Stream(b), Append(Stream(a), f), pendingResponses[b])
          <4>1. PICK M, N, due, s, t, pend :
                   /\ M = Mine(a) /\ N = Mine(a)' /\ due = toRespond[a] /\ s = Stream(b) /\ t = Stream(a)
                   /\ pend = pendingResponses[b]
            OBVIOUS
          <4>2. /\ RepliesIn(N, M) /\ Expected(M, due, s, t, pend) /\ t \in Seq(Frames) /\ f \in Frames
                /\ IsReply(f) =>
                     /\ \E x \in M : IsReply(x) /\ x.number = f.number
                     /\ \A x \in N : IsReply(x) /\ x.number = f.number => f.more
                     /\ f.number \notin due
                     /\ \A g \in ToSet(s) : IsReq(g) /\ ~g.more => g.number # f.number
            BY <1>5, <1>8, <1>10, <2>1, <3>1, <4>1
          <4>3. Expected(N, due, s, Append(t, f), pend)
            BY <4>2, ExpectedReplied
          <4> QED  BY <4>1, <4>3
        <3> QED  BY <1>10, <2>3, <3>2
      <2> QED  BY <2>2, <2>3
    <1>13. Flags(a)' /\ Kinds(a)'
      <2>1. \A n \in DOMAIN progress[a] : n \in DOMAIN progress'[a] /\ progress'[a][n].noReply = progress[a][n].noReply
        BY <1>8 DEF KeepsRequests
      <2>2. IsReq(m) => /\ m.number = m.id /\ m.id \in DOMAIN progress[a]
                        /\ m.noReply = progress[a][m.id].noReply
        BY <1>4, <1>5, MineAre DEF Queues, HeldOK, Flags
      <2>3. \A x \in Mine(a)' : IsReq(x) => x.noReply = progress'[a][x.id].noReply
        <3> SUFFICES ASSUME NEW x \in Mine(a)', IsReq(x)
                     PROVE  x.noReply = progress'[a][x.id].noReply
          OBVIOUS
        <3>1. PICK y \in Mine(a) : IsReq(y) /\ y.id = x.id /\ y.noReply = x.noReply
          BY <1>8 DEF Within, Like, Counts, IsReq
        <3>2. y.id \in DOMAIN progress[a] /\ y.noReply = progress[a][y.id].noReply
          BY <1>4, <3>1, MineAre DEF Flags
        <3> QED  BY <2>1, <3>1, <3>2
      <2>4. \A g \in ToSet(Stream(a)') : IsReq(g) =>
               g.number \in DOMAIN progress'[a] /\ g.noReply = progress'[a][g.number].noReply
        <3> SUFFICES ASSUME NEW g \in ToSet(Stream(a)'), IsReq(g)
                     PROVE  g.number \in DOMAIN progress'[a] /\ g.noReply = progress'[a][g.number].noReply
          OBVIOUS
        <3>1. CASE g \in ToSet(Stream(a))
          <4>1. g.number \in DOMAIN progress[a] /\ g.noReply = progress[a][g.number].noReply
            BY <1>4, <3>1 DEF Flags
          <4> QED  BY <2>1, <4>1
        <3>2. CASE g = f
          <4>1. IsReq(m)
            BY <1>5, <3>2 DEF IsReq
          <4>2. g.number = m.id /\ g.noReply = m.noReply
            BY <1>5, <2>2, <3>2, <4>1
          <4> QED  BY <2>1, <2>2, <4>1, <4>2
        <3> QED  BY <1>10, <3>1, <3>2
      <2>5. \A n \in DOMAIN pendingRequests'[b] :
               n \in DOMAIN progress'[a] /\ pendingRequests'[b][n].noReply = progress'[a][n].noReply
        <3>1. pendingRequests'[b] = pendingRequests[b]
          BY <1>9 DEF KeepsReceived
        <3>2. \A n \in DOMAIN pendingRequests[b] :
                 n \in DOMAIN progress[a] /\ pendingRequests[b][n].noReply = progress[a][n].noReply
          BY <1>1, <1>4 DEF Flags
        <3> QED  BY <2>1, <3>1, <3>2
      <2>6. Flags(a)'
        BY <1>1, <2>3, <2>4, <2>5 DEF Flags
      <2>7. Kinds(a)'
        <3>1. \A x \in Mine(a)' : x.type = "ERR" => ErrorsMade
          BY <1>4, <1>8 DEF Kinds, Within, Like, Counts, IsReply
        <3>2. \A x \in ToSet(Stream(a)') : x.type = "ERR" => ErrorsMade
          BY <1>4, <1>5, <1>10 DEF Kinds
        <3>3. ErrorsMade' = ErrorsMade
          BY DEF ErrorsMade
        <3> QED  BY <3>1, <3>2, <3>3 DEF Kinds
      <2> QED  BY <2>6, <2>7
    <1>14. HeldOK({m} \union R, lastMessageNo[a]) /\ lastMessageNo[a] \in Nat /\ numReceived[b] \in Nat
      BY <1>4, <1>6, Typed DEF Queues
    <1>15. numReceived'[b] = numReceived[b] /\ pendingRequests'[b] = pendingRequests[b]
      BY <1>9 DEF KeepsReceived
    <1>16. ~closeSent[a] /\ Live(b) =>
              Continues({m} \union R, lastMessageNo[a], Stream(a), numReceived[b], pendingRequests[b])
      BY <1>1, <1>2, <1>4, <1>6 DEF Link, RequestsContinue
    <1>17. RequestsInOrder(a)'
      <2> SUFFICES ASSUME Live(b)
                   PROVE  InOrder(Stream(a)', numReceived[b], pendingRequests[b])
        BY <1>1, <1>9, <1>15 DEF RequestsInOrder
      <2>1. InOrder(Stream(a), numReceived[b], pendingRequests[b])
        BY <1>1, <1>4 DEF Link, RequestsInOrder
      <2>2. CASE ~closeSent[a]
        <3>1. PICK last, s, num, pend :
                 last = lastMessageNo[a] /\ s = Stream(a) /\ num = numReceived[b] /\ pend = pendingRequests[b]
          OBVIOUS
        <3>2. /\ Continues({m} \union R, last, s, num, pend) /\ HeldOK({m} \union R, last) /\ InOrder(s, num, pend)
              /\ last \in Nat /\ s \in Seq(Frames) /\ num \in Nat
          BY <1>10, <1>14, <1>16, <2>1, <2>2, <3>1
        <3>3. InOrder(Append(s, f), num, pend)
          BY <1>5, <1>6, <3>2, OrderSent
        <3> QED  BY <1>10, <2>2, <3>1, <3>3
      <2> QED  BY <1>10, <2>1, <2>2
    <1>18. RequestsContinue(a)'
      <2> SUFFICES ASSUME Live(b), ~closeSent[a]
                   PROVE  Continues(Held(a)', lastMessageNo[a], Append(Stream(a), f), numReceived[b], pendingRequests[b])
        BY <1>1, <1>7, <1>9, <1>10, <1>15 DEF RequestsContinue
      <2>1. PICK N, last, s, num, pend :
               /\ last = lastMessageNo[a] /\ s = Stream(a) /\ num = numReceived[b] /\ pend = pendingRequests[b]
               /\ N = Held(a)'
        OBVIOUS
      <2>2. /\ Continues({m} \union R, last, s, num, pend) /\ HeldOK({m} \union R, last)
            /\ last \in Nat /\ s \in Seq(Frames) /\ num \in Nat
        BY <1>10, <1>14, <1>16, <2>1
      <2>3. IsReq(m) => \A x \in R : IsReq(x) => x.number # m.number
        <3> SUFFICES ASSUME IsReq(m), NEW x \in R, IsReq(x), x.number = m.number
                     PROVE  FALSE
          OBVIOUS
        <3>1. x.id = m.id
          BY <1>14 DEF HeldOK
        <3> QED  BY <1>6, <3>1 DEF NoTwin, Twins
      <2>4. /\ R \subseteq N
            /\ \A x \in N : x \in R \/ (/\ x.type = m.type /\ x.number = m.number
                                        /\ x.bytesSent > 0 /\ f.more)
        BY <1>5, <1>6, <2>1
      <2>5. Continues(N, last, Append(s, f), num, pend)
        BY <1>5, <2>2, <2>3, <2>4, ContinuesSent
      <2> QED  BY <2>1, <2>5
    <1>19. AnswersExpected(a)'
      <2> SUFFICES ASSUME Live(a)
                   PROVE  Expected(Mine(b), toRespond[b], Stream(a)', Stream(b), pendingResponses'[a])
        BY <1>1, <1>9, <1>10 DEF AnswersExpected, KeepsApp
      <2>1. Expected(Mine(b), toRespond[b], Stream(a), Stream(b), pendingResponses[a])
        BY <1>1, <1>4 DEF AnswersExpected, Link
      <2>2. DOMAIN pendingResponses'[a] =
               DOMAIN pendingResponses[a] \union (IF AwaitsReply(a) THEN {m.number} ELSE {})
        <3>1. DOMAIN With(pendingResponses[a], m.number, NewIncoming(m.id, FALSE))
                 = DOMAIN pendingResponses[a] \union {m.number}
          BY DEF With
        <3> QED  BY <1>7, <3>1
      <2>3. IsReq(f) /\ ~f.more /\ ~f.noReply =>
               f.number \in DOMAIN pendingResponses'[a] /\ f.number \notin DOMAIN pendingResponses[a]
        <3> SUFFICES ASSUME IsReq(f), ~f.more, ~f.noReply
                     PROVE  m.number \in DOMAIN pendingResponses'[a] /\ m.number \notin DOMAIN pendingResponses[a]
          BY <1>5
        <3>1. IsReq(m) /\ ~m.noReply
          BY <1>5 DEF IsReq
        <3>2. ~isAck(m)
          BY <3>1, AcksDoNotCount
        <3>3. AwaitsReply(a)
          BY <1>3, <1>5, <3>1, <3>2 DEF AwaitsReply, wantsReply, IsReq
        <3>4. m.number = m.id /\ m.id \notin DOMAIN pendingResponses[a]
          BY <1>4, <1>5, <1>14, <3>1 DEF HeldOK, Awaits, Awaited
        <3> QED  BY <2>2, <3>3, <3>4
      <2>4. DOMAIN pendingResponses[a] \subseteq DOMAIN pendingResponses'[a]
        BY <2>2
      <2>5. PICK M, due, s, t, pend, pend2 :
               /\ M = Mine(b) /\ due = toRespond[b] /\ s = Stream(a) /\ t = Stream(b)
               /\ pend = pendingResponses[a] /\ pend2 = pendingResponses'[a]
        OBVIOUS
      <2>6. CASE closeSent[a]
        <3>1. RepliesIn(M, M)
          BY DEF RepliesIn
        <3>2. Expected(M, due, s, t, pend2)
          BY <2>1, <2>4, <2>5, <3>1, ExpectedLess
        <3> QED  BY <1>10, <2>5, <2>6, <3>2
      <2>7. CASE ~closeSent[a]
        <3>1. /\ Expected(M, due, s, t, pend) /\ DOMAIN pend \subseteq DOMAIN pend2 /\ s \in Seq(Frames)
              /\ IsReq(f) /\ ~f.more /\ ~f.noReply => f.number \in DOMAIN pend2 /\ f.number \notin DOMAIN pend
          BY <1>10, <2>1, <2>3, <2>4, <2>5
        <3>2. Expected(M, due, Append(s, f), t, pend2)
          BY <1>5, <3>1, ExpectedAsked
        <3> QED  BY <1>10, <2>5, <2>7, <3>2
      <2> QED  BY <2>6, <2>7
    <1> QED  BY <1>1, <1>8, <1>11, <1>12, <1>13, <1>17, <1>18, <1>19 DEF Link
------------------------------------------------------------------------------
(***************************************************************************)
(* The theorems.                                                           *)
(***************************************************************************)
Connections(p) == Control(p) /\ Wakeup(p) /\ Own(p) /\ Link(p)

ConnInv == TypeOK /\ NoProtocolError /\ \A p \in Peers : Connections(p)

LEMMA ConnParts ==
    ASSUME ConnInv, NEW a \in Peers
    PROVE  /\ TypeOK /\ Control(a) /\ Wakeup(a) /\ Queues(a) /\ (batch[a] # <<>> => Live(a))
           /\ \A p \in Peers : Own(p) /\ Link(p)
           /\ \A p \in Peers : Control(p) /\ Wakeup(p)
  BY DEF ConnInv, Connections, Control, Own

\* A step of a that leaves the other peer alone.
LEMMA ConnKept ==
    ASSUME ConnInv, NEW a \in Peers, TypeOK', Untouched(Other(a)), Control(a)', Wakeup(a)',
           \A p \in Peers : Own(p)' /\ Link(p)',
           closingWithError'[a] = closingWithError[a] \/ closingWithError'[a] = "exception"
    PROVE  ConnInv'
    <1>1. PICK b \in Peers : b = Other(a) /\ \A q \in Peers : q = a \/ q = b
      BY TwoPeers
    <1>2. Control(b)' /\ Wakeup(b)'
      BY <1>1, ControlUntouched DEF ConnInv, Connections
    <1>3. closingWithError'[b] = closingWithError[b]
      BY <1>1 DEF Untouched, KeepsOpen
    <1>4. NoProtocolError'
      BY <1>1, <1>3 DEF ConnInv, NoProtocolError
    <1> QED  BY <1>1, <1>2, <1>4 DEF ConnInv, Connections

LEMMA ConnApplication ==
    ASSUME ConnInv, NEW a \in Peers, Application(a)
    PROVE  ConnInv'
    <1>1. /\ TypeOK /\ Control(a) /\ Wakeup(a) /\ \A p \in Peers : Own(p) /\ Link(p)
      BY ConnParts
    <1>2. Control(a)' /\ Wakeup(a)'
      BY <1>1, ControlApplication
    <1>3. ASSUME NEW shape \in Shapes[a], SendRequest(a, shape)  PROVE ConnInv'
      <2>1. TypeOK' /\ Untouched(Other(a)) /\ KeepsOpen(a)
        BY <1>1, <1>3, SendRequestDoes
      <2>2. \A p \in Peers : Own(p)' /\ Link(p)'
        BY <1>1, <1>3, SendRequestKeeps
      <2> QED  BY <1>2, <2>1, <2>2, ConnKept DEF KeepsOpen
    <1>4. ASSUME NEW n \in toRespond[a], NEW reply \in Replies[a], Respond(a, n, reply)  PROVE ConnInv'
      <2>1. TypeOK' /\ Untouched(Other(a)) /\ KeepsOpen(a)
        BY <1>1, <1>4, RespondDoes
      <2>2. \A p \in Peers : Own(p)' /\ Link(p)'
        BY <1>1, <1>4, RespondKeeps
      <2> QED  BY <1>2, <2>1, <2>2, ConnKept DEF KeepsOpen
    <1>5. CASE Close(a)
      <2>1. TypeOK' /\ Untouched(Other(a)) /\ KeepsOpen(a)
        BY <1>1, <1>5, CloseDoes
      <2>2. \A p \in Peers : Quiet(p)
        BY <1>1, <1>5, QuietActor
      <2>3. \A p \in Peers : Own(p)' /\ Link(p)'
        BY <1>1, <2>2, QuietKept
      <2> QED  BY <1>2, <2>1, <2>3, ConnKept DEF KeepsOpen
    <1> QED  BY <1>3, <1>4, <1>5 DEF Application

LEMMA ConnSending ==
    ASSUME ConnInv, NEW a \in Peers, QueueMessage(a) \/ WriteFrame(a) \/ OnWriteable(a)
    PROVE  ConnInv'
    <1>1. /\ TypeOK /\ Control(a) /\ Wakeup(a) /\ Queues(a) /\ \A p \in Peers : Own(p) /\ Link(p)
      BY ConnParts
    <1>2. CASE QueueMessage(a)
      <2>1. TypeOK' /\ Untouched(Other(a)) /\ KeepsOpen(a)
        BY <1>1, <1>2, QueueMessageAccepts, QueueMessageRefuses
      <2>2. \A p \in Peers : Own(p)' /\ Link(p)'
        BY <1>1, <1>2, AcceptKeeps, RefuseKeeps
      <2>3. Control(a)' /\ Wakeup(a)'
        BY <1>1, <1>2, ControlSending
      <2> QED  BY <2>1, <2>2, <2>3, ConnKept DEF KeepsOpen
    <1>3. CASE WriteFrame(a)
      <2>1. outbox[a] # <<>>
        BY <1>1, <1>3 DEF WriteFrame, Control
      <2>2. Written(a).number > 0
        BY <1>1, <2>1, WrittenIs
      <2>3. TypeOK' /\ Untouched(Other(a)) /\ KeepsOpen(a)
        BY <1>1, <1>3, <2>1, <2>2, WriteFrameDoes
      <2>4. \A p \in Peers : Own(p)' /\ Link(p)'
        BY <1>1, <1>3, WriteFrameKeeps
      <2>5. Control(a)' /\ Wakeup(a)'
        BY <1>1, <1>3, <2>1, <2>2, ControlSending
      <2> QED  BY <2>3, <2>4, <2>5, ConnKept DEF KeepsOpen
    <1>4. CASE OnWriteable(a)
      <2>1. TypeOK' /\ Untouched(Other(a)) /\ KeepsOpen(a)
        BY <1>1, <1>4, OnWriteableDoes
      <2>2. \A p \in Peers : Quiet(p)
        BY <1>1, <1>4, QuietActor
      <2>3. \A p \in Peers : Own(p)' /\ Link(p)'
        BY <1>1, <2>2, QuietKept
      <2>4. Control(a)' /\ Wakeup(a)'
        BY <1>1, <1>4, ControlSending
      <2> QED  BY <2>1, <2>3, <2>4, ConnKept DEF KeepsOpen
    <1> QED  BY <1>2, <1>3, <1>4

LEMMA ConnReceiving ==
    ASSUME ConnInv, NEW a \in Peers,
           \/ RequestFrame(a) \/ RequestFrameThrows(a) \/ ResponseFrame(a) \/ ResponseFrameThrows(a) \/ AckFrame(a)
    PROVE  ConnInv'
    <1>1. /\ TypeOK /\ Control(a) /\ Wakeup(a) /\ \A p \in Peers : Own(p) /\ Link(p)
      BY ConnParts
    <1>2. batch[a] # <<>> => Live(a)
      BY ConnParts
    <1>3. CASE RequestFrame(a)
      <2>1. batch[a] # <<>> /\ IsReq(Frame(a))
        BY <1>3 DEF RequestFrame, Handles, IsReq, Frame
      <2>2. IsExpected(a, Frame(a).number)
        BY <1>1, <1>2, <2>1, RequestExpected
      <2>3. TypeOK' /\ Untouched(Other(a)) /\ KeepsOpen(a)
        BY <1>1, <1>3, <2>2, RequestFrameDoes
      <2>4. \A p \in Peers : Own(p)' /\ Link(p)'
        BY <1>1, <1>2, <1>3, <2>1, RequestFrameKeeps
      <2>5. Control(a)' /\ Wakeup(a)'
        BY <1>1, <1>3, <2>2, ControlReceiving
      <2> QED  BY <2>3, <2>4, <2>5, ConnKept DEF KeepsOpen
    <1>4. CASE RequestFrameThrows(a)
      <2>1. TypeOK' /\ Untouched(Other(a)) /\ closingWithError'[a] = "exception"
        BY <1>1, <1>4, RequestFrameThrowsDoes
      <2>2. \A p \in Peers : Own(p)' /\ Link(p)'
        BY <1>1, <1>4, RequestThrowsKeeps
      <2>3. Control(a)' /\ Wakeup(a)'
        BY <1>1, <1>4, ControlReceiving
      <2> QED  BY <2>1, <2>2, <2>3, ConnKept
    <1>5. CASE ResponseFrame(a)
      <2>1. batch[a] # <<>> /\ IsReply(Frame(a))
        BY <1>5 DEF ResponseFrame, Handles, IsReply, Frame
      <2>2. IsAwaited(a, Frame(a).number)
        BY <1>1, <1>2, <2>1, ReplyAwaited
      <2>3. TypeOK' /\ Untouched(Other(a)) /\ KeepsOpen(a)
        BY <1>1, <1>5, <2>2, ResponseFrameDoes
      <2>4. \A p \in Peers : Own(p)' /\ Link(p)'
        BY <1>1, <1>2, <1>5, <2>1, ResponseFrameKeeps
      <2>5. Control(a)' /\ Wakeup(a)'
        BY <1>1, <1>5, <2>2, ControlReceiving
      <2> QED  BY <2>3, <2>4, <2>5, ConnKept DEF KeepsOpen
    <1>6. CASE ResponseFrameThrows(a)
      <2>1. TypeOK' /\ Untouched(Other(a)) /\ closingWithError'[a] = "exception"
        BY <1>1, <1>6, ResponseFrameThrowsDoes
      <2>2. \A p \in Peers : Own(p)' /\ Link(p)'
        BY <1>1, <1>6, ResponseThrowsKeeps
      <2>3. Control(a)' /\ Wakeup(a)'
        BY <1>1, <1>6, ControlReceiving
      <2> QED  BY <2>1, <2>2, <2>3, ConnKept
    <1>7. CASE AckFrame(a)
      <2>1. TypeOK' /\ Untouched(Other(a)) /\ KeepsOpen(a)
        BY <1>1, <1>7, AckFrameDoes
      <2>2. \A p \in Peers : Own(p)' /\ Link(p)'
        BY <1>1, <1>7, AckFrameKeeps
      <2>3. Control(a)' /\ Wakeup(a)'
        BY <1>1, <1>7, ControlReceiving
      <2> QED  BY <2>1, <2>2, <2>3, ConnKept DEF KeepsOpen
    <1> QED  BY <1>3, <1>4, <1>5, <1>6, <1>7

LEMMA ConnClosing ==
    ASSUME ConnInv, NEW a \in Peers,
           \/ OnMessages(a) \/ OnClose(a) \/ OnClosed(a) \/ FinishClosed(a) \/ ReceivedClose(a) \/ SocketClosed(a)
    PROVE  ConnInv'
    <1>1. /\ TypeOK /\ Control(a) /\ Wakeup(a) /\ \A p \in Peers : Own(p) /\ Link(p)
      BY ConnParts
    <1>2. Control(a)' /\ Wakeup(a)'
      BY <1>1, ControlClosing
    <1>3. TypeOK' /\ Untouched(Other(a)) /\ closingWithError'[a] = closingWithError[a]
      <2>1. OnMessages(a) => TypeOK' /\ Untouched(Other(a)) /\ closingWithError'[a] = closingWithError[a]
        BY <1>1, OnMessagesDrops, OnMessagesPops DEF KeepsOpen
      <2>2. OnClose(a) => TypeOK' /\ Untouched(Other(a)) /\ closingWithError'[a] = closingWithError[a]
        BY <1>1, OnCloseDoes
      <2>3. OnClosed(a) => TypeOK' /\ Untouched(Other(a)) /\ closingWithError'[a] = closingWithError[a]
        BY <1>1, OnClosedDoes DEF KeepsOpen
      <2>4. FinishClosed(a) => TypeOK' /\ Untouched(Other(a)) /\ closingWithError'[a] = closingWithError[a]
        BY <1>1, FinishClosedDoes
      <2>5. ReceivedClose(a) => TypeOK' /\ Untouched(Other(a)) /\ closingWithError'[a] = closingWithError[a]
        BY <1>1, ReceivedCloseDoes
      <2>6. SocketClosed(a) => TypeOK' /\ Untouched(Other(a)) /\ closingWithError'[a] = closingWithError[a]
        BY <1>1, SocketClosedDoes
      <2> QED  BY <2>1, <2>2, <2>3, <2>4, <2>5, <2>6
    <1>4. \A p \in Peers : Own(p)' /\ Link(p)'
      <2>1. CASE FinishClosed(a)
        BY <1>1, <2>1, FinishKeeps
      <2>2. CASE ~FinishClosed(a)
        <3>1. \A p \in Peers : Quiet(p)
          BY <1>1, <2>2, QuietActor
        <3> QED  BY <1>1, <3>1, QuietKept
      <2> QED  BY <2>1, <2>2
    <1> QED  BY <1>2, <1>3, <1>4, ConnKept

LEMMA ConnDeliver ==
    ASSUME ConnInv, NEW a \in Peers, Deliver(a)
    PROVE  ConnInv'
    <1>1. TypeOK /\ (\A p \in Peers : Control(p) /\ Wakeup(p)) /\ \A p \in Peers : Own(p) /\ Link(p)
      BY ConnParts
    <1>2. TypeOK' /\ \A p \in Peers : KeepsOpen(p)
      BY <1>1, DeliverDoes
    <1>3. \A p \in Peers : Control(p)' /\ Wakeup(p)'
      BY <1>1, ControlDeliver
    <1>4. \A p \in Peers : Own(p)' /\ Link(p)'
      BY <1>1, QuietDeliver, QuietKept
    <1>5. NoProtocolError'
      BY <1>2 DEF ConnInv, NoProtocolError, KeepsOpen
    <1> QED  BY <1>2, <1>3, <1>4, <1>5 DEF ConnInv, Connections

LEMMA ConnNext ==
    ASSUME ConnInv, [Next]_vars
    PROVE  ConnInv'
    <1>1. ASSUME NEW a \in Peers, ActorStep(a) \/ RequestFrameThrows(a) \/ ResponseFrameThrows(a)
                                  \/ Application(a) \/ Network(a)
          PROVE  ConnInv'
      <2>1. CASE ActorStep(a)
        BY <2>1, ConnSending, ConnReceiving, ConnClosing DEF ActorStep
      <2>2. CASE RequestFrameThrows(a) \/ ResponseFrameThrows(a)
        BY <2>2, ConnReceiving
      <2>3. CASE Application(a)
        BY <2>3, ConnApplication
      <2>4. CASE Network(a)
        BY <2>4, ConnDeliver, ConnClosing DEF Network, CloseCompletes, NetworkFails
      <2> QED  BY <1>1, <2>1, <2>2, <2>3, <2>4
    <1>2. CASE UNCHANGED vars
      <2>1. TypeOK' /\ NoProtocolError'
        BY <1>2 DEF ConnInv, TypeOK, NoProtocolError, vars, appVars, sendVars, recvVars, loopVars, sockVars
      <2>2. \A p \in Peers : Untouched(p)
        BY <1>2 DEF vars, appVars, sendVars, recvVars, loopVars, sockVars, Untouched, KeepsApp, KeepsMail,
                    KeepsQueues, KeepsReceived, KeepsLoop, KeepsWriting, KeepsLinks, KeepsOpen
      <2>3. \A p \in Peers : Control(p)' /\ Wakeup(p)'
        BY <2>2, ControlUntouched DEF ConnInv, Connections
      <2>4. \A p \in Peers : Quiet(p)
        <3> TAKE p \in Peers
        <3>1. Untouched(p) /\ Untouched(Other(p))
          BY <2>2, TwoPeers
        <3>2. MailKept(p) /\ Live(p)' = Live(p) /\ closeSent'[p] = closeSent[p]
          BY <3>1, Kept, LiveKept DEF Untouched
        <3>3. Stream(p)' = Stream(p)
          BY <3>1, StreamKept DEF Untouched, KeepsLoop, KeepsLinks
        <3> QED  BY <3>1, <3>2, <3>3 DEF Quiet, Untouched
      <2>5. \A p \in Peers : Own(p)' /\ Link(p)'
        BY <2>4, QuietKept, ConnParts DEF ConnInv, Connections
      <2> QED  BY <2>1, <2>3, <2>5 DEF ConnInv, Connections
    <1> QED  BY <1>1, <1>2 DEF Next

LEMMA ConnInit ==
    ASSUME Init
    PROVE  ConnInv
    <1>1. TypeOK /\ NoProtocolError
      <2>1. Event("onWebSocketWriteable") \in Events
        BY DEF Event, Events
      <2>2. IsPending(<<>>)
        BY DEF IsPending
      <2> QED  BY <2>1, <2>2 DEF Init, TypeOK, NoProtocolError
    <1>2. ASSUME NEW p \in Peers  PROVE Connections(p)
      <2>1. /\ progress[p] = <<>> /\ toRespond[p] = {} /\ mailbox[p] = <<Room>>
            /\ outbox[p] = <<>> /\ icebox[p] = <<>> /\ batch[p] = <<>> /\ incoming[p] = <<>> /\ wire[p] = <<>>
            /\ pendingRequests[p] = <<>> /\ pendingResponses[p] = <<>>
            /\ lastMessageNo[p] = 0 /\ numReceived[p] = 0 /\ writing[p] = FALSE /\ writeable[p] = TRUE
            /\ running[p] = "idle" /\ closingWithError[p] = "none" /\ socket[p] = "open"
        BY DEF Init, Room
      <2>2. PICK q \in Peers : q = Other(p)
        BY TwoPeers
      <2>3. /\ batch[q] = <<>> /\ incoming[q] = <<>> /\ pendingRequests[q] = <<>> /\ numReceived[q] = 0
            /\ toRespond[q] = {} /\ mailbox[q] = <<Room>> /\ outbox[q] = <<>> /\ icebox[q] = <<>>
            /\ wire[q] = <<>> /\ Other(q) = p
        BY <2>2, TwoPeers DEF Init, Room
      <2>4. Room.ev = "onWebSocketWriteable" /\ Closed.ev = "closed" /\ ToSet(<<Room>>) = {Room} /\ DOMAIN <<Room>> = {1}
        BY DEF Room, Closed, Event, ToSet
      <2>5. PostedIn(<<Room>>) = {}
        BY <2>4 DEF PostedIn
      <2>6. Held(p) = {} /\ Mine(p) = {} /\ Posted(p) = {} /\ Mine(q) = {}
        BY <2>1, <2>3, <2>5, Nothing DEF Held, HeldIn, Mine, Posted
      <2>7. Stream(p) = <<>> /\ Stream(q) = <<>>
        <3>1. (<<>> \o <<>>) \o <<>> = <<>>
          OBVIOUS
        <3> QED  BY <2>1, <2>2, <2>3, <3>1 DEF Stream
      <2>8. Control(p) /\ Wakeup(p)
        <3>1. Closed # Room
          BY <2>4
        <3>2. Event("closed") \notin ToSet(mailbox[p])
          BY <2>1, <2>4, <3>1 DEF Closed
        <3> QED  BY <2>1, <3>2 DEF Control, Wakeup
      <2>9. Queues(p)
        <3>1. Alone(<<Room>>, <<>>, <<>>)
          BY <2>4, <2>5, Nothing DEF Alone, HeldIn
        <3>2. NewInOrder(<<>>)
          BY Nothing DEF NewInOrder
        <3>3. PostedOK({}, 0) /\ HeldOK({}, 0)
          BY DEF PostedOK, HeldOK
        <3> QED  BY <2>1, <2>6, <3>1, <3>2, <3>3, Nothing DEF Queues
      <2>10. Mail(p)
        <3>1. InMail(<<Room>>, 0, 0)
          BY <2>4, <2>5 DEF InMail
        <3> QED  BY <2>1, <3>1, Nothing DEF Mail
      <2>11. Answers(p) /\ Awaits(p) /\ NotTwice(p) /\ NotLost(p)
        BY <2>1, <2>6, Nothing DEF Answers, Answered, Awaits, Awaited, NotTwice, NotLost
      <2>12. Flags(p) /\ Kinds(p)
        BY <2>1, <2>2, <2>3, <2>6, <2>7, Nothing DEF Flags, Kinds
      <2>13. RequestsInOrder(p)
        <3>1. InOrder(<<>>, 0, <<>>)
          BY Nothing DEF InOrder
        <3> QED  BY <2>2, <2>3, <2>7, <3>1 DEF RequestsInOrder
      <2>14. RequestsContinue(p)
        <3>1. Continues({}, 0, <<>>, 0, <<>>)
          BY Nothing DEF Continues
        <3> QED  BY <2>1, <2>2, <2>3, <2>6, <2>7, <3>1 DEF RequestsContinue
      <2>15. AnswersExpected(p)
        <3>1. Expected({}, {}, <<>>, <<>>, <<>>)
          BY Nothing DEF Expected
        <3> QED  BY <2>1, <2>2, <2>3, <2>6, <2>7, <3>1 DEF AnswersExpected
      <2> QED  BY <2>8, <2>9, <2>10, <2>11, <2>12, <2>13, <2>14, <2>15 DEF Connections, Own, Link
    <1> QED  BY <1>1, <1>2 DEF ConnInv

(***************************************************************************)
(* The invariant holds in every state of two connections, whatever they    *)
(* send, however the steps of the two actors, of the two applications and  *)
(* of the network interleave, and also when they close, fail and throw.    *)
(***************************************************************************)
THEOREM ConnectionInvariant == Spec => []ConnInv
    <1>1. Init => ConnInv
      BY ConnInit
    <1>2. ConnInv /\ [Next]_vars => ConnInv'
      BY ConnNext
    <1> QED  BY <1>1, <1>2, PTL DEF Spec

\* Type correctness of the two connections.
THEOREM ConnectionTypes == Spec => []TypeOK
    <1>1. ConnInv => TypeOK
      BY DEF ConnInv
    <1> QED  BY <1>1, ConnectionInvariant, PTL

(***************************************************************************)
(* Neither end of a connection ever sees the other break the protocol:     *)
(* pendingRequest and pendingResponse never throw (BLIPConnection.cc), for *)
(* any requests, frame sizes and ways to close.                            *)
(***************************************************************************)
THEOREM ProtocolIsKept == Spec => []NoProtocolError
    <1>1. ConnInv => NoProtocolError
      BY DEF ConnInv
    <1> QED  BY <1>1, ConnectionInvariant, PTL

(***************************************************************************)
(* writeToWebSocket never stops with messages in the outbox, unless the    *)
(* WebSocket will call onWebSocketWriteable, or is closing.                *)
(***************************************************************************)
THEOREM WakeupsAreKept == Spec => []NoLostWakeup
    <1>1. ConnInv => NoLostWakeup
      <2> SUFFICES ASSUME ConnInv, NEW p \in Peers, outbox[p] # <<>>
                   PROVE  \/ writing[p]
                          \/ \E i \in DOMAIN mailbox[p] : mailbox[p][i].ev = "onWebSocketWriteable"
                          \/ buffered[p] > SendBuffer
                          \/ closeSent[p] \/ socket[p] # "open"
        BY DEF NoLostWakeup
      <2>1. Wakeup(p)
        BY DEF ConnInv, Connections
      <2>2. Event("onWebSocketWriteable") \in ToSet(mailbox[p]) =>
               \E i \in DOMAIN mailbox[p] : mailbox[p][i].ev = "onWebSocketWriteable"
        BY DEF ToSet, Event
      <2> QED  BY <2>1, <2>2 DEF Wakeup
    <1> QED  BY <1>1, ConnectionInvariant, PTL
------------------------------------------------------------------------------
\* One place of five.
Places(P, O, I, A, E) ==
    ({"mailbox"} \X P) \union ({"outbox"} \X O) \union ({"icebox"} \X I)
        \union ({"pendingResponses"} \X A) \union ({"ended"} \X E)

InOne(P, O, I, A, E) ==
    \E x : \/ P = {x} /\ O = {} /\ I = {} /\ A = {} /\ E = {}
           \/ P = {} /\ O = {x} /\ I = {} /\ A = {} /\ E = {}
           \/ P = {} /\ O = {} /\ I = {x} /\ A = {} /\ E = {}
           \/ P = {} /\ O = {} /\ I = {} /\ A = {x} /\ E = {}
           \/ P = {} /\ O = {} /\ I = {} /\ A = {} /\ E = {x}

LEMMA OnlyFuture ==
    ASSUME NEW P, NEW O, NEW I, NEW A, NEW E, InOne(P, O, I, A, E)
    PROVE  \E f \in Places(P, O, I, A, E) : Places(P, O, I, A, E) = {f}
    <1> DEFINE F == Places(P, O, I, A, E)
    <1>1. PICK x : \/ P = {x} /\ O = {} /\ I = {} /\ A = {} /\ E = {}
                   \/ P = {} /\ O = {x} /\ I = {} /\ A = {} /\ E = {}
                   \/ P = {} /\ O = {} /\ I = {x} /\ A = {} /\ E = {}
                   \/ P = {} /\ O = {} /\ I = {} /\ A = {x} /\ E = {}
                   \/ P = {} /\ O = {} /\ I = {} /\ A = {} /\ E = {x}
      BY DEF InOne
    <1>2. \A k, y : {k} \X {y} = {<<k, y>>} /\ {k} \X {} = {}
      OBVIOUS
    <1>3. CASE P = {x} /\ O = {} /\ I = {} /\ A = {} /\ E = {}
      <2>1. F = {<<"mailbox", x>>}
        BY <1>2, <1>3 DEF Places
      <2> QED  BY <2>1
    <1>4. CASE P = {} /\ O = {x} /\ I = {} /\ A = {} /\ E = {}
      <2>1. F = {<<"outbox", x>>}
        BY <1>2, <1>4 DEF Places
      <2> QED  BY <2>1
    <1>5. CASE P = {} /\ O = {} /\ I = {x} /\ A = {} /\ E = {}
      <2>1. F = {<<"icebox", x>>}
        BY <1>2, <1>5 DEF Places
      <2> QED  BY <2>1
    <1>6. CASE P = {} /\ O = {} /\ I = {} /\ A = {x} /\ E = {}
      <2>1. F = {<<"pendingResponses", x>>}
        BY <1>2, <1>6 DEF Places
      <2> QED  BY <2>1
    <1>7. CASE P = {} /\ O = {} /\ I = {} /\ A = {} /\ E = {x}
      <2>1. F = {<<"ended", x>>}
        BY <1>2, <1>7 DEF Places
      <2> QED  BY <2>1
    <1> QED  BY <1>1, <1>3, <1>4, <1>5, <1>6, <1>7

Is(m, id) == m.type = "REQ" /\ m.id = id
InMailbox(p, id) == {i \in DOMAIN mailbox[p] : mailbox[p][i].ev = "queueMessage" /\ Is(mailbox[p][i].msg, id)}
InOutbox(p, id) == {i \in DOMAIN outbox[p] : Is(outbox[p][i], id)}
InIcebox(p, id) == {i \in DOMAIN icebox[p] : Is(icebox[p][i], id)}
AmongAwaited(p, id) == {n \in DOMAIN pendingResponses[p] : pendingResponses[p][n].id = id}
EndsOf(p, id) == DOMAIN progress[p][id].ends

\* Places are empty, or have one message, which is nowhere else.
LEMMA PlacesAre ==
    ASSUME ConnInv, NEW p \in Peers, NEW id \in DOMAIN progress[p]
    PROVE  /\ (\E m \in Mine(p) : IsReq(m) /\ m.id = id) <=>
                 InMailbox(p, id) # {} \/ InOutbox(p, id) # {} \/ InIcebox(p, id) # {}
           /\ AmongAwaited(p, id) = IF id \in DOMAIN pendingResponses[p] THEN {id} ELSE {}
           /\ id \in DOMAIN pendingResponses[p] => \A m \in Mine(p) : IsReq(m) => m.id # id
           /\ \A i, j \in InMailbox(p, id) : i = j
           /\ \A i, j \in InOutbox(p, id) : i = j
           /\ \A i, j \in InIcebox(p, id) : i = j
           /\ InMailbox(p, id) = {} \/ (InOutbox(p, id) = {} /\ InIcebox(p, id) = {})
           /\ InOutbox(p, id) = {} \/ InIcebox(p, id) = {}
    <1>1. /\ mailbox[p] \in Seq(Events) /\ Alone(mailbox[p], outbox[p], icebox[p])
          /\ Awaited(Mine(p), lastMessageNo[p], pendingResponses[p])
      BY Typed DEF ConnInv, Connections, Own, Queues, Awaits
    <1>2. \A m : Is(m, id) <=> IsReq(m) /\ m.id = id
      BY DEF Is, IsReq
    <1>3. \A m, x : Is(m, id) /\ Is(x, id) => Twins(m, x)
      BY <1>2 DEF Twins
    <1>4. PICK mb, out, ice : mb = mailbox[p] /\ out = outbox[p] /\ ice = icebox[p]
      OBVIOUS
    <1>5. \A m : m \in Mine(p) <=> m \in PostedIn(mb) \/ m \in ToSet(out) \/ m \in ToSet(ice)
      BY <1>4 DEF Mine, Posted, Held, HeldIn
    <1>6. /\ \A m : m \in ToSet(out) <=> \E i \in DOMAIN out : out[i] = m
          /\ \A m : m \in ToSet(ice) <=> \E i \in DOMAIN ice : ice[i] = m
      BY DEF ToSet
    <1>7. /\ \A i \in DOMAIN mb : mb[i].ev = "queueMessage" => mb[i].msg \in PostedIn(mb)
          /\ \A m \in PostedIn(mb) : \E i \in DOMAIN mb : mb[i].ev = "queueMessage" /\ mb[i].msg = m
      BY <1>1, <1>4, PostedAre
    <1>8. /\ \A i : i \in InMailbox(p, id) <=> i \in DOMAIN mb /\ mb[i].ev = "queueMessage" /\ Is(mb[i].msg, id)
          /\ \A i : i \in InOutbox(p, id) <=> i \in DOMAIN out /\ Is(out[i], id)
          /\ \A i : i \in InIcebox(p, id) <=> i \in DOMAIN ice /\ Is(ice[i], id)
      BY <1>4 DEF InMailbox, InOutbox, InIcebox
    <1>9. (\E m \in Mine(p) : IsReq(m) /\ m.id = id) <=>
             InMailbox(p, id) # {} \/ InOutbox(p, id) # {} \/ InIcebox(p, id) # {}
      <2>1. ASSUME NEW m \in Mine(p), IsReq(m), m.id = id
            PROVE  InMailbox(p, id) # {} \/ InOutbox(p, id) # {} \/ InIcebox(p, id) # {}
        BY <1>2, <1>5, <1>6, <1>7, <1>8, <2>1
      <2>2. ASSUME NEW i \in InMailbox(p, id)  PROVE \E m \in Mine(p) : IsReq(m) /\ m.id = id
        BY <1>2, <1>5, <1>7, <1>8, <2>2
      <2>3. ASSUME NEW i \in InOutbox(p, id)  PROVE \E m \in Mine(p) : IsReq(m) /\ m.id = id
        BY <1>2, <1>5, <1>6, <1>8, <2>3
      <2>4. ASSUME NEW i \in InIcebox(p, id)  PROVE \E m \in Mine(p) : IsReq(m) /\ m.id = id
        BY <1>2, <1>5, <1>6, <1>8, <2>4
      <2> QED  BY <2>1, <2>2, <2>3, <2>4
    <1>10. AmongAwaited(p, id) = IF id \in DOMAIN pendingResponses[p] THEN {id} ELSE {}
      <2>1. \A n \in DOMAIN pendingResponses[p] : pendingResponses[p][n].id = n
        BY <1>1 DEF Awaited
      <2> QED  BY <2>1 DEF AmongAwaited
    <1>11. id \in DOMAIN pendingResponses[p] => \A m \in Mine(p) : IsReq(m) => m.id # id
      BY <1>1 DEF Awaited
    <1>12. Alone(mb, out, ice)
      BY <1>1, <1>4
    <1>13. /\ \A i, j \in InMailbox(p, id) : i = j
           /\ \A i, j \in InOutbox(p, id) : i = j
           /\ \A i, j \in InIcebox(p, id) : i = j
      BY <1>3, <1>8, <1>12 DEF Alone
    <1>14. \A m \in PostedIn(mb), x \in HeldIn(out, ice) : ~(Is(m, id) /\ Is(x, id))
      BY <1>3, <1>12 DEF Alone
    <1>15. InMailbox(p, id) = {} \/ (InOutbox(p, id) = {} /\ InIcebox(p, id) = {})
      <2> SUFFICES ASSUME NEW i \in InMailbox(p, id), NEW j, j \in InOutbox(p, id) \/ j \in InIcebox(p, id)
                   PROVE  FALSE
        OBVIOUS
      <2>1. mb[i].msg \in PostedIn(mb) /\ Is(mb[i].msg, id)
        BY <1>7, <1>8
      <2>2. CASE j \in InOutbox(p, id)
        <3>1. out[j] \in HeldIn(out, ice) /\ Is(out[j], id)
          BY <1>6, <1>8, <2>2 DEF HeldIn
        <3> QED  BY <1>14, <2>1, <3>1
      <2>3. CASE j \in InIcebox(p, id)
        <3>1. ice[j] \in HeldIn(out, ice) /\ Is(ice[j], id)
          BY <1>6, <1>8, <2>3 DEF HeldIn
        <3> QED  BY <1>14, <2>1, <3>1
      <2> QED  BY <2>2, <2>3
    <1>16. InOutbox(p, id) = {} \/ InIcebox(p, id) = {}
      <2> SUFFICES ASSUME NEW i \in InOutbox(p, id), NEW j \in InIcebox(p, id)
                   PROVE  FALSE
        OBVIOUS
      <2>1. out[i] \in ToSet(out) /\ ice[j] \in ToSet(ice) /\ Is(out[i], id) /\ Is(ice[j], id)
        BY <1>6, <1>8
      <2> QED  BY <1>3, <1>12, <2>1 DEF Alone
    <1> QED  BY <1>9, <1>10, <1>11, <1>13, <1>15, <1>16

\* A request that wants a reply has one future, or none if it was lost.
LEMMA FutureIs ==
    ASSUME ConnInv, NEW p \in Peers, NEW id \in DOMAIN progress[p], ~progress[p][id].noReply
    PROVE  /\ Futures(p, id) = {} \/ \E f \in Futures(p, id) : Futures(p, id) = {f}
           /\ NotLost(p) => Futures(p, id) # {}
    <1>1. PICK P, O, I, A, E :
             /\ P = InMailbox(p, id) /\ O = InOutbox(p, id) /\ I = InIcebox(p, id)
             /\ A = AmongAwaited(p, id) /\ E = EndsOf(p, id)
      OBVIOUS
    <1>2. Futures(p, id) = Places(P, O, I, A, E)
      BY <1>1 DEF Futures, Places, InMailbox, InOutbox, InIcebox, AmongAwaited, EndsOf, Is
    <1>3. /\ (\E m \in Mine(p) : IsReq(m) /\ m.id = id) <=> P # {} \/ O # {} \/ I # {}
          /\ A = IF id \in DOMAIN pendingResponses[p] THEN {id} ELSE {}
          /\ id \in DOMAIN pendingResponses[p] => \A m \in Mine(p) : IsReq(m) => m.id # id
          /\ \A i, j \in P : i = j
          /\ \A i, j \in O : i = j
          /\ \A i, j \in I : i = j
          /\ P = {} \/ (O = {} /\ I = {})
          /\ O = {} \/ I = {}
      BY <1>1, PlacesAre
    <1>4. /\ E = {} \/ E = {1}
          /\ E # {} => id \notin DOMAIN pendingResponses[p] /\ \A m \in Mine(p) : IsReq(m) => m.id # id
          /\ E = {} => progress[p][id].ends = <<>>
      <2>1. PICK ends : ends = progress[p][id].ends
        OBVIOUS
      <2>2. ends \in Seq({"complete", "disconnected"})
        <3>1. progress[p] \in Seq(Requests)
          BY Typed DEF ConnInv
        <3>2. progress[p][id] \in Requests
          BY <3>1
        <3> QED  BY <2>1, <3>2 DEF Requests
      <2>3. /\ Len(ends) <= 1
            /\ ends # <<>> => id \notin DOMAIN pendingResponses[p] /\ \A m \in Mine(p) : IsReq(m) => m.id # id
        BY <2>1 DEF ConnInv, Connections, Own, NotTwice
      <2>4. E = 1..Len(ends) /\ Len(ends) \in Nat
        BY <1>1, <2>1, <2>2 DEF EndsOf
      <2>5. CASE Len(ends) = 0
        <3>1. ends = <<>> /\ E = {}
          BY <2>2, <2>4, <2>5
        <3> QED  BY <2>1, <3>1
      <2>6. CASE Len(ends) = 1
        <3>1. ends # <<>> /\ E = {1}
          BY <2>2, <2>4, <2>6
        <3> QED  BY <2>1, <2>3, <3>1
      <2> QED  BY <2>3, <2>4, <2>5, <2>6
    <1>5. \A S : (\A i, j \in S : i = j) /\ S # {} => \E x : S = {x}
      <2> TAKE S
      <2> SUFFICES ASSUME \A i, j \in S : i = j, S # {}  PROVE \E x : S = {x}
        OBVIOUS
      <2>1. PICK x : x \in S
        OBVIOUS
      <2>2. \A y : y \in S <=> y \in {x}
        BY <2>1
      <2>3. S = {x}
        BY <2>2
      <2> QED  BY <2>3
    <1>6. (P = {} /\ O = {} /\ I = {} /\ A = {} /\ E = {}) \/ InOne(P, O, I, A, E)
      <2>1. CASE E # {}
        BY <1>3, <1>4, <2>1 DEF InOne
      <2>2. CASE E = {} /\ A # {}
        BY <1>3, <1>4, <2>2 DEF InOne
      <2>3. CASE E = {} /\ A = {} /\ P # {}
        <3>1. PICK x : P = {x}
          BY <1>3, <1>5, <2>3
        <3> QED  BY <1>3, <2>3, <3>1 DEF InOne
      <2>4. CASE E = {} /\ A = {} /\ O # {}
        <3>1. PICK x : O = {x}
          BY <1>3, <1>5, <2>4
        <3> QED  BY <1>3, <2>4, <3>1 DEF InOne
      <2>5. CASE E = {} /\ A = {} /\ I # {}
        <3>1. PICK x : I = {x}
          BY <1>3, <1>5, <2>5
        <3> QED  BY <1>3, <2>5, <3>1 DEF InOne
      <2> QED  BY <2>1, <2>2, <2>3, <2>4, <2>5
    <1>7. \A k : {k} \X {} = {}
      OBVIOUS
    <1>8. Futures(p, id) = {} \/ \E f \in Futures(p, id) : Futures(p, id) = {f}
      <2>1. CASE P = {} /\ O = {} /\ I = {} /\ A = {} /\ E = {}
        BY <1>2, <1>7, <2>1 DEF Places
      <2>2. CASE InOne(P, O, I, A, E)
        BY <1>2, <2>2, OnlyFuture
      <2> QED  BY <1>6, <2>1, <2>2
    <1>9. ASSUME NotLost(p)  PROVE Futures(p, id) # {}
      <2>1. P # {} \/ O # {} \/ I # {} \/ A # {} \/ E # {}
        BY <1>3, <1>4, <1>9 DEF NotLost
      <2>2. \A k, y, S : y \in S => <<k, y>> \in {k} \X S
        OBVIOUS
      <2>3. PICK y : y \in P \/ y \in O \/ y \in I \/ y \in A \/ y \in E
        BY <2>1
      <2>4. \/ <<"mailbox", y>> \in {"mailbox"} \X P
            \/ <<"outbox", y>> \in {"outbox"} \X O
            \/ <<"icebox", y>> \in {"icebox"} \X I
            \/ <<"pendingResponses", y>> \in {"pendingResponses"} \X A
            \/ <<"ended", y>> \in {"ended"} \X E
        BY <2>2, <2>3
      <2>5. \E f : f \in Futures(p, id)
        BY <1>2, <2>4 DEF Places
      <2> QED  BY <2>5
    <1> QED  BY <1>8, <1>9

(***************************************************************************)
(* The progress handler of a request that wants a reply is never called    *)
(* with a final state twice, nor while the request still waits somewhere,  *)
(* nor does the request wait in two places: also when handlers throw.      *)
(***************************************************************************)
THEOREM AtMostOneFuture ==
    Spec => [](\A p \in Peers : \A id \in DOMAIN progress[p] :
                  ~progress[p][id].noReply => \A f, g \in Futures(p, id) : f = g)
    <1>1. ConnInv => \A p \in Peers : \A id \in DOMAIN progress[p] :
                        ~progress[p][id].noReply => \A f, g \in Futures(p, id) : f = g
      BY FutureIs
    <1> QED  BY <1>1, ConnectionInvariant, PTL

(***************************************************************************)
(* Every request that wants a reply has exactly one future, so that no     *)
(* request is forgotten by _closed, _queueMessage or receivedFrame, unless *)
(* an exception is thrown for the last frame of an error response: then    *)
(* receivedFrame does not put it back (BLIPConnection.cc:450).             *)
(***************************************************************************)
THEOREM RequestsAreNotLost ==
    ASSUME ~ErrorsMayThrow
    PROVE  Spec => []OneFuture
    <1>1. ConnInv => OneFuture
      <2> SUFFICES ASSUME ConnInv, NEW p \in Peers, NEW id \in DOMAIN progress[p], ~progress[p][id].noReply
                   PROVE  \E f \in Futures(p, id) : Futures(p, id) = {f}
        BY DEF OneFuture
      <2>1. NotLost(p)
        BY DEF ConnInv, Connections, Own
      <2> QED  BY <2>1, FutureIs
    <1> QED  BY <1>1, ConnectionInvariant, PTL
==============================================================================
