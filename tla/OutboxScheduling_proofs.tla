---------------------- MODULE OutboxScheduling_proofs ----------------------
(***************************************************************************)
(* Proofs about OutboxScheduling and the queue it is about, of any length: *)
(* requeue follows the rule of the protocol description, and no message is *)
(* lost or doubled by it.                                                  *)
(***************************************************************************)
EXTENDS OutboxScheduling, WellFoundedInduction, SequenceTheorems, TLAPS

(***************************************************************************)
(* A set of numbers has a least element ...                                *)
(***************************************************************************)
LEMMA Least ==
    ASSUME NEW T \in SUBSET Nat, T # {}
    PROVE  \E x \in T : \A y \in T : x <= y
    <1>1. PICK x \in T : \A y \in T : ~(<<y, x>> \in OpToRel(<, Nat))
      BY NatLessThanWellFounded, WFMin, Zenon
    <1>2. \A y \in T : ~(y < x)
      BY <1>1 DEF OpToRel
    <1> QED  BY <1>2

(***************************************************************************)
(* ... if it is bounded it has a greatest one ...                          *)
(***************************************************************************)
LEMMA Greatest ==
    ASSUME NEW n \in Nat, NEW T \in SUBSET (1..n), T # {}
    PROVE  \E x \in T : \A y \in T : x >= y
    <1> DEFINE U == {n - x : x \in T}
    <1>1. U \in SUBSET Nat /\ U # {}
      <2>1. \A x \in T : n - x \in Nat
        OBVIOUS
      <2> QED  BY <2>1
    <1>2. PICK u \in U : \A v \in U : u <= v
      BY <1>1, Least
    <1>3. PICK x \in T : u = n - x
      OBVIOUS
    <1>4. ASSUME NEW y \in T PROVE x >= y
      <2>1. n - y \in U
        OBVIOUS
      <2>2. n - x <= n - y
        BY <1>2, <1>3, <2>1
      <2> QED  BY <2>2
    <1> QED  BY <1>4

(***************************************************************************)
(* ... and Max ...                                                         *)
(***************************************************************************)
LEMMA MaxIs ==
    ASSUME NEW T \in SUBSET Nat, NEW x \in T, \A y \in T : x >= y
    PROVE  Max(T) = x
    <1>1. \A z \in T : (\A y \in T : z >= y) => z = x
      OBVIOUS
    <1> QED  BY <1>1 DEF Max

(***************************************************************************)
(* ... and Min find them.                                                  *)
(***************************************************************************)
LEMMA MinIs ==
    ASSUME NEW T \in SUBSET Nat, NEW x \in T, \A y \in T : x <= y
    PROVE  Min(T) = x
    <1>1. \A z \in T : (\A y \in T : z <= y) => z = x
      OBVIOUS
    <1> QED  BY <1>1 DEF Min

(***************************************************************************)
(* What InsertAt does to a queue: the others keep their order.             *)
(***************************************************************************)
LEMMA Inserted ==
    ASSUME NEW S, NEW s \in Seq(S), NEW e \in S, NEW i \in 1..Len(s) + 1
    PROVE  /\ InsertAt(s, i, e) \in Seq(S)
           /\ Len(InsertAt(s, i, e)) = Len(s) + 1
           /\ InsertAt(s, i, e)[i] = e
           /\ \A j \in 1..Len(s) :
                  InsertAt(s, i, e)[IF j < i THEN j ELSE j + 1] = s[j]
    <1> DEFINE a == SubSeq(s, 1, i - 1)
               b == SubSeq(s, i, Len(s))
    <1>1. Len(s) \in Nat /\ i \in Nat /\ i >= 1 /\ i <= Len(s) + 1
      OBVIOUS
    <1>2. /\ a \in Seq(S) /\ Len(a) = i - 1
          /\ \A j \in 1..i - 1 : a[j] = s[j]
      BY <1>1
    <1>3. /\ b \in Seq(S) /\ Len(b) = Len(s) - i + 1
          /\ \A j \in 1..Len(s) - i + 1 : b[j] = s[i + j - 1]
      BY <1>1
    <1>4. InsertAt(s, i, e) = (a \o <<e>>) \o b
      BY DEF InsertAt
    <1> HIDE DEF a, b
    <1> DEFINE c == a \o <<e>>
    <1>5. /\ c \in Seq(S) /\ Len(c) = i /\ c[i] = e
          /\ \A j \in 1..i - 1 : c[j] = a[j]
      BY <1>1, <1>2
    <1> HIDE DEF c
    <1>6. /\ c \o b \in Seq(S) /\ Len(c \o b) = Len(s) + 1
          /\ \A j \in 1..i : (c \o b)[j] = c[j]
          /\ \A j \in 1..Len(s) - i + 1 : (c \o b)[i + j] = b[j]
      BY <1>1, <1>3, <1>5
    <1>7. InsertAt(s, i, e) = c \o b
      BY <1>4 DEF c
    <1>8. ASSUME NEW j \in 1..Len(s) PROVE (c \o b)[IF j < i THEN j ELSE j + 1] = s[j]
      <2>1. CASE j < i
        BY <1>1, <1>2, <1>5, <1>6, <2>1
      <2>2. CASE ~(j < i)
        <3>1. j - i + 1 \in 1..Len(s) - i + 1 /\ i + (j - i + 1) = j + 1 /\ i + (j - i + 1) - 1 = j
          BY <1>1, <2>2
        <3>2. (c \o b)[i + (j - i + 1)] = b[j - i + 1] /\ b[j - i + 1] = s[i + (j - i + 1) - 1]
          BY <1>3, <1>6, <3>1
        <3> QED  BY <2>2, <3>1, <3>2
      <2> QED  BY <2>1, <2>2
    <1>9. (c \o b)[i] = e
      BY <1>1, <1>5, <1>6
    <1> QED  BY <1>6, <1>7, <1>8, <1>9

(***************************************************************************)
(* To insert behind the last one is to append.                             *)
(***************************************************************************)
LEMMA InsertedLast ==
    ASSUME NEW S, NEW s \in Seq(S), NEW e \in S
    PROVE  InsertAt(s, Len(s) + 1, e) = Append(s, e)
    <1>1. SubSeq(s, 1, Len(s)) = s /\ SubSeq(s, Len(s) + 1, Len(s)) = <<>>
      BY SubSeqFull, SubSeqEmpty
    <1>2. InsertAt(s, Len(s) + 1, e) = SubSeq(s, 1, Len(s) + 1 - 1) \o <<e>> \o SubSeq(s, Len(s) + 1, Len(s))
      BY DEF InsertAt
    <1>3. Len(s) + 1 - 1 = Len(s)
      OBVIOUS
    <1>4. InsertAt(s, Len(s) + 1, e) = (s \o <<e>>) \o <<>>
      BY <1>1, <1>2, <1>3
    <1> QED  BY <1>4, ConcatEmptySeq, AppendIsConcat

(***************************************************************************)
(* The messages that may not be overtaken; the backward scan stops at the  *)
(* last of them.                                                           *)
(***************************************************************************)
NotOvertaken(queue, msg) ==
    {k \in 1..Len(queue) : queue[k].urgent \/ (msg.bytesSent = 0 /\ queue[k].bytesSent = 0)}

\* The scan finds the last one of the set, or 0 if there is none.
LEMMA ScanStops ==
    ASSUME NEW S, NEW queue \in Seq(S), NEW msg
    PROVE  LET k == LastNotOvertaken(queue, msg)
           IN  \/ k = 0 /\ NotOvertaken(queue, msg) = {}
               \/ /\ k \in NotOvertaken(queue, msg)
                  /\ \A j \in NotOvertaken(queue, msg) : j <= k
    <1> DEFINE W == NotOvertaken(queue, msg)
    <1>1. LastNotOvertaken(queue, msg) = IF W # {} THEN Max(W) ELSE 0
      BY DEF LastNotOvertaken, SelectLastInSeq, NotOvertaken
    <1>2. Len(queue) \in Nat /\ W \in SUBSET (1..Len(queue)) /\ W \in SUBSET Nat
      BY DEF NotOvertaken
    <1> HIDE DEF W
    <1>3. CASE W = {}
      BY <1>1, <1>3 DEF W
    <1>4. CASE W # {}
      <2>1. PICK x \in W : \A y \in W : x >= y
        BY <1>2, <1>4, Greatest
      <2>2. LastNotOvertaken(queue, msg) = x
        BY <1>1, <1>2, <1>4, <2>1, MaxIs
      <2>3. \A y \in W : y <= x
        BY <1>2, <2>1
      <2> QED  BY <2>2, <2>3 DEF W
    <1> QED  BY <1>3, <1>4

(***************************************************************************)
(* The last of the messages that the protocol description puts an urgent   *)
(* message behind, from the last one that is urgent or, for a new message, *)
(* not begun.                                                              *)
(***************************************************************************)
LEMMA PlaceOfUrgent ==
    ASSUME NEW S, NEW queue \in Seq(S), NEW msg, msg.urgent,
           NEW k \in 0..Len(queue), NEW place \in 0..Len(queue),
           \/ k = 0 /\ NotOvertaken(queue, msg) = {} /\ place = IF queue = <<>> THEN 0 ELSE 1
           \/ /\ k \in NotOvertaken(queue, msg) /\ \A j \in NotOvertaken(queue, msg) : j <= k
              /\ place = IF queue[k].urgent /\ k < Len(queue) THEN k + 1 ELSE k
    PROVE  DocumentedPlace(queue, msg) = place
    <1> DEFINE n == Len(queue)
               urgents == {j \in DOMAIN queue : queue[j].urgent}
               unbegun == {j \in DOMAIN queue : queue[j].bytesSent = 0}
               normalAfter == {j \in DOMAIN queue : ~queue[j].urgent /\ \A u \in urgents : u < j}
               behind == (IF normalAfter # {} THEN {Min(normalAfter)} ELSE urgents)
                             \union (IF msg.bytesSent = 0 THEN unbegun ELSE {})
    <1>1. DocumentedPlace(queue, msg) = IF behind = {} THEN 0 ELSE Max(behind)
      BY DEF DocumentedPlace
    <1>2. n \in Nat /\ DOMAIN queue = 1..n
      OBVIOUS
    <1>3. /\ urgents \subseteq 1..n /\ unbegun \subseteq 1..n /\ normalAfter \subseteq 1..n
          /\ \A j \in normalAfter : j \notin urgents
      BY <1>2
    <1>4. NotOvertaken(queue, msg) = urgents \union (IF msg.bytesSent = 0 THEN unbegun ELSE {})
      BY <1>2 DEF NotOvertaken
    <1>5. \A j \in 1..n : (\A u \in urgents : u < j) <=> (j \in normalAfter)
      BY <1>2, <1>3
    <1> HIDE DEF n, urgents, unbegun, normalAfter, behind
    <1>6. ASSUME NEW m \in normalAfter, \A j \in normalAfter : m <= j
          PROVE  Min(normalAfter) = m
      BY <1>3, <1>6, MinIs
    <1>7. ASSUME behind \subseteq 1..n, place \in behind, \A j \in behind : place >= j
          PROVE  DocumentedPlace(queue, msg) = place
      BY <1>1, <1>7, MaxIs
    <1>8. CASE k = 0 /\ NotOvertaken(queue, msg) = {} /\ queue = <<>>
      <2>1. n = 0
        BY <1>8 DEF n
      <2>2. urgents = {} /\ unbegun = {} /\ normalAfter = {}
        BY <1>3, <2>1
      <2>3. behind = {}
        BY <2>2 DEF behind
      <2> QED  BY <1>1, <1>8, <2>3
    <1>9. CASE k = 0 /\ NotOvertaken(queue, msg) = {} /\ queue # <<>>
      <2>1. n >= 1 /\ place = 1
        BY <1>2, <1>9, EmptySeq DEF n
      <2>2. urgents = {} /\ (msg.bytesSent = 0 => unbegun = {})
        BY <1>4, <1>9
      <2>3. 1 \in normalAfter /\ \A j \in normalAfter : 1 <= j
        BY <1>2, <1>3, <1>5, <2>1, <2>2
      <2>4. behind = {1}
        BY <1>6, <2>2, <2>3 DEF behind
      <2> QED  BY <1>2, <1>7, <2>1, <2>4
    <1>10. ASSUME k \in NotOvertaken(queue, msg), \A j \in NotOvertaken(queue, msg) : j <= k
           PROVE  /\ k \in 1..n /\ (\A u \in urgents : u <= k)
                  /\ msg.bytesSent = 0 => \A u \in unbegun : u <= k
                  /\ k \in urgents \/ (msg.bytesSent = 0 /\ k \in unbegun)
      BY <1>3, <1>4, <1>10
    <1>11. CASE /\ k \in NotOvertaken(queue, msg) /\ \A j \in NotOvertaken(queue, msg) : j <= k
                /\ queue[k].urgent /\ k < n
      <2>1. k \in urgents /\ place = k + 1 /\ k + 1 \in 1..n
        BY <1>2, <1>10, <1>11 DEF n, urgents
      <2>2. k + 1 \in normalAfter /\ \A j \in normalAfter : k + 1 <= j
        <3>1. \A u \in urgents : u < k + 1
          BY <1>2, <1>3, <1>10, <1>11
        <3>2. \A j \in normalAfter : k < j
          BY <1>3, <1>5, <2>1
        <3> QED  BY <1>2, <1>3, <1>5, <1>10, <1>11, <2>1, <3>1, <3>2
      <2>3. behind = {k + 1} \union (IF msg.bytesSent = 0 THEN unbegun ELSE {})
        BY <1>6, <2>2 DEF behind
      <2>4. \A j \in behind : k + 1 >= j
        BY <1>2, <1>3, <1>10, <1>11, <2>1, <2>3
      <2> QED  BY <1>3, <1>7, <2>1, <2>3, <2>4
    <1>12. CASE /\ k \in NotOvertaken(queue, msg) /\ \A j \in NotOvertaken(queue, msg) : j <= k
                /\ queue[k].urgent /\ ~(k < n)
      <2>1. k \in urgents /\ place = k /\ k = n
        <3>1. k \in urgents /\ k \in 1..n
          BY <1>2, <1>10, <1>12 DEF urgents
        <3>2. k = n
          BY <1>2, <1>12, <3>1
        <3>3. place = k
          BY <1>12, <3>1 DEF n
        <3> QED  BY <3>1, <3>2, <3>3
      <2>2. normalAfter = {}
        BY <1>2, <1>3, <1>5, <2>1
      <2>3. behind = urgents \union (IF msg.bytesSent = 0 THEN unbegun ELSE {})
        BY <2>2 DEF behind
      <2> QED  BY <1>3, <1>7, <1>10, <1>12, <2>1, <2>3
    <1>13. CASE /\ k \in NotOvertaken(queue, msg) /\ \A j \in NotOvertaken(queue, msg) : j <= k
                /\ ~queue[k].urgent
      <2>1. k \notin urgents /\ msg.bytesSent = 0 /\ k \in unbegun /\ place = k /\ k \in 1..n
        BY <1>2, <1>10, <1>13 DEF urgents
      <2>2. \A u \in urgents : u < k
        BY <1>3, <1>10, <1>13, <2>1
      <2>3. k \in normalAfter
        BY <1>5, <2>1, <2>2
      <2>4. normalAfter \in SUBSET Nat /\ normalAfter # {}
        BY <1>2, <1>3, <2>3
      <2>5. PICK m \in normalAfter : \A j \in normalAfter : m <= j
        BY <2>4, Least
      <2>6. behind = {m} \union unbegun /\ m <= k
        BY <1>6, <2>1, <2>3, <2>5 DEF behind
      <2>7. \A j \in behind : k >= j
        BY <1>2, <1>3, <1>10, <1>13, <2>1, <2>6
      <2> QED  BY <1>3, <1>7, <2>1, <2>6, <2>7
    <1> QED  BY <1>8, <1>9, <1>11, <1>12, <1>13 DEF n

(***************************************************************************)
(* requeue, which scans the queue backwards, is the rule of the protocol   *)
(* description ("BLIP Protocol.md":97), which looks forwards: for every  *)
(* queue, of any length, and every message, whatever its other fields.     *)
(***************************************************************************)
THEOREM RequeueIsDocumented ==
    ASSUME NEW S, NEW queue \in Seq(S), NEW msg \in S, msg.urgent \in BOOLEAN
    PROVE  /\ requeue(queue, msg) = InsertAt(queue, DocumentedPlace(queue, msg) + 1, msg)
           /\ DocumentedPlace(queue, msg) \in 0..Len(queue)
    <1>1. Len(queue) \in Nat
      OBVIOUS
    <1>2. CASE ~msg.urgent
      <2>1. DocumentedPlace(queue, msg) = Len(queue)
        BY <1>2 DEF DocumentedPlace
      <2>2. requeue(queue, msg) = Append(queue, msg)
        BY <1>2 DEF requeue
      <2> QED  BY <1>1, <2>1, <2>2, InsertedLast
    <1>3. CASE msg.urgent
      <2>1. PICK k : k = LastNotOvertaken(queue, msg)
        OBVIOUS
      <2>2. \/ k = 0 /\ NotOvertaken(queue, msg) = {}
            \/ k \in NotOvertaken(queue, msg) /\ \A j \in NotOvertaken(queue, msg) : j <= k
        BY <2>1, ScanStops
      <2>3. k \in 0..Len(queue) /\ (k \in NotOvertaken(queue, msg) => k >= 1)
        BY <1>1, <2>2 DEF NotOvertaken
      <2> DEFINE place == IF k = 0 THEN IF queue = <<>> THEN 0 ELSE 1
                          ELSE IF queue[k].urgent /\ k < Len(queue) THEN k + 1 ELSE k
      <2>4. place \in 0..Len(queue)
        BY <1>1, <2>3, EmptySeq
      <2>5. DocumentedPlace(queue, msg) = place
        <3>1. \/ k = 0 /\ NotOvertaken(queue, msg) = {} /\ place = IF queue = <<>> THEN 0 ELSE 1
              \/ /\ k \in NotOvertaken(queue, msg) /\ \A j \in NotOvertaken(queue, msg) : j <= k
                 /\ place = IF queue[k].urgent /\ k < Len(queue) THEN k + 1 ELSE k
          BY <2>2, <2>3
        <3> HIDE DEF place
        <3> QED  BY <1>3, <2>3, <2>4, <3>1, PlaceOfUrgent
      <2>6. CASE Len(queue) > 1
        <3>1. requeue(queue, msg) =
                  InsertAt(queue, (IF k = 0 THEN 1
                                   ELSE IF queue[k].urgent /\ k < Len(queue) THEN k + 1 ELSE k) + 1, msg)
          BY <1>3, <2>1, <2>6 DEF requeue
        <3>2. queue # <<>>
          BY <2>6
        <3> QED  BY <2>4, <2>5, <3>1, <3>2
      <2>7. CASE ~(Len(queue) > 1)
        <3>1. requeue(queue, msg) = Append(queue, msg)
          BY <2>7 DEF requeue
        <3>2. place = Len(queue)
          <4>1. CASE Len(queue) = 0
            <5>1. k = 0 /\ queue = <<>>
              BY <1>1, <2>3, <4>1, EmptySeq
            <5> QED  BY <4>1, <5>1
          <4>2. CASE Len(queue) = 1
            <5>1. queue # <<>> /\ k \in {0, 1}
              BY <2>3, <4>2
            <5> QED  BY <4>2, <5>1
          <4>3. \A n \in Nat : n > 1 \/ n = 0 \/ n = 1
            OBVIOUS
          <4> QED  BY <1>1, <2>7, <4>1, <4>2, <4>3, Zenon
        <3> HIDE DEF place
        <3> QED  BY <2>4, <2>5, <3>1, <3>2, InsertedLast
      <2> QED  BY <2>6, <2>7
    <1> QED  BY <1>2, <1>3
-----------------------------------------------------------------------------
(***************************************************************************)
(* The fields of a message.                                                *)
(***************************************************************************)
LEMMA MessageFields ==
    /\ \A u \in BOOLEAN, b \in {0, 1}, o \in BOOLEAN : Message(u, b, o) \in Messages
    /\ \A m \in Messages : /\ m.urgent \in BOOLEAN /\ m.old \in BOOLEAN
                            /\ [m EXCEPT !.bytesSent = 1] = Message(m.urgent, 1, m.old)
    BY DEF Messages, Message

(***************************************************************************)
(* A message that is put back is the only one the queue gains.             *)
(***************************************************************************)
LEMMA Requeued ==
    ASSUME NEW queue \in Seq(Messages), NEW msg \in Messages
    PROVE  /\ requeue(queue, msg) \in Seq(Messages)
           /\ Len(requeue(queue, msg)) = Len(queue) + 1
           /\ \E i \in 1..Len(queue) + 1 : requeue(queue, msg)[i] = msg
           /\ \A j \in 1..Len(queue) : \E i \in 1..Len(queue) + 1 : requeue(queue, msg)[i] = queue[j]
    <1>1. msg.urgent \in BOOLEAN /\ Len(queue) \in Nat
      BY DEF Messages
    <1>2. PICK i : i = DocumentedPlace(queue, msg) + 1
      OBVIOUS
    <1>3. i \in 1..Len(queue) + 1 /\ requeue(queue, msg) = InsertAt(queue, i, msg)
      BY <1>1, <1>2, RequeueIsDocumented
    <1>4. PICK new : new = requeue(queue, msg)
      OBVIOUS
    <1>5. /\ new \in Seq(Messages) /\ Len(new) = Len(queue) + 1 /\ new[i] = msg
          /\ \A j \in 1..Len(queue) : new[IF j < i THEN j ELSE j + 1] = queue[j]
      BY <1>3, <1>4, Inserted
    <1>6. \A j \in 1..Len(queue) : (IF j < i THEN j ELSE j + 1) \in 1..Len(queue) + 1
      BY <1>1, <1>3
    <1> QED  BY <1>3, <1>4, <1>5, <1>6

(***************************************************************************)
(* The inductive invariant: the outbox always holds the old message, so    *)
(* that the last frame of another one never empties it.                    *)
(***************************************************************************)
OldStays == \E i \in 1..Len(outbox) : outbox[i].old
OutboxInv == TypeOK /\ OldStays

(***************************************************************************)
(* What the front of the outbox leaves behind.                             *)
(***************************************************************************)
LEMMA Fronted ==
    ASSUME TypeOK
    PROVE  /\ outbox \in Seq(Messages) /\ Len(outbox) \in Nat /\ Len(outbox) >= 1
           /\ Head(outbox) \in Messages /\ Head(outbox) = outbox[1]
           /\ Tail(outbox) \in Seq(Messages) /\ Len(Tail(outbox)) = Len(outbox) - 1
           /\ \A j \in 1..Len(outbox) : j = 1 \/ \E k \in 1..Len(outbox) - 1 : Tail(outbox)[k] = outbox[j]
    <1>1. outbox \in Seq(Messages) /\ Len(outbox) \in Nat /\ Len(outbox) >= 1 /\ outbox # <<>>
      BY DepthAssumption DEF TypeOK
    <1>2. /\ Head(outbox) \in Messages /\ Tail(outbox) \in Seq(Messages)
          /\ Len(Tail(outbox)) = Len(outbox) - 1
          /\ \A k \in 1..Len(Tail(outbox)) : Tail(outbox)[k] = outbox[k + 1]
      BY <1>1, HeadTailProperties
    <1>3. Head(outbox) = outbox[1]
      BY <1>1
    <1>4. ASSUME NEW j \in 1..Len(outbox), j # 1
          PROVE  \E k \in 1..Len(outbox) - 1 : Tail(outbox)[k] = outbox[j]
      <2>1. j - 1 \in 1..Len(outbox) - 1 /\ (j - 1) + 1 = j
        BY <1>1, <1>4
      <2> QED  BY <1>2, <2>1
    <1> QED  BY <1>1, <1>2, <1>3, <1>4

(***************************************************************************)
(* The outbox never runs over or empty, however messages come and go.      *)
(***************************************************************************)
THEOREM OutboxInvariant == Spec => []OutboxInv
    <1>1. Init => OutboxInv
      <2> SUFFICES ASSUME Init PROVE OutboxInv
        OBVIOUS
      <2>1. PICK msg : msg \in Messages /\ outbox = <<msg>> /\ msg.old
        <3>1. PICK u \in BOOLEAN : outbox = <<Message(u, 0, TRUE)>>
          BY DEF Init
        <3>2. Message(u, 0, TRUE) \in Messages /\ Message(u, 0, TRUE).old
          BY MessageFields DEF Message
        <3> QED  BY <3>1, <3>2
      <2>2. popped \in Messages
        BY MessageFields DEF Init
      <2>3. outbox \in Seq(Messages) /\ Len(outbox) = 1 /\ outbox[1] = msg
        BY <2>1
      <2> QED  BY <2>1, <2>2, <2>3, DepthAssumption DEF OutboxInv, TypeOK, OldStays
    <1>2. OutboxInv /\ [Next]_vars => OutboxInv'
      <2> SUFFICES ASSUME OutboxInv, [Next]_vars PROVE OutboxInv'
        OBVIOUS
      <2>1. /\ outbox \in Seq(Messages) /\ Len(outbox) \in Nat /\ Len(outbox) >= 1
            /\ Len(outbox) <= MaxDepth /\ MaxDepth \in Nat /\ popped \in Messages
        BY Fronted, DepthAssumption DEF OutboxInv, TypeOK
      <2>2. PICK o \in 1..Len(outbox) : outbox[o].old
        BY DEF OutboxInv, OldStays
      <2>3. ASSUME NEW urgent \in BOOLEAN, Submit(urgent) PROVE OutboxInv'
        <3>1. PICK msg \in Messages : msg = Message(urgent, 0, FALSE)
          BY MessageFields
        <3>2. outbox' = requeue(outbox, msg) /\ Len(outbox) < MaxDepth /\ popped' = popped
          BY <2>3, <3>1 DEF Submit
        <3>3. /\ outbox' \in Seq(Messages) /\ Len(outbox') = Len(outbox) + 1
              /\ \E i \in 1..Len(outbox) + 1 : outbox'[i] = outbox[o]
          BY <2>1, <3>2, Requeued
        <3> QED  BY <2>1, <2>2, <3>2, <3>3 DEF OutboxInv, TypeOK, OldStays
      <2>4. CASE SendMore
        <3>1. PICK rest : rest = Tail(outbox)
          OBVIOUS
        <3>2. PICK msg : msg = [Head(outbox) EXCEPT !.bytesSent = 1]
          OBVIOUS
        <3>3. /\ rest \in Seq(Messages) /\ Len(rest) = Len(outbox) - 1
              /\ \A j \in 1..Len(outbox) : j = 1 \/ \E k \in 1..Len(rest) : rest[k] = outbox[j]
              /\ Head(outbox) \in Messages /\ Head(outbox) = outbox[1]
          BY <3>1, Fronted DEF OutboxInv
        <3>4. msg \in Messages /\ msg.old = outbox[1].old
          <4>1. msg = Message(outbox[1].urgent, 1, outbox[1].old)
            BY <3>2, <3>3, MessageFields
          <4>2. outbox[1].urgent \in BOOLEAN /\ outbox[1].old \in BOOLEAN
            BY <3>3, MessageFields
          <4> QED  BY <4>1, <4>2, MessageFields DEF Message
        <3>5. outbox' = requeue(rest, msg) /\ popped' = Head(outbox)
          BY <2>4, <3>1, <3>2 DEF SendMore
        <3>6. /\ outbox' \in Seq(Messages) /\ Len(outbox') = Len(rest) + 1
              /\ \E i \in 1..Len(rest) + 1 : outbox'[i] = msg
              /\ \A k \in 1..Len(rest) : \E i \in 1..Len(rest) + 1 : outbox'[i] = rest[k]
          BY <3>3, <3>4, <3>5, Requeued
        <3>7. Len(outbox') = Len(outbox)
          BY <2>1, <3>3, <3>6
        <3>8. OldStays'
          <4>1. CASE o = 1
            BY <2>2, <3>4, <3>6, <4>1 DEF OldStays
          <4>2. CASE o # 1
            <5>1. PICK k \in 1..Len(rest) : rest[k] = outbox[o]
              BY <3>3, <4>2
            <5>2. PICK i \in 1..Len(rest) + 1 : outbox'[i] = rest[k]
              BY <3>6
            <5> QED  BY <2>2, <3>6, <5>1, <5>2 DEF OldStays
          <4> QED  BY <4>1, <4>2
        <3> QED  BY <2>1, <3>3, <3>5, <3>6, <3>7, <3>8 DEF OutboxInv, TypeOK
      <2>5. CASE SendLast
        <3>1. PICK rest : rest = Tail(outbox)
          OBVIOUS
        <3>2. /\ rest \in Seq(Messages) /\ Len(rest) = Len(outbox) - 1
              /\ \A j \in 1..Len(outbox) : j = 1 \/ \E k \in 1..Len(rest) : rest[k] = outbox[j]
              /\ Head(outbox) \in Messages /\ Head(outbox) = outbox[1]
          BY <3>1, Fronted DEF OutboxInv
        <3>3. outbox' = rest /\ popped' = Head(outbox) /\ ~Head(outbox).old
          BY <2>5, <3>1 DEF SendLast
        <3>4. PICK k \in 1..Len(rest) : rest[k] = outbox[o]
          BY <2>2, <3>2, <3>3
        <3>5. Len(rest) \in 1..MaxDepth
          BY <2>1, <3>2, <3>4
        <3> QED  BY <2>2, <3>2, <3>3, <3>4, <3>5 DEF OutboxInv, TypeOK, OldStays
      <2>6. CASE UNCHANGED vars
        BY <2>6 DEF vars, OutboxInv, TypeOK, OldStays
      <2> QED  BY <2>3, <2>4, <2>5, <2>6 DEF Next
    <1> QED  BY <1>1, <1>2, PTL DEF Spec

(***************************************************************************)
(* In every reachable outbox BLIPIO::requeue puts a message, new or not,   *)
(* where the protocol description puts it.                                 *)
(***************************************************************************)
THEOREM RequeueFollowsDocument == Spec => []FollowsDocument
    <1>1. ASSUME OutboxInv PROVE FollowsDocument
      <2> SUFFICES ASSUME NEW msg \in Messages
                   PROVE  requeue(outbox, msg) = InsertAt(outbox, DocumentedPlace(outbox, msg) + 1, msg)
        BY DEF FollowsDocument
      <2>1. outbox \in Seq(Messages) /\ msg.urgent \in BOOLEAN
        BY <1>1 DEF OutboxInv, TypeOK, Messages, Message
      <2> QED  BY <2>1, RequeueIsDocumented
    <1> QED  BY <1>1, OutboxInvariant, PTL
=============================================================================
