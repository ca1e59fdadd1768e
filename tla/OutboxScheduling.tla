-------------------------- MODULE OutboxScheduling --------------------------
(***************************************************************************)
(* The outbox of one BLIPIO under an endless stream of messages: new ones  *)
(* may always arrive, and every message may always have another frame.     *)
(* Only what decides a message's place is kept: whether it is urgent, and  *)
(* whether a frame of it has been sent.  One message, the `old' one, has   *)
(* frames for ever; the question is whether the others can keep it from    *)
(* sending them.                                                           *)
(***************************************************************************)
EXTENDS MessageQueue

CONSTANT MaxDepth       \* bound: how many messages the outbox holds
ASSUME DepthAssumption == MaxDepth \in Nat \ {0}

VARIABLES
    outbox,     \* _outbox
    popped      \* the message that the last frame was taken from

vars == <<outbox, popped>>

Message(urgent, bytesSent, old) ==
    [urgent |-> urgent, bytesSent |-> bytesSent, old |-> old]

Messages == [urgent : BOOLEAN, bytesSent : {0, 1}, old : BOOLEAN]

TypeOK ==
    /\ outbox \in Seq(Messages)
    /\ Len(outbox) \in 1..MaxDepth
    /\ popped \in Messages

Init ==
    /\ \E u \in BOOLEAN : outbox = <<Message(u, 0, TRUE)>>
    /\ popped = Message(FALSE, 1, FALSE)

\* _queueMessage
Submit(urgent) ==
    /\ Len(outbox) < MaxDepth
    /\ outbox' = requeue(outbox, Message(urgent, 0, FALSE))
    /\ UNCHANGED popped

\* An iteration of writeToWebSocket that finds kMoreComing set ...
SendMore ==
    /\ outbox # <<>>
    /\ popped' = Head(outbox)
    /\ outbox' = requeue(Tail(outbox), [Head(outbox) EXCEPT !.bytesSent = 1])

\* ... and one that sends the last frame of a message.
SendLast ==
    /\ outbox # <<>>
    /\ ~Head(outbox).old
    /\ popped' = Head(outbox)
    /\ outbox' = Tail(outbox)

Next == (\E urgent \in BOOLEAN : Submit(urgent)) \/ SendMore \/ SendLast

\* The WebSocket keeps taking frames.
Spec == Init /\ [][Next]_vars /\ WF_vars(SendMore \/ SendLast)
-----------------------------------------------------------------------------
(***************************************************************************)
(* The places the protocol description allows an urgent message ("Sending  *)
(* Messages"): after the last urgent message and the first normal one that *)
(* follows it, or after the first normal message if none is urgent; and a  *)
(* new one after every message that has not been begun.                    *)
(***************************************************************************)
DocumentedPlace(queue, msg) ==
    LET urgents == {k \in DOMAIN queue : queue[k].urgent}
        unbegun == {k \in DOMAIN queue : queue[k].bytesSent = 0}
        normalAfter == {k \in DOMAIN queue :
                           ~queue[k].urgent /\ \A u \in urgents : u < k}
        behind == (IF normalAfter # {} THEN {Min(normalAfter)} ELSE urgents)
                      \union (IF msg.bytesSent = 0 THEN unbegun ELSE {})
    IN  IF ~msg.urgent THEN Len(queue)
        ELSE IF behind = {} THEN 0 ELSE Max(behind)

(***************************************************************************)
(* requeue's backward scan puts every message, new or not, where the rule  *)
(* of the protocol description puts it, in every queue that can arise.     *)
(***************************************************************************)
FollowsDocument ==
    \A msg \in Messages :
        requeue(outbox, msg) = InsertAt(outbox, DocumentedPlace(outbox, msg) + 1, msg)

(***************************************************************************)
(* No starvation: however many urgent messages arrive and however long     *)
(* they are, a normal message (or an urgent one among them) keeps sending  *)
(* frames.                                                                 *)
(***************************************************************************)
NotStarved == []<>(popped.old)
=============================================================================
