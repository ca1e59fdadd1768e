---------------------------- MODULE MessageQueue ----------------------------
(***************************************************************************)
(* The queues of outgoing messages of a BLIPIO (its outbox and icebox) and *)
(* the rule by which a message takes its place among them.  A message is   *)
(* any record with the fields used here: `urgent' and `bytesSent' for the  *)
(* place in the outbox, `type' and `number' for looking it up.             *)
(***************************************************************************)
EXTENDS Integers, SequencesExt

\* The message types of BLIPProtocol.hh, in the order of their codes.
MessageTypes == {"REQ", "RES", "ERR", "ACKREQ", "ACKRES"}

\* Message::isAck
isAck(m) == m.type \in {"ACKREQ", "ACKRES"}

\* Message::isResponse compares type codes, so both kinds of ACK count too.
isResponse(m) == m.type # "REQ"

\* The first message findMessage meets, as an index; 0 if there is none.
findMessage(queue, msgNo, response) ==
    SelectInSeq(queue, LAMBDA m : m.number = msgNo /\ isResponse(m) = response)

(***************************************************************************)
(* The backward scan of requeue: the last message an urgent `msg' may not  *)
(* overtake, as an index; 0 if it may overtake all of them.                *)
(***************************************************************************)
LastNotOvertaken(queue, msg) ==
    SelectLastInSeq(queue, LAMBDA m : m.urgent \/ (msg.bytesSent = 0 /\ m.bytesSent = 0))

\* requeue without leaving a normal message between two urgent ones.
requeue_NoGap(queue, msg) ==
    IF msg.urgent /\ Len(queue) > 1
    THEN LET k == LastNotOvertaken(queue, msg)
         IN  InsertAt(queue, (IF k = 0 THEN 1 ELSE k) + 1, msg)
    ELSE Append(queue, msg)

\* requeue that lets a new urgent message overtake one not begun yet.
requeue_Overtakes(queue, msg) ==
    IF msg.urgent /\ Len(queue) > 1
    THEN LET k == SelectLastInSeq(queue, LAMBDA m : m.urgent)
         IN  InsertAt(queue, IF k > 0 /\ k < Len(queue) THEN k + 2 ELSE k + 1, msg)
    ELSE Append(queue, msg)

(***************************************************************************)
(* BLIPIO::requeue.  A normal message goes to the end.  An urgent one goes *)
(* after the last urgent message, leaving one normal message in between if *)
(* there is one; if it is new it does not overtake a message not begun.    *)
(***************************************************************************)
requeue(queue, msg) ==
    IF msg.urgent /\ Len(queue) > 1
    THEN LET k == LastNotOvertaken(queue, msg)
             after == IF k = 0 THEN 1
                      ELSE IF queue[k].urgent /\ k < Len(queue) THEN k + 1 ELSE k
         IN  InsertAt(queue, after + 1, msg)
    ELSE Append(queue, msg)
=============================================================================
