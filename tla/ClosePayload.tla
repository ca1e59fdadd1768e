---------------------------- MODULE ClosePayload ----------------------------
(***************************************************************************)
(* The payload of a CLOSE message: a status code in two bytes and a text.  *)
(* WebSocketImpl::close writes it, the peer echoes it, and onClose reads   *)
(* it at both ends to tell the delegates how the connection ended.         *)
(***************************************************************************)
EXTENDS Utf8

VARIABLE closing    \* the status of the CLOSE, and what onClose made of it; or <<>>

NoStatus == [code |-> 0, message |-> <<>>]

formatClosePayload(code, message) ==
    IF code = 0 THEN <<>> ELSE <<code \div 256, code % 256>> \o message

\* The codes that parseClosePayload lets through.
ValidCode(code) ==
    code \in 1000..4999 /\ code \notin 1012..3999 /\ code \notin 1004..1006

parseClosePayload(payload) ==
    LET status == [code |-> payload[1] * 256 + payload[2],
                   message |-> SubSeq(payload, 3, Len(payload))]
    IN  IF Len(payload) < 2 \/ ~ValidCode(status.code) \/ ~isValidUtf8(status.message)
        THEN NoStatus
        ELSE status

\* onClose, after a closing handshake: kCodeStatusCodeExpected is 1005.
ToldStatus(payload) ==
    LET status == parseClosePayload(payload)
    IN  IF status.code # 0 THEN status ELSE [status EXCEPT !.code = 1005]

ClosePayloadInit == closing = <<>>

Closes(code, message) ==
    closing' = <<[code |-> code, message |-> message],
                 ToldStatus(formatClosePayload(code, message))>>
------------------------------------------------------------------------------
\* CloseCode; those with the comment "Never sent", and that of a failed TLS
\* handshake, only ever describe an end that no CLOSE was part of.
SentCodes == 1000..1003 \union 1007..1011
NotSentCodes == {1005, 1006, 1015}
ApplicationCodes == {4000, 4001, 4998, 4999}
OtherCodes == {0, 1, 999, 1004, 1012, 3999, 5000, 65535}

\* Some texts and one that is cut short.
Messages == {<<>>, <<65>>, <<194, 160>>, <<194>>}

Statuses ==
    (SentCodes \union NotSentCodes \union ApplicationCodes \union OtherCodes) \X Messages
        \union {1000} \X ShortStrings

ClosePayloadNext == \E close \in Statuses : Closes(close[1], close[2])

(***************************************************************************)
(* What a peer closes with is what the other end is told: every CloseCode  *)
(* that may be sent survives, with its message; a reserved code, or a      *)
(* message that is not UTF-8 (an overlong form, a surrogate, a character   *)
(* cut short), arrives as kCodeStatusCodeExpected and no message.          *)
(***************************************************************************)
StatusSurvives ==
    closing # <<>> =>
        LET sent == closing[1]
        IN  closing[2] = IF sent.code \in SentCodes \union ApplicationCodes /\ IsText(sent.message)
                         THEN sent
                         ELSE [code |-> 1005, message |-> <<>>]
=============================================================================
