------------------------ MODULE WebSocketImpl_proofs ------------------------
(***************************************************************************)
(* Proofs about WebSocketImpl, for any buffer size, any number of messages *)
(* and heartbeats, and any frames the peer may send: its timers are quiet  *)
(* once destroyed, it sends one CLOSE, a connection ends abnormally only   *)
(* when the network failed, and the delegate's contract is kept.           *)
(***************************************************************************)
EXTENDS WebSocketImpl, SequenceTheorems, FiniteSetTheorems, TLAPS

(***************************************************************************)
(* Where each thread can be, and what it passes to sendOp.                 *)
(***************************************************************************)
Writing == {"sendBytes", "sendBytesFull"}
Sending == {"sendOp"} \union Writing
Locking == {"consume", "crashed", "waitPing", "waitResponse", "onClose"}

Places ==
    /\ pc["actor"] \in {"idle"} \union Sending
    /\ pc["timer"] \in {"idle", "sendPing", "timedOut", "return"} \union Sending
    /\ pc["socket"] \in {"idle", "makePing", "disconnect", "notify"} \union Locking \union Sending
    /\ mutex = "socket" <=> pc["socket"] \in Locking

Opcodes ==
    /\ \A th \in Threads : op[th] # "none" <=> pc[th] \in Sending
    /\ op["actor"] \in {"none", "BINARY", "CLOSE"}
    /\ op["timer"] \in {"none", "PING"}
    /\ op["socket"] \in {"none", "PONG", "CLOSE"}

(***************************************************************************)
(* How the socket's thread follows the life of the socket, and what the    *)
(* delegate has been told by then.                                         *)
(***************************************************************************)
SocketPlace ==
    /\ pc["socket"] \in {"makePing", "consume", "crashed", "disconnect", "notify"} \union Sending
          => net.socket = "open"
    /\ pc["socket"] \in {"waitPing", "waitResponse"} => net.socket \in {"open", "ended"}
    /\ pc["socket"] = "onClose" => net.socket = "ended"
    /\ net.socket = "ended" /\ ~ws.closed => pc["socket"] \in {"waitPing", "waitResponse", "onClose"}
    /\ ws.closed => net.socket = "ended" /\ pc["socket"] = "idle"

Told ==
    /\ net.socket \in {"new", "connecting"} => app.phase = "unopened" /\ net.incoming = <<>>
    /\ net.socket = "open" => app.phase = "open"
    /\ app.phase = "closed" <=> ws.closed
    /\ app.status # "none" => ws.closed

(***************************************************************************)
(* The ping timer is made once, behind the response timer, and both are    *)
(* destroyed in the opposite order; the Timer's thread is in the callback  *)
(* of the timer that is triggered.                                         *)
(***************************************************************************)
TimersInv ==
    /\ (net.socket \in {"new", "connecting"} \/ pc["socket"] = "makePing") => timers = {"response"}
    /\ pc["socket"] = "waitPing" => "ping" \notin timers
    /\ pc["socket"] = "waitResponse" => timers = {}
    /\ "response" \notin timers => "ping" \notin timers
    /\ triggered = {} <=> pc["timer"] = "idle"
    /\ pc["timer"] \in {"sendPing"} \union Sending => triggered = {"ping"}
    /\ pc["timer"] = "timedOut" => triggered = {"response"}

(***************************************************************************)
(* Whoever has the socket closed has a reason that Status reports.         *)
(***************************************************************************)
BothClosed == ws.closeSent /\ ws.closeReceived

ClosingInv ==
    /\ framing /\ net.closeAsked => ws.timedOut \/ ws.protocolError \/ BothClosed
    /\ pc["socket"] = "disconnect" => BothClosed
    /\ net.socket = "ended" /\ ~net.failed => net.closeAsked

(***************************************************************************)
(* There is one CLOSE, and whoever sets _closeSent has it: the actor or    *)
(* the socket's thread in sendOp, _msgToSend, or the socket already.       *)
(***************************************************************************)
One(condition) == IF condition THEN 1 ELSE 0

OneClose ==
    /\ One(op["actor"] = "CLOSE") + One(op["socket"] = "CLOSE") + One(ws.msgToSend = "CLOSE")
          + sent.closes <= One(ws.closeSent)

Writers == One(pc["actor"] \in Writing) + One(pc["socket"] \in Writing) + One(pc["timer"] \in Writing)

Behind ==
    /\ sent.closes = 0 => sent.behind = 0
    /\ sent.closes = 1 => sent.behind + Writers <= 2

\* _bufferedBytes covers what is written and about to be.
BufferedInv == ws.buffered >= Len(net.outgoing) + Writers

WebSocketInv ==
    /\ TypeOK
    /\ Places
    /\ Opcodes
    /\ SocketPlace
    /\ Told
    /\ TimersInv
    /\ DestroyedIsQuiet
    /\ ClosingInv
    /\ AbnormalOnlyIfFailed
    /\ OneClose
    /\ Behind
    /\ BufferedInv

-----------------------------------------------------------------------------
(***************************************************************************)
(* startResponseTimer schedules the response timer only if it exists.      *)
(***************************************************************************)
LEMMA StartsResponse ==
    ASSUME StartResponseTimer
    PROVE  /\ triggered' = triggered
           /\ schedule' \in {schedule, schedule \union {"response"}}
           /\ "response" \notin timers => schedule' = schedule
    BY DEF StartResponseTimer, FireAfter, timerVars

(***************************************************************************)
(* What a call of the delegate's does to what it has been told.            *)
(***************************************************************************)
LEMMA Tells ==
    ASSUME app \in AppType, NEW call \in Calls \union {"message"}, TellDelegate(call)
    PROVE  /\ app' \in AppType
           /\ app'.heard = app.heard + 1
           /\ app'.status = app.status
           /\ app'.phase = IF call = "connect" THEN "open"
                           ELSE IF call = "close" THEN "closed" ELSE app.phase
    <1> DEFINE h == app.heard + 1
               p == CASE call = "connect" -> "open" [] call = "close" -> "closed"
                      [] OTHER -> app.phase
               m == IF call = "message" THEN app.mailbox ELSE Append(app.mailbox, call)
    <1>1. h \in Nat /\ p \in {"unopened", "open", "closed"}
      BY DEF AppType, Calls
    <1>2. m \in Seq(Calls)
      BY DEF AppType, Calls
    <1>3. app' = [app EXCEPT !.heard = h, !.phase = p, !.mailbox = m]
      BY DEF TellDelegate, AppType
    <1>4. p = IF call = "connect" THEN "open" ELSE IF call = "close" THEN "closed" ELSE app.phase
      BY DEF Calls
    <1> HIDE DEF h, p, m
    <1>5. app' \in AppType
      BY <1>1, <1>2, <1>3 DEF AppType
    <1>6. app'.heard = h /\ app'.status = app.status /\ app'.phase = p
      BY <1>3 DEF AppType
    <1> QED  BY <1>4, <1>5, <1>6 DEF h

(***************************************************************************)
(* sendOp's result reaches the delegate's _writeable and nothing else.     *)
(***************************************************************************)
LEMMA Returned ==
    ASSUME app \in AppType, NEW th, NEW result \in BOOLEAN, SendReturns(th, result)
    PROVE  /\ app' \in AppType
           /\ app'.phase = app.phase /\ app'.heard = app.heard /\ app'.status = app.status
    BY DEF SendReturns, AppType

(***************************************************************************)
(* A thread that sendOp refuses returns, and nothing else changes.         *)
(***************************************************************************)
LEMMA KeepsReturn ==
    ASSUME WebSocketInv, NEW th \in Threads, pc[th] \in Sending \ Writing, SendReturns(th, FALSE),
           UNCHANGED <<framing, mutex, timers, schedule, triggered, ws, chunk, net, sent, mishaps>>
    PROVE  WebSocketInv'
    <1> DEFINE where == IF th = "timer" THEN "return" ELSE "idle"
    <1>0. pc' = [pc EXCEPT ![th] = where] /\ op' = [op EXCEPT ![th] = "none"]
      BY DEF SendReturns, Goes
    <1>1. /\ app' \in AppType
          /\ app'.phase = app.phase /\ app'.heard = app.heard /\ app'.status = app.status
      BY Returned DEF WebSocketInv, TypeOK
    <1>2. where \in {"idle", "return"} /\ (where = "return" <=> th = "timer")
      OBVIOUS
    <1> HIDE DEF where
    <1>3. TypeOK'
      BY <1>0, <1>1, <1>2 DEF WebSocketInv, TypeOK, TimerTypeOK
    <1>4. Places' /\ Opcodes'
      BY <1>0, <1>2 DEF WebSocketInv, Places, Opcodes, TypeOK, Threads, Sending, Writing, Locking
    <1>5. SocketPlace'
      BY <1>0, <1>2 DEF WebSocketInv, SocketPlace, Places, TypeOK, Threads, Sending, Writing
    <1>6. Told' /\ AbnormalOnlyIfFailed'
      BY <1>1 DEF WebSocketInv, Told, AbnormalOnlyIfFailed
    <1>7. TimersInv' /\ DestroyedIsQuiet'
      BY <1>0, <1>2 DEF WebSocketInv, TimersInv, DestroyedIsQuiet, At, TypeOK, Threads, Sending, Writing
    <1>8. ClosingInv'
      BY <1>0, <1>2 DEF WebSocketInv, ClosingInv, BothClosed, TypeOK, Threads
    <1>9. OneClose'
      BY <1>0 DEF WebSocketInv, OneClose, One, TypeOK, FieldsType, Threads
    <1>10. Writers' = Writers
      BY <1>0, <1>2 DEF Writers, One, WebSocketInv, TypeOK, Threads, Sending, Writing
    <1>11. Behind' /\ BufferedInv'
      BY <1>10 DEF WebSocketInv, Behind, BufferedInv
    <1> QED
      BY <1>3, <1>4, <1>5, <1>6, <1>7, <1>8, <1>9, <1>11 DEF WebSocketInv

(***************************************************************************)
(* connect starts the response timer, which exists until the socket's      *)
(* thread destroys it, and that is later.                                  *)
(***************************************************************************)
LEMMA KeepsConnect ==
    ASSUME WebSocketInv, Connect
    PROVE  WebSocketInv'
    <1> USE WebSocketImplAssumption
    <1>0. /\ triggered' = triggered
          /\ schedule' \in {schedule, schedule \union {"response"}}
          /\ "response" \notin timers => schedule' = schedule
      BY StartsResponse DEF Connect
    <1>1. net' \in NetType
      BY DEF WebSocketInv, TypeOK, NetType, Connect
    <1>2. TypeOK'
      BY <1>1, <1>0 DEF WebSocketInv, TypeOK, TimerTypeOK, Connect
    <1>3. SocketPlace'
      BY DEF WebSocketInv, SocketPlace, Connect
    <1>4. Told'
      BY <1>0 DEF WebSocketInv, Told, Connect
    <1>5. TimersInv'
      BY <1>0 DEF WebSocketInv, TimersInv, Connect
    <1>6. DestroyedIsQuiet'
      BY <1>0 DEF WebSocketInv, DestroyedIsQuiet, At, Connect
    <1>7. ClosingInv'
      BY DEF WebSocketInv, ClosingInv, BothClosed, Connect
    <1>8. AbnormalOnlyIfFailed'
      BY DEF WebSocketInv, AbnormalOnlyIfFailed, Connect
    <1>9. BufferedInv'
      BY DEF WebSocketInv, BufferedInv, Writers, TypeOK, NetType, Connect
    <1>10. Places' /\ Opcodes' /\ OneClose' /\ Behind'
      BY <1>0 DEF WebSocketInv, Places, Opcodes, OneClose, Behind, Writers, Connect
    <1> QED  BY <1>2, <1>3, <1>4, <1>5, <1>6, <1>7, <1>8, <1>9, <1>10 DEF WebSocketInv

(***************************************************************************)
(* The actor takes a call from its mailbox; nothing else depends on it.    *)
(***************************************************************************)
LEMMA KeepsHandleCall ==
    ASSUME WebSocketInv, HandleCall
    PROVE  WebSocketInv'
    <1> USE WebSocketImplAssumption
    <1>1. app' \in AppType
      <2>1. Tail(app.mailbox) \in Seq(Calls)
        BY DEF WebSocketInv, TypeOK, AppType, HandleCall
      <2> QED  BY <2>1 DEF WebSocketInv, TypeOK, AppType, HandleCall
    <1>2. TypeOK'
      BY <1>1 DEF WebSocketInv, TypeOK, TimerTypeOK, HandleCall, timerVars
    <1>3. Told'
      BY DEF WebSocketInv, Told, HandleCall
    <1>4. AbnormalOnlyIfFailed'
      BY DEF WebSocketInv, AbnormalOnlyIfFailed, HandleCall
    <1>5. Places' /\ Opcodes' /\ SocketPlace' /\ TimersInv' /\ DestroyedIsQuiet' /\
         ClosingInv' /\ OneClose' /\ Behind' /\ BufferedInv'
      BY DEF WebSocketInv, Places, Opcodes, SocketPlace, TimersInv, DestroyedIsQuiet,
         ClosingInv, OneClose, Behind, BufferedInv, At, BothClosed, Writers, HandleCall,
         timerVars
    <1> QED  BY <1>2, <1>3, <1>4, <1>5 DEF WebSocketInv

(***************************************************************************)
(* The actor begins to send a message.                                     *)
(***************************************************************************)
LEMMA KeepsSend ==
    ASSUME WebSocketInv, Send
    PROVE  WebSocketInv'
    <1> USE WebSocketImplAssumption
    <1>1. app' \in AppType
      <2>1. app.sends + 1 \in Nat
        BY DEF WebSocketInv, TypeOK, AppType
      <2>2. app' = [app EXCEPT !.sends = app.sends + 1]
        BY DEF Send
      <2> QED  BY <2>1, <2>2 DEF WebSocketInv, TypeOK, AppType
    <1>2. TypeOK'
      BY <1>1 DEF WebSocketInv, TypeOK, TimerTypeOK, Send, Calling, Goes, timerVars
    <1>3. Places'
      BY DEF WebSocketInv, Places, Sending, Send, Calling, Goes
    <1>4. Opcodes'
      BY DEF WebSocketInv, Opcodes, TypeOK, Sending, Send, Calling, Goes
    <1>5. SocketPlace'
      BY DEF WebSocketInv, SocketPlace, Send, Calling, Goes
    <1>6. Told'
      BY DEF WebSocketInv, Told, Send
    <1>7. TimersInv'
      BY DEF WebSocketInv, TimersInv, Send, Calling, Goes, timerVars
    <1>8. DestroyedIsQuiet'
      BY DEF WebSocketInv, DestroyedIsQuiet, At, Send, Calling, Goes, timerVars
    <1>9. ClosingInv'
      BY DEF WebSocketInv, ClosingInv, BothClosed, Send, Calling, Goes
    <1>10. AbnormalOnlyIfFailed'
      BY DEF WebSocketInv, AbnormalOnlyIfFailed, Send
    <1>11. OneClose'
      BY DEF WebSocketInv, OneClose, One, TypeOK, Send, Calling
    <1>12. Behind'
      BY DEF WebSocketInv, Behind, Writers, One, TypeOK, Writing, Send, Calling, Goes
    <1>13. BufferedInv'
      BY DEF WebSocketInv, BufferedInv, Writers, One, TypeOK, FieldsType, NetType,
         Writing, Send, Calling, Goes
    <1> QED  BY <1>2, <1>3, <1>4, <1>5, <1>6, <1>7, <1>8, <1>9, <1>10, <1>11, <1>12, <1>13
             DEF WebSocketInv

(***************************************************************************)
(* close takes the one CLOSE: nobody has it while _closeSent is false.  The*)
(* response timer is started only if it exists.                            *)
(***************************************************************************)
LEMMA KeepsClose ==
    ASSUME WebSocketInv, Close
    PROVE  WebSocketInv'
    <1> USE WebSocketImplAssumption
    <1>0. /\ triggered' = triggered
          /\ schedule' \in {schedule, schedule \union {"response"}}
          /\ "response" \notin timers => schedule' = schedule
      BY StartsResponse DEF Close
    <1>1. ws' \in FieldsType
      BY DEF WebSocketInv, TypeOK, FieldsType, Close
    <1>2. TypeOK'
      BY <1>1, <1>0 DEF WebSocketInv, TypeOK, TimerTypeOK, Close, Calling, Goes
    <1>3. Places'
      BY DEF WebSocketInv, Places, Sending, Close, Calling, Goes
    <1>4. Opcodes'
      BY DEF WebSocketInv, Opcodes, TypeOK, Sending, Close, Calling, Goes
    <1>5. SocketPlace'
      BY DEF WebSocketInv, SocketPlace, Close, Calling, Goes
    <1>6. Told'
      BY <1>0 DEF WebSocketInv, Told, Close
    <1>7. TimersInv'
      BY <1>0 DEF WebSocketInv, TimersInv, Close, Calling, Goes
    <1>8. DestroyedIsQuiet'
      BY <1>0 DEF WebSocketInv, DestroyedIsQuiet, Places, At, Sending, Writing, Close,
         Unlocked
    <1>9. ClosingInv'
      BY DEF WebSocketInv, ClosingInv, BothClosed, Close, Calling, Goes
    <1>10. OneClose'
      BY DEF WebSocketInv, OneClose, One, TypeOK, Close, Calling
    <1>11. Behind'
      BY DEF WebSocketInv, Behind, OneClose, One, Close
    <1>12. BufferedInv'
      BY DEF WebSocketInv, BufferedInv, Writers, One, TypeOK, FieldsType, NetType,
         Writing, Close, Calling, Goes
    <1>13. AbnormalOnlyIfFailed'
      BY <1>0 DEF WebSocketInv, AbnormalOnlyIfFailed, Close
    <1> QED  BY <1>2, <1>3, <1>4, <1>5, <1>6, <1>7, <1>8, <1>9, <1>10, <1>11, <1>12, <1>13
             DEF WebSocketInv

(***************************************************************************)
(* Without framing, the socket is asked to close and no reason is needed.  *)
(***************************************************************************)
LEMMA KeepsRequestClose ==
    ASSUME WebSocketInv, RequestClose
    PROVE  WebSocketInv'
    <1> USE WebSocketImplAssumption
    <1>1. net' \in NetType
      BY DEF WebSocketInv, TypeOK, NetType, RequestClose, CloseSocket
    <1>2. TypeOK'
      BY <1>1 DEF WebSocketInv, TypeOK, TimerTypeOK, RequestClose, timerVars
    <1>3. SocketPlace'
      BY DEF WebSocketInv, SocketPlace, RequestClose, CloseSocket
    <1>4. Told'
      BY DEF WebSocketInv, Told, RequestClose, CloseSocket
    <1>5. TimersInv'
      BY DEF WebSocketInv, TimersInv, RequestClose, CloseSocket, timerVars
    <1>6. ClosingInv'
      BY DEF WebSocketInv, ClosingInv, BothClosed, RequestClose, CloseSocket
    <1>7. AbnormalOnlyIfFailed'
      BY DEF WebSocketInv, AbnormalOnlyIfFailed, Told, RequestClose
    <1>8. BufferedInv'
      BY DEF WebSocketInv, BufferedInv, Writers, TypeOK, NetType, RequestClose,
         CloseSocket
    <1>9. Places' /\ Opcodes' /\ DestroyedIsQuiet' /\ OneClose' /\ Behind'
      BY DEF WebSocketInv, Places, Opcodes, DestroyedIsQuiet, OneClose, Behind, At,
         Writers, RequestClose, timerVars
    <1> QED  BY <1>2, <1>3, <1>4, <1>5, <1>6, <1>7, <1>8, <1>9 DEF WebSocketInv

(***************************************************************************)
(* sendOp, while it holds the mutex: once _closeSent is set, only the      *)
(* thread that has the CLOSE may still go on to write.                     *)
(***************************************************************************)
LEMMA KeepsSendOp ==
    ASSUME WebSocketInv, NEW th \in Threads, SendOp(th)
    PROVE  WebSocketInv'
    <1>0. /\ pc[th] = "sendOp" /\ op[th] # "none"
          /\ UNCHANGED <<framing, mutex, timers, schedule, triggered, chunk, net, sent, mishaps>>
      BY DEF SendOp, At, timerVars, WebSocketInv, Opcodes, Sending
    <1>1. CASE Refused(op[th])
      <2>1. SendReturns(th, FALSE) /\ ws' = ws
        BY <1>1 DEF SendOp
      <2>2. pc[th] \in Sending \ Writing
        BY <1>0 DEF Sending, Writing
      <2> QED  BY <1>0, <2>1, <2>2, KeepsReturn
    <1>2. CASE ~Refused(op[th])
      <2>1. /\ ws' = [ws EXCEPT !.buffered = ws.buffered + 1]
            /\ UNCHANGED <<op, app>>
            /\ \E where \in Writing : pc' = [pc EXCEPT ![th] = where]
        BY <1>2 DEF SendOp, Goes, Writing
      <2>2. PICK where \in Writing : pc' = [pc EXCEPT ![th] = where]
        BY <2>1
      <2>3. ws' \in FieldsType
        BY <2>1 DEF WebSocketInv, TypeOK, FieldsType
      <2>4. TypeOK'
        BY <1>0, <2>1, <2>2, <2>3 DEF WebSocketInv, TypeOK, TimerTypeOK, Writing
      <2>5. Places' /\ Opcodes'
        BY <1>0, <2>1, <2>2 DEF WebSocketInv, Places, Opcodes, TypeOK, Threads, Sending, Writing, Locking
      <2>6. SocketPlace'
        BY <1>0, <2>1, <2>2 DEF WebSocketInv, SocketPlace, TypeOK, FieldsType, Threads, Sending, Writing
      <2>7. Told' /\ AbnormalOnlyIfFailed'
        BY <1>0, <2>1 DEF WebSocketInv, Told, AbnormalOnlyIfFailed, TypeOK, FieldsType
      <2>8. TimersInv' /\ DestroyedIsQuiet'
        BY <1>0, <2>2 DEF WebSocketInv, TimersInv, DestroyedIsQuiet, At, TypeOK, Threads, Sending, Writing
      <2>9. ClosingInv' /\ OneClose'
        BY <1>0, <2>1, <2>2 DEF WebSocketInv, ClosingInv, BothClosed, OneClose, TypeOK, FieldsType,
           Threads, Writing
      <2>10. Behind'
        <3>1. sent.closes = 0
          BY <1>0, <1>2 DEF WebSocketInv, Refused, OneClose, One, Opcodes, TypeOK, FieldsType, Threads
        <3> QED  BY <3>1, <1>0 DEF WebSocketInv, Behind
      <2>11. BufferedInv'
        <3>1. Writers' = Writers + 1
          BY <1>0, <2>2 DEF Writers, One, WebSocketInv, TypeOK, Threads, Writing
        <3>2. Writers \in Nat /\ Len(net.outgoing) \in Nat /\ ws.buffered \in Nat
          BY DEF Writers, One, WebSocketInv, TypeOK, FieldsType, NetType
        <3>3. ws'.buffered = ws.buffered + 1 /\ Len(net'.outgoing) = Len(net.outgoing)
          BY <1>0, <2>1 DEF WebSocketInv, TypeOK, FieldsType
        <3>4. ws.buffered >= Len(net.outgoing) + Writers
          BY DEF WebSocketInv, BufferedInv
        <3>5. \A b, l, w \in Nat : b >= l + w => b + 1 >= l + (w + 1)
          OBVIOUS
        <3>6. ws'.buffered >= Len(net'.outgoing) + Writers'
          BY <3>1, <3>2, <3>3, <3>4, <3>5, Zenon
        <3> QED  BY <3>6 DEF BufferedInv
      <2> QED  BY <2>4, <2>5, <2>6, <2>7, <2>8, <2>9, <2>10, <2>11 DEF WebSocketInv
    <1> QED  BY <1>1, <1>2

(***************************************************************************)
(* sendOp, after it has released the mutex: the CLOSE is written once, and *)
(* what follows it was being written already.                              *)
(***************************************************************************)
LEMMA KeepsSendBytes ==
    ASSUME WebSocketInv, NEW th \in Threads, SendBytes(th)
    PROVE  WebSocketInv'
    <1> DEFINE new == IF net.socket = "ended" THEN net.outgoing ELSE Append(net.outgoing, op[th])
               where == IF th = "timer" THEN "return" ELSE "idle"
    <1>0. /\ pc[th] \in Writing /\ op[th] # "none"
          /\ UNCHANGED <<framing, mutex, timers, schedule, triggered, ws, chunk, mishaps>>
      BY DEF SendBytes, timerVars, WebSocketInv, Opcodes, Sending, Writing
    <1>1. /\ net' = [net EXCEPT !.outgoing = new]
          /\ pc' = [pc EXCEPT ![th] = where]
          /\ op' = [op EXCEPT ![th] = "none"]
          /\ sent' = [closes |-> sent.closes + (IF op[th] = "CLOSE" THEN 1 ELSE 0),
                      behind |-> sent.behind + (IF sent.closes > 0 THEN 1 ELSE 0)]
      BY DEF SendBytes, SendReturns, Goes
    <1>2. /\ app' \in AppType
          /\ app'.phase = app.phase /\ app'.heard = app.heard /\ app'.status = app.status
      BY Returned DEF SendBytes, At, WebSocketInv, TypeOK
    <1>3. /\ new \in Seq(Frames) /\ Len(new) <= Len(net.outgoing) + 1
          /\ Len(new) \in Nat /\ Len(net.outgoing) \in Nat
      <2>1. net.outgoing \in Seq(Frames) /\ op[th] \in Frames
        BY <1>0 DEF WebSocketInv, TypeOK, NetType, Frames
      <2> QED  BY <2>1, AppendProperties, LenProperties
    <1>4. where \in {"idle", "return"} /\ (where = "return" <=> th = "timer")
      OBVIOUS
    <1> HIDE DEF new, where
    <1>5. net' \in NetType
      BY <1>1, <1>3 DEF WebSocketInv, TypeOK, NetType
    <1>6. sent' \in [closes : Nat, behind : Nat]
      BY <1>1 DEF WebSocketInv, TypeOK
    <1>7. TypeOK'
      BY <1>0, <1>1, <1>2, <1>4, <1>5, <1>6 DEF WebSocketInv, TypeOK, TimerTypeOK
    <1>8. Places' /\ Opcodes'
      BY <1>0, <1>1, <1>4 DEF WebSocketInv, Places, Opcodes, TypeOK, Threads, Sending, Writing, Locking
    <1>9. /\ net'.socket = net.socket /\ net'.closeAsked = net.closeAsked
          /\ net'.failed = net.failed /\ net'.incoming = net.incoming /\ net'.outgoing = new
      BY <1>1 DEF WebSocketInv, TypeOK, NetType
    <1>10. SocketPlace'
      BY <1>0, <1>1, <1>4, <1>9 DEF WebSocketInv, Places, SocketPlace, TypeOK, Threads, Sending, Writing
    <1>11. Told' /\ AbnormalOnlyIfFailed'
      BY <1>0, <1>2, <1>9 DEF WebSocketInv, Told, AbnormalOnlyIfFailed
    <1>12. TimersInv' /\ DestroyedIsQuiet'
      BY <1>0, <1>1, <1>4, <1>9 DEF WebSocketInv, TimersInv, DestroyedIsQuiet, At, TypeOK, Threads,
         Sending, Writing
    <1>13. ClosingInv'
      BY <1>0, <1>1, <1>4, <1>9 DEF WebSocketInv, ClosingInv, BothClosed, TypeOK, Threads
    <1>14. OneClose'
      BY <1>0, <1>1 DEF WebSocketInv, OneClose, One, Opcodes, TypeOK, FieldsType, Threads
    <1>15. Writers' = Writers - 1 /\ Writers' \in 0..2
      BY <1>0, <1>1, <1>4 DEF Writers, One, WebSocketInv, TypeOK, Threads, Writing
    <1>16. Behind'
      <2>1. /\ sent.closes <= 1 /\ sent.closes \in Nat /\ sent.behind \in Nat
            /\ op[th] = "CLOSE" => sent.closes = 0
        BY DEF WebSocketInv, OneClose, One, Opcodes, TypeOK, Threads
      <2>2. sent'.closes = sent.closes + (IF op[th] = "CLOSE" THEN 1 ELSE 0)
            /\ sent'.behind = sent.behind + (IF sent.closes > 0 THEN 1 ELSE 0)
        BY <1>1
      <2>3. Writers \in Nat
        BY DEF Writers, One
      <2>4. CASE sent.closes = 0
        <3>1. sent.behind = 0
          BY <2>4 DEF WebSocketInv, Behind
        <3>2. sent'.behind = 0
          BY <3>1, <2>2, <2>4
        <3> QED  BY <3>2, <1>15 DEF Behind
      <2>5. CASE sent.closes = 1
        <3>1. sent.behind + Writers <= 2
          BY <2>5 DEF WebSocketInv, Behind
        <3>2. sent'.closes = 1 /\ sent'.behind = sent.behind + 1
          BY <2>1, <2>2, <2>5
        <3>3. sent'.behind + Writers' <= 2
          BY <3>1, <3>2, <2>1, <2>3, <1>15
        <3> QED  BY <3>2, <3>3 DEF Behind
      <2> QED  BY <2>1, <2>4, <2>5
    <1>17. BufferedInv'
      BY <1>0, <1>3, <1>9, <1>15 DEF WebSocketInv, BufferedInv, TypeOK, FieldsType
    <1> QED
      BY <1>7, <1>8, <1>10, <1>11, <1>12, <1>13, <1>14, <1>16, <1>17 DEF WebSocketInv

(***************************************************************************)
(* A timer that fires was scheduled, so it exists; it is the only one being*)
(* fired, and the Timer's thread goes to its callback.                     *)
(***************************************************************************)
LEMMA KeepsTimerFires ==
    ASSUME WebSocketInv, NEW t \in Timers, TimerFires(t)
    PROVE  WebSocketInv'
    <1> USE WebSocketImplAssumption
    <1>0. Cardinality({t}) = 1
      BY FS_Singleton
    <1>1. net' \in NetType
      <2>1. net.pings + 1 \in Nat
        BY DEF WebSocketInv, TypeOK, NetType
      <2>2. net' = net \/ net' = [net EXCEPT !.pings = net.pings + 1]
        BY DEF TimerFires, WebSocketInv, TypeOK, NetType
      <2> QED  BY <2>1, <2>2 DEF WebSocketInv, TypeOK, NetType
    <1>2. TypeOK'
      BY <1>1, <1>0 DEF WebSocketInv, TypeOK, TimerTypeOK, Threads, TimerFires, Fire, Goes
    <1>3. Places'
      BY DEF WebSocketInv, Places, TimerFires, Goes
    <1>4. Opcodes'
      BY DEF WebSocketInv, Opcodes, Sending, Writing, TimerFires, At, Goes
    <1>5. SocketPlace'
      BY DEF WebSocketInv, SocketPlace, TimerFires, Goes
    <1>6. Told'
      BY DEF WebSocketInv, Told, TimerFires
    <1>7. TimersInv'
      BY DEF WebSocketInv, TimersInv, TypeOK, Threads, Sending, Writing, TimerFires, Fire,
         Goes
    <1>8. DestroyedIsQuiet'
      BY DEF WebSocketInv, DestroyedIsQuiet, TimerFires, Fire
    <1>9. ClosingInv'
      BY DEF WebSocketInv, ClosingInv, BothClosed, TimerFires, Goes
    <1>10. AbnormalOnlyIfFailed'
      BY DEF WebSocketInv, AbnormalOnlyIfFailed, TimerFires
    <1>11. Behind'
      BY DEF WebSocketInv, Behind, Writers, One, TypeOK, Writing, TimerFires, Goes
    <1>12. BufferedInv'
      BY DEF WebSocketInv, BufferedInv, Writers, One, TypeOK, FieldsType, NetType,
         Writing, TimerFires, Goes
    <1>13. OneClose'
      BY DEF WebSocketInv, OneClose, TimerFires
    <1> QED  BY <1>2, <1>3, <1>4, <1>5, <1>6, <1>7, <1>8, <1>9, <1>10, <1>11, <1>12, <1>13
             DEF WebSocketInv

(***************************************************************************)
(* sendPing reschedules its timer only while it holds the mutex and the    *)
(* timer exists.                                                           *)
(***************************************************************************)
LEMMA KeepsSendPing ==
    ASSUME WebSocketInv, SendPing
    PROVE  WebSocketInv'
    <1> USE WebSocketImplAssumption
    <1>0. /\ pc["timer"] = "sendPing" /\ triggered' = triggered
          /\ UNCHANGED <<framing, mutex, timers, ws, chunk, app, net, sent, mishaps>>
          /\ \/ /\ schedule' \subseteq schedule \union timers
                /\ pc' = [pc EXCEPT !["timer"] = "sendOp"]
                /\ op' = [op EXCEPT !["timer"] = "PING"]
             \/ /\ UNCHANGED <<op, schedule>>
                /\ pc' = [pc EXCEPT !["timer"] = "return"]
      BY DEF SendPing, At, Calling, Goes
    <1>1. TypeOK'
      <2>1. schedule' \subseteq Timers
        BY <1>0 DEF WebSocketInv, TypeOK, TimerTypeOK
      <2> QED  BY <1>0, <2>1 DEF WebSocketInv, TypeOK, TimerTypeOK, Threads
    <1>2. Places' /\ Opcodes'
      BY <1>0 DEF WebSocketInv, Places, Opcodes, TypeOK, Threads, Sending, Writing, Locking
    <1>3. SocketPlace' /\ Told' /\ AbnormalOnlyIfFailed'
      BY <1>0 DEF WebSocketInv, SocketPlace, Told, AbnormalOnlyIfFailed, TypeOK, Threads
    <1>4. TimersInv'
      BY <1>0 DEF WebSocketInv, TimersInv, TypeOK, Threads, Sending, Writing
    <1>5. DestroyedIsQuiet'
      BY <1>0 DEF WebSocketInv, DestroyedIsQuiet, At, TypeOK, Threads
    <1>6. ClosingInv' /\ OneClose'
      BY <1>0 DEF WebSocketInv, ClosingInv, BothClosed, OneClose, TypeOK, Threads
    <1>7. Writers' = Writers
      BY <1>0 DEF Writers, One, WebSocketInv, TypeOK, Threads, Writing
    <1>8. Behind' /\ BufferedInv'
      BY <1>0, <1>7 DEF WebSocketInv, Behind, BufferedInv
    <1> QED  BY <1>1, <1>2, <1>3, <1>4, <1>5, <1>6, <1>8 DEF WebSocketInv

(***************************************************************************)
(* timedOut gives the reason before it closes the socket.                  *)
(***************************************************************************)
LEMMA KeepsTimedOut ==
    ASSUME WebSocketInv, TimedOut
    PROVE  WebSocketInv'
    <1> USE WebSocketImplAssumption
    <1>1. ws' \in FieldsType
      BY DEF WebSocketInv, TypeOK, FieldsType, TimedOut
    <1>2. net' \in NetType
      BY DEF WebSocketInv, TypeOK, NetType, TimedOut, CloseSocket
    <1>3. TypeOK'
      BY <1>1, <1>2 DEF WebSocketInv, TypeOK, TimerTypeOK, TimedOut, Goes, timerVars
    <1>4. Places'
      BY DEF WebSocketInv, Places, TimedOut, Goes
    <1>5. Opcodes'
      BY DEF WebSocketInv, Opcodes, Sending, Writing, TimedOut, At, Goes
    <1>6. SocketPlace'
      BY DEF WebSocketInv, SocketPlace, TimedOut, CloseSocket, Goes
    <1>7. Told'
      BY DEF WebSocketInv, Told, TimedOut, CloseSocket
    <1>8. TimersInv'
      BY DEF WebSocketInv, TimersInv, Sending, Writing, TimedOut, At, CloseSocket, Goes,
         timerVars
    <1>9. DestroyedIsQuiet'
      BY DEF WebSocketInv, DestroyedIsQuiet, At, TimedOut, Goes, timerVars
    <1>10. ClosingInv'
      BY DEF WebSocketInv, ClosingInv, BothClosed, TimedOut, CloseSocket, Goes
    <1>11. AbnormalOnlyIfFailed'
      BY DEF WebSocketInv, AbnormalOnlyIfFailed, TimedOut, CloseSocket
    <1>12. OneClose'
      BY DEF WebSocketInv, OneClose, TimedOut
    <1>13. Behind'
      BY DEF WebSocketInv, Behind, Writers, One, TypeOK, Writing, TimedOut, Goes
    <1>14. BufferedInv'
      BY DEF WebSocketInv, BufferedInv, Writers, One, TypeOK, FieldsType, NetType,
         Writing, TimedOut, CloseSocket, Goes
    <1> QED  BY <1>3, <1>4, <1>5, <1>6, <1>7, <1>8, <1>9, <1>10, <1>11, <1>12, <1>13,
             <1>14 DEF WebSocketInv

(***************************************************************************)
(* A callback that returns ends the firing of its timer.                   *)
(***************************************************************************)
LEMMA KeepsTimerReturns ==
    ASSUME WebSocketInv, TimerReturns
    PROVE  WebSocketInv'
    <1> USE WebSocketImplAssumption
    <1>1. TypeOK'
      BY FS_EmptySet DEF WebSocketInv, TypeOK, TimerTypeOK, Threads, TimerReturns,
         CallbackReturns, Goes
    <1>2. Places'
      BY DEF WebSocketInv, Places, TimerReturns, Goes
    <1>3. Opcodes'
      BY DEF WebSocketInv, Opcodes, Sending, Writing, TimerReturns, At, Goes
    <1>4. SocketPlace'
      BY DEF WebSocketInv, SocketPlace, TimerReturns, Goes
    <1>5. TimersInv'
      BY DEF WebSocketInv, TimersInv, TypeOK, Threads, Sending, Writing, TimerReturns,
         CallbackReturns, Goes
    <1>6. DestroyedIsQuiet'
      BY DEF WebSocketInv, DestroyedIsQuiet, TimerReturns, CallbackReturns
    <1>7. ClosingInv'
      BY DEF WebSocketInv, ClosingInv, BothClosed, TimerReturns, Goes
    <1>8. Behind'
      BY DEF WebSocketInv, Behind, Writers, One, TypeOK, Writing, TimerReturns, Goes
    <1>9. BufferedInv'
      BY DEF WebSocketInv, BufferedInv, Writers, One, TypeOK, FieldsType, NetType,
         Writing, TimerReturns, Goes
    <1>10. Told' /\ AbnormalOnlyIfFailed' /\ OneClose'
      BY DEF WebSocketInv, Told, AbnormalOnlyIfFailed, OneClose, TimerReturns
    <1> QED  BY <1>1, <1>2, <1>3, <1>4, <1>5, <1>6, <1>7, <1>8, <1>9, <1>10 DEF
             WebSocketInv

(***************************************************************************)
(* onConnect is the first the delegate hears; the ping timer has not been  *)
(* made.                                                                   *)
(***************************************************************************)
LEMMA KeepsOnConnect ==
    ASSUME WebSocketInv, OnConnect
    PROVE  WebSocketInv'
    <1> USE WebSocketImplAssumption
    <1>1. net' \in NetType
      BY DEF WebSocketInv, TypeOK, NetType, OnConnect
    <1>2. app' \in AppType
      BY Tells DEF WebSocketInv, TypeOK, Calls, OnConnect
    <1>3. TypeOK'
      BY <1>1, <1>2 DEF WebSocketInv, TypeOK, TimerTypeOK, Mishaps, OnConnect, Stop,
         Happens, Goes
    <1>4. Places'
      BY DEF WebSocketInv, Places, Locking, OnConnect, SocketIdle, At, Goes
    <1>5. Opcodes'
      BY DEF WebSocketInv, Opcodes, Sending, Writing, OnConnect, SocketIdle, At, Goes
    <1>6. SocketPlace'
      BY DEF WebSocketInv, SocketPlace, OnConnect, Goes
    <1>7. Told'
      BY DEF WebSocketInv, Told, OnConnect, TellDelegate
    <1>8. TimersInv'
      BY DEF WebSocketInv, TimersInv, OnConnect, Stop, Goes
    <1>9. DestroyedIsQuiet'
      BY DEF WebSocketInv, DestroyedIsQuiet, SocketPlace, At, OnConnect, Stop
    <1>10. ClosingInv'
      BY DEF WebSocketInv, ClosingInv, BothClosed, OnConnect, Goes
    <1>11. AbnormalOnlyIfFailed'
      BY DEF WebSocketInv, AbnormalOnlyIfFailed, OnConnect, TellDelegate
    <1>12. Behind'
      BY DEF WebSocketInv, Behind, Writers, One, TypeOK, Writing, OnConnect, Goes
    <1>13. BufferedInv'
      BY DEF WebSocketInv, BufferedInv, Writers, One, TypeOK, FieldsType, NetType,
         Writing, OnConnect, Goes
    <1>14. OneClose'
      BY DEF WebSocketInv, OneClose, OnConnect
    <1> QED  BY <1>3, <1>4, <1>5, <1>6, <1>7, <1>8, <1>9, <1>10, <1>11, <1>12, <1>13,
             <1>14 DEF WebSocketInv

(***************************************************************************)
(* The ping timer is made while the response timer exists, and only then   *)
(* scheduled.                                                              *)
(***************************************************************************)
LEMMA KeepsMakePingTimer ==
    ASSUME WebSocketInv, MakePingTimer
    PROVE  WebSocketInv'
    <1> USE WebSocketImplAssumption
    <1>0. triggered' = triggered /\ schedule' \in {schedule, schedule \union {"ping"}}
      BY DEF MakePingTimer, FireAfter, timerVars
    <1>1. TypeOK'
      BY <1>0 DEF WebSocketInv, TypeOK, TimerTypeOK, MakePingTimer, Goes
    <1>2. Places'
      BY DEF WebSocketInv, Places, Locking, MakePingTimer, At, Goes
    <1>3. Opcodes'
      BY DEF WebSocketInv, Opcodes, Sending, Writing, MakePingTimer, At, Goes
    <1>4. SocketPlace'
      BY DEF WebSocketInv, SocketPlace, MakePingTimer, At, Goes
    <1>5. TimersInv'
      BY <1>0 DEF WebSocketInv, TimersInv, SocketPlace, TypeOK, Threads, MakePingTimer,
         At, Goes
    <1>6. DestroyedIsQuiet'
      BY <1>0 DEF WebSocketInv, DestroyedIsQuiet, At, MakePingTimer
    <1>7. ClosingInv'
      BY DEF WebSocketInv, ClosingInv, BothClosed, MakePingTimer, Goes
    <1>8. Behind'
      BY DEF WebSocketInv, Behind, Writers, One, TypeOK, Writing, MakePingTimer, Goes
    <1>9. BufferedInv'
      BY DEF WebSocketInv, BufferedInv, Writers, One, TypeOK, FieldsType, NetType,
         Writing, MakePingTimer, Goes
    <1>10. Told' /\ AbnormalOnlyIfFailed' /\ OneClose'
      BY DEF WebSocketInv, Told, AbnormalOnlyIfFailed, OneClose, MakePingTimer
    <1> QED  BY <1>1, <1>2, <1>3, <1>4, <1>5, <1>6, <1>7, <1>8, <1>9, <1>10 DEF
             WebSocketInv

(***************************************************************************)
(* onReceive locks the mutex and takes some of the frames that have        *)
(* arrived.                                                                *)
(***************************************************************************)
LEMMA KeepsOnReceive ==
    ASSUME WebSocketInv, OnReceive
    PROVE  WebSocketInv'
    <1> USE WebSocketImplAssumption
    <1>1. chunk' \in Seq(Frames)
      <2>1. PICK n \in 1..Len(net.incoming) : chunk' = SubSeq(net.incoming, 1, n)
        BY DEF OnReceive
      <2>2. net.incoming \in Seq(Frames) /\ Len(net.incoming) \in Nat
        BY DEF WebSocketInv, TypeOK, NetType
      <2>3. \A i \in 1..n : net.incoming[i] \in Frames
        BY <2>2
      <2> QED  BY <2>1, <2>2, <2>3, SubSeqProperties
    <1>2. net' \in NetType
      <2>1. PICK n \in 1..Len(net.incoming) :
               net' = [net EXCEPT !.incoming = SubSeq(net.incoming, n + 1, Len(net.incoming))]
        BY DEF OnReceive
      <2>2. net.incoming \in Seq(Frames) /\ Len(net.incoming) \in Nat
        BY DEF WebSocketInv, TypeOK, NetType
      <2>3. SubSeq(net.incoming, n + 1, Len(net.incoming)) \in Seq(Frames)
        BY <2>2, SubSeqProperties
      <2> QED  BY <2>1, <2>3 DEF WebSocketInv, TypeOK, NetType
    <1>3. TypeOK'
      BY <1>1, <1>2 DEF WebSocketInv, TypeOK, TimerTypeOK, OnReceive, Goes, timerVars
    <1>4. Places'
      BY DEF WebSocketInv, Places, TypeOK, Threads, Locking, OnReceive, Goes
    <1>5. Opcodes'
      BY DEF WebSocketInv, Opcodes, Sending, Writing, OnReceive, SocketIdle, At, Goes
    <1>6. SocketPlace'
      BY DEF WebSocketInv, SocketPlace, OnReceive, Goes
    <1>7. Told'
      BY DEF WebSocketInv, Told, OnReceive
    <1>8. TimersInv'
      BY DEF WebSocketInv, TimersInv, OnReceive, Goes, timerVars
    <1>9. DestroyedIsQuiet'
      BY DEF WebSocketInv, DestroyedIsQuiet, At, OnReceive, SocketIdle, timerVars
    <1>10. ClosingInv'
      BY DEF WebSocketInv, ClosingInv, BothClosed, OnReceive, Goes
    <1>11. AbnormalOnlyIfFailed'
      BY DEF WebSocketInv, AbnormalOnlyIfFailed, OnReceive
    <1>12. Behind'
      BY DEF WebSocketInv, Behind, Writers, One, TypeOK, Writing, OnReceive, At, Goes
    <1>13. BufferedInv'
      BY DEF WebSocketInv, BufferedInv, Writers, One, TypeOK, FieldsType, NetType,
         Writing, OnReceive, Goes
    <1>14. OneClose'
      BY DEF WebSocketInv, OneClose, OnReceive
    <1> QED  BY <1>3, <1>4, <1>5, <1>6, <1>7, <1>8, <1>9, <1>10, <1>11, <1>12, <1>13,
             <1>14 DEF WebSocketInv

(***************************************************************************)
(* Without framing, data arrives only while the delegate has been told of  *)
(* the connection and not of its end.                                      *)
(***************************************************************************)
LEMMA KeepsOnReceiveMessage ==
    ASSUME WebSocketInv, OnReceiveMessage
    PROVE  WebSocketInv'
    <1> USE WebSocketImplAssumption
    <1>1. app' \in AppType
      BY Tells DEF WebSocketInv, TypeOK, Calls, OnReceiveMessage
    <1>2. net' \in NetType
      <2>1. Tail(net.incoming) \in Seq(Frames)
        BY DEF WebSocketInv, TypeOK, NetType, OnReceiveMessage
      <2>2. net' = [net EXCEPT !.incoming = Tail(net.incoming)]
        BY DEF OnReceiveMessage
      <2> QED  BY <2>1, <2>2 DEF WebSocketInv, TypeOK, NetType
    <1>3. TypeOK'
      BY <1>1, <1>2 DEF WebSocketInv, TypeOK, TimerTypeOK, OnReceiveMessage, timerVars
    <1>4. SocketPlace'
      BY DEF WebSocketInv, SocketPlace, OnReceiveMessage
    <1>5. Told'
      BY DEF WebSocketInv, Told, OnReceiveMessage, TellDelegate
    <1>6. TimersInv'
      BY DEF WebSocketInv, TimersInv, OnReceiveMessage, timerVars
    <1>7. ClosingInv'
      BY DEF WebSocketInv, ClosingInv, BothClosed, OnReceiveMessage
    <1>8. AbnormalOnlyIfFailed'
      BY DEF WebSocketInv, AbnormalOnlyIfFailed, OnReceiveMessage, TellDelegate
    <1>9. BufferedInv'
      BY DEF WebSocketInv, BufferedInv, Writers, TypeOK, NetType, OnReceiveMessage
    <1>10. Places' /\ Opcodes' /\ DestroyedIsQuiet' /\ OneClose' /\ Behind'
      BY DEF WebSocketInv, Places, Opcodes, DestroyedIsQuiet, OneClose, Behind, At,
         Writers, OnReceiveMessage, timerVars
    <1> QED  BY <1>3, <1>4, <1>5, <1>6, <1>7, <1>8, <1>9, <1>10 DEF WebSocketInv

(***************************************************************************)
(* A message is delivered while the socket is open.                        *)
(***************************************************************************)
LEMMA KeepsReceivedBinary ==
    ASSUME WebSocketInv, ReceivedBinary
    PROVE  WebSocketInv'
    <1> USE WebSocketImplAssumption
    <1>1. chunk' \in Seq(Frames)
      BY DEF WebSocketInv, TypeOK, ReceivedBinary, Consume
    <1>2. app' \in AppType
      BY Tells DEF WebSocketInv, TypeOK, Calls, ReceivedBinary
    <1>3. TypeOK'
      BY <1>1, <1>2 DEF WebSocketInv, TypeOK, TimerTypeOK, ReceivedBinary, Consume,
         timerVars
    <1>4. Told'
      BY DEF WebSocketInv, Told, ReceivedBinary, TellDelegate
    <1>5. AbnormalOnlyIfFailed'
      BY DEF WebSocketInv, AbnormalOnlyIfFailed, ReceivedBinary, TellDelegate
    <1>6. Places' /\ Opcodes' /\ SocketPlace' /\ TimersInv' /\ DestroyedIsQuiet' /\
         ClosingInv' /\ OneClose' /\ Behind' /\ BufferedInv'
      BY DEF WebSocketInv, Places, Opcodes, SocketPlace, TimersInv, DestroyedIsQuiet,
         ClosingInv, OneClose, Behind, BufferedInv, At, BothClosed, Writers,
         ReceivedBinary, Consume, timerVars
    <1> QED  BY <1>3, <1>4, <1>5, <1>6 DEF WebSocketInv

(***************************************************************************)
(* A PING may displace the CLOSE to be echoed, never add one.              *)
(***************************************************************************)
LEMMA KeepsReceivedPing ==
    ASSUME WebSocketInv, ReceivedPing
    PROVE  WebSocketInv'
    <1> USE WebSocketImplAssumption
    <1>1. chunk' \in Seq(Frames)
      BY DEF WebSocketInv, TypeOK, ReceivedPing, Consume
    <1>2. ws' \in FieldsType
      BY DEF WebSocketInv, TypeOK, FieldsType, ReceivedPing
    <1>3. TypeOK'
      BY <1>1, <1>2 DEF WebSocketInv, TypeOK, TimerTypeOK, Mishaps, ReceivedPing, Consume,
         Happens, timerVars
    <1>4. SocketPlace'
      BY DEF WebSocketInv, SocketPlace, ReceivedPing
    <1>5. Told'
      BY DEF WebSocketInv, Told, ReceivedPing
    <1>6. ClosingInv'
      BY DEF WebSocketInv, ClosingInv, BothClosed, ReceivedPing, Consume
    <1>7. OneClose'
      BY DEF WebSocketInv, OneClose, One, TypeOK, ReceivedPing, Consume, timerVars
    <1>8. BufferedInv'
      BY DEF WebSocketInv, BufferedInv, Writers, TypeOK, FieldsType, ReceivedPing
    <1>9. Places' /\ Opcodes' /\ TimersInv' /\ DestroyedIsQuiet' /\ AbnormalOnlyIfFailed'
         /\ Behind'
      BY DEF WebSocketInv, Places, Opcodes, TimersInv, DestroyedIsQuiet,
         AbnormalOnlyIfFailed, Behind, At, Writers, ReceivedPing, Consume, timerVars
    <1> QED  BY <1>3, <1>4, <1>5, <1>6, <1>7, <1>8, <1>9 DEF WebSocketInv

(***************************************************************************)
(* receivedPong stops the response timer, or crashes where it finds none.  *)
(***************************************************************************)
LEMMA KeepsReceivedPong ==
    ASSUME WebSocketInv, ReceivedPong
    PROVE  WebSocketInv'
    <1>0. /\ pc["socket"] = "consume" /\ triggered' = triggered
          /\ chunk' = Tail(chunk) /\ chunk # <<>>
          /\ UNCHANGED <<framing, mutex, op, timers, ws, app, net, sent>>
          /\ schedule' \subseteq schedule /\ mishaps' \subseteq mishaps \union Mishaps
          /\ pc' = pc \/ pc' = [pc EXCEPT !["socket"] = "crashed"]
      BY DEF ReceivedPong, Consume, At, Stop, Goes, Happens, Mishaps, timerVars
    <1>1. chunk' \in Seq(Frames)
      BY <1>0 DEF WebSocketInv, TypeOK
    <1>2. TypeOK'
      BY <1>0, <1>1 DEF WebSocketInv, TypeOK, TimerTypeOK, Threads
    <1>3. Places' /\ Opcodes'
      BY <1>0 DEF WebSocketInv, Places, Opcodes, TypeOK, Threads, Sending, Writing, Locking
    <1>4. SocketPlace' /\ Told' /\ AbnormalOnlyIfFailed'
      BY <1>0 DEF WebSocketInv, SocketPlace, Told, AbnormalOnlyIfFailed, TypeOK, Threads, Sending, Writing
    <1>5. TimersInv'
      BY <1>0 DEF WebSocketInv, TimersInv, TypeOK, Threads
    <1>6. DestroyedIsQuiet'
      BY <1>0 DEF WebSocketInv, DestroyedIsQuiet, At, TypeOK, Threads
    <1>7. ClosingInv' /\ OneClose'
      BY <1>0 DEF WebSocketInv, ClosingInv, BothClosed, OneClose, TypeOK, Threads
    <1>8. Writers' = Writers
      BY <1>0 DEF Writers, One, WebSocketInv, TypeOK, Threads, Writing
    <1>9. Behind' /\ BufferedInv'
      BY <1>0, <1>8 DEF WebSocketInv, Behind, BufferedInv
    <1> QED  BY <1>2, <1>3, <1>4, <1>5, <1>6, <1>7, <1>9 DEF WebSocketInv

(***************************************************************************)
(* The peer's first CLOSE: if it is to be echoed, nobody had a CLOSE; if it*)
(* is an answer, both ends have closed.  The ping timer is gone, and its   *)
(* callback may still be running while the thread waits.                   *)
(***************************************************************************)
LEMMA KeepsReceivedClose ==
    ASSUME WebSocketInv, ReceivedClose
    PROVE  WebSocketInv'
    <1> USE WebSocketImplAssumption
    <1>1. chunk' \in Seq(Frames)
      BY DEF WebSocketInv, TypeOK, ReceivedClose, Consume
    <1>2. ws' \in FieldsType
      BY DEF WebSocketInv, TypeOK, FieldsType, ReceivedClose
    <1>3. net' \in NetType
      BY DEF WebSocketInv, TypeOK, NetType, ReceivedClose
    <1>4. TypeOK'
      BY <1>1, <1>2, <1>3 DEF WebSocketInv, TypeOK, TimerTypeOK, ReceivedClose, Consume,
         DestroyTimers, Stop, Goes
    <1>5. Places'
      BY DEF WebSocketInv, Places, Locking, ReceivedClose, Consume, At, DestroyTimers,
         Goes
    <1>6. Opcodes'
      BY DEF WebSocketInv, Opcodes, Sending, Writing, ReceivedClose, Consume, At,
         DestroyTimers, Goes
    <1>7. SocketPlace'
      BY DEF WebSocketInv, SocketPlace, ReceivedClose, Consume, At, DestroyTimers, Goes
    <1>8. Told'
      BY DEF WebSocketInv, Told, ReceivedClose
    <1>9. TimersInv'
      BY DEF WebSocketInv, TimersInv, ReceivedClose, DestroyTimers, Stop, Goes
    <1>10. DestroyedIsQuiet'
      BY DEF WebSocketInv, DestroyedIsQuiet, TypeOK, At, Threads, ReceivedClose, Consume,
         DestroyTimers, Stop, Goes
    <1>11. ClosingInv'
      BY DEF WebSocketInv, ClosingInv, BothClosed, TypeOK, NetType, ReceivedClose
    <1>12. AbnormalOnlyIfFailed'
      BY DEF WebSocketInv, AbnormalOnlyIfFailed, ReceivedClose
    <1>13. OneClose'
      BY DEF WebSocketInv, OneClose, One, TypeOK, ReceivedClose, Consume
    <1>14. Behind'
      BY DEF WebSocketInv, Behind, Writers, One, TypeOK, Writing, ReceivedClose, Consume,
         DestroyTimers, Goes
    <1>15. BufferedInv'
      BY DEF WebSocketInv, BufferedInv, Writers, One, TypeOK, FieldsType, NetType,
         Writing, ReceivedClose, DestroyTimers, Goes
    <1> QED  BY <1>4, <1>5, <1>6, <1>7, <1>8, <1>9, <1>10, <1>11, <1>12, <1>13, <1>14,
             <1>15 DEF WebSocketInv

(***************************************************************************)
(* A repeated CLOSE changes nothing but the data left.                     *)
(***************************************************************************)
LEMMA KeepsReceivedCloseAgain ==
    ASSUME WebSocketInv, ReceivedCloseAgain
    PROVE  WebSocketInv'
    <1> USE WebSocketImplAssumption
    <1>1. chunk' \in Seq(Frames)
      BY DEF WebSocketInv, ReceivedCloseAgain
    <1>2. TypeOK'
      BY <1>1 DEF WebSocketInv, TypeOK, TimerTypeOK, ReceivedCloseAgain, timerVars
    <1>3. Places' /\ Opcodes' /\ SocketPlace' /\ Told' /\ TimersInv' /\ DestroyedIsQuiet'
         /\ ClosingInv' /\ AbnormalOnlyIfFailed' /\ OneClose' /\ Behind' /\
         BufferedInv'
      BY DEF WebSocketInv, Places, Opcodes, SocketPlace, Told, TimersInv,
         DestroyedIsQuiet, ClosingInv, AbnormalOnlyIfFailed, OneClose, Behind,
         BufferedInv, At, BothClosed, Writers, ReceivedCloseAgain, timerVars
    <1> QED  BY <1>2, <1>3 DEF WebSocketInv

(***************************************************************************)
(* protocolError gives the reason before it closes the socket.             *)
(***************************************************************************)
LEMMA KeepsReceivedBad ==
    ASSUME WebSocketInv, ReceivedBad
    PROVE  WebSocketInv'
    <1> USE WebSocketImplAssumption
    <1>1. chunk' \in Seq(Frames)
      BY DEF WebSocketInv, ReceivedBad
    <1>2. ws' \in FieldsType
      BY DEF WebSocketInv, TypeOK, FieldsType, ReceivedBad
    <1>3. net' \in NetType
      BY DEF WebSocketInv, TypeOK, NetType, ReceivedBad, CloseSocket
    <1>4. TypeOK'
      BY <1>1, <1>2, <1>3 DEF WebSocketInv, TypeOK, TimerTypeOK, ReceivedBad, timerVars
    <1>5. SocketPlace'
      BY DEF WebSocketInv, SocketPlace, ReceivedBad, CloseSocket
    <1>6. Told'
      BY DEF WebSocketInv, Told, ReceivedBad, CloseSocket
    <1>7. TimersInv'
      BY DEF WebSocketInv, TimersInv, ReceivedBad, CloseSocket, timerVars
    <1>8. ClosingInv'
      BY DEF WebSocketInv, ClosingInv, BothClosed, ReceivedBad, CloseSocket
    <1>9. AbnormalOnlyIfFailed'
      BY DEF WebSocketInv, AbnormalOnlyIfFailed, Told, SocketPlace, ReceivedBad, At
    <1>10. OneClose'
      BY DEF WebSocketInv, OneClose, ReceivedBad
    <1>11. BufferedInv'
      BY DEF WebSocketInv, BufferedInv, Writers, TypeOK, NetType, ReceivedBad, CloseSocket
    <1>12. Places' /\ Opcodes' /\ DestroyedIsQuiet' /\ Behind'
      BY DEF WebSocketInv, Places, Opcodes, DestroyedIsQuiet, Behind, At, Writers,
         ReceivedBad, timerVars
    <1> QED  BY <1>4, <1>5, <1>6, <1>7, <1>8, <1>9, <1>10, <1>11, <1>12 DEF WebSocketInv

(***************************************************************************)
(* The end of onReceive: the CLOSE to be echoed passes from _msgToSend to  *)
(* sendOp.                                                                 *)
(***************************************************************************)
LEMMA KeepsReceiveDone ==
    ASSUME WebSocketInv, ReceiveDone
    PROVE  WebSocketInv'
    <1>0. /\ pc["socket"] = "consume" /\ op["socket"] = "none"
          /\ mutex' = "none" /\ ws' = [ws EXCEPT !.msgToSend = "none"]
          /\ UNCHANGED <<framing, timers, schedule, triggered, chunk, app, net, sent, mishaps>>
          /\ \/ /\ ws.msgToSend # "none"
                /\ pc' = [pc EXCEPT !["socket"] = "sendOp"]
                /\ op' = [op EXCEPT !["socket"] = ws.msgToSend]
             \/ /\ op' = op
                /\ pc' = [pc EXCEPT !["socket"] = "idle"]
      BY DEF ReceiveDone, At, Calling, Goes, timerVars, WebSocketInv, Opcodes, Sending, Writing, Threads
    <1>1. ws' \in FieldsType /\ ws.msgToSend \in {"none", "PONG", "CLOSE"}
      BY <1>0 DEF WebSocketInv, TypeOK, FieldsType
    <1>2. TypeOK'
      BY <1>0, <1>1 DEF WebSocketInv, TypeOK, TimerTypeOK, Threads
    <1>3. Places' /\ Opcodes'
      BY <1>0, <1>1 DEF WebSocketInv, Places, Opcodes, TypeOK, Threads, Sending, Writing, Locking
    <1>4. ws'.closed = ws.closed /\ ws'.closeSent = ws.closeSent /\ ws'.buffered = ws.buffered
          /\ ws'.closeReceived = ws.closeReceived /\ ws'.timedOut = ws.timedOut
          /\ ws'.protocolError = ws.protocolError /\ ws'.msgToSend = "none"
      BY <1>0 DEF WebSocketInv, TypeOK, FieldsType
    <1>5. SocketPlace'
      BY <1>0, <1>4 DEF WebSocketInv, SocketPlace, TypeOK, Threads, Sending, Writing
    <1>6. Told' /\ AbnormalOnlyIfFailed'
      BY <1>0, <1>4 DEF WebSocketInv, Told, AbnormalOnlyIfFailed
    <1>7. TimersInv' /\ DestroyedIsQuiet'
      BY <1>0 DEF WebSocketInv, TimersInv, DestroyedIsQuiet, At, TypeOK, Threads
    <1>8. ClosingInv'
      BY <1>0, <1>4 DEF WebSocketInv, ClosingInv, BothClosed, TypeOK, Threads
    <1>9. OneClose'
      BY <1>0, <1>1, <1>4 DEF WebSocketInv, OneClose, One, TypeOK, Threads
    <1>10. Writers' = Writers
      BY <1>0 DEF Writers, One, WebSocketInv, TypeOK, Threads, Writing
    <1>11. Behind' /\ BufferedInv'
      BY <1>0, <1>4, <1>10 DEF WebSocketInv, Behind, BufferedInv
    <1> QED
      BY <1>2, <1>3, <1>5, <1>6, <1>7, <1>8, <1>9, <1>11 DEF WebSocketInv

(***************************************************************************)
(* The callback of the ping timer has returned, and it cannot be scheduled *)
(* again; then it is the response timer's turn.                            *)
(***************************************************************************)
LEMMA KeepsPingTimerGone ==
    ASSUME WebSocketInv, PingTimerGone
    PROVE  WebSocketInv'
    <1> USE WebSocketImplAssumption
    <1>1. TypeOK'
      BY DEF WebSocketInv, TypeOK, TimerTypeOK, PingTimerGone, Stop, Goes
    <1>2. Places'
      BY DEF WebSocketInv, Places, Locking, PingTimerGone, At, Goes
    <1>3. Opcodes'
      BY DEF WebSocketInv, Opcodes, Sending, Writing, PingTimerGone, At, Goes
    <1>4. SocketPlace'
      BY DEF WebSocketInv, SocketPlace, Sending, Writing, PingTimerGone, At, Goes
    <1>5. TimersInv'
      BY DEF WebSocketInv, TimersInv, SocketPlace, TypeOK, PingTimerGone, At, Stop, Goes
    <1>6. DestroyedIsQuiet'
      BY DEF WebSocketInv, DestroyedIsQuiet, TypeOK, At, Threads, PingTimerGone, HasFired,
         Stop, Goes
    <1>7. ClosingInv'
      BY DEF WebSocketInv, ClosingInv, BothClosed, PingTimerGone, Goes
    <1>8. Behind'
      BY DEF WebSocketInv, Behind, Writers, One, TypeOK, Writing, PingTimerGone, Goes
    <1>9. BufferedInv'
      BY DEF WebSocketInv, BufferedInv, Writers, One, TypeOK, FieldsType, NetType,
         Writing, PingTimerGone, Goes
    <1>10. Told' /\ AbnormalOnlyIfFailed' /\ OneClose'
      BY DEF WebSocketInv, Told, AbnormalOnlyIfFailed, OneClose, PingTimerGone
    <1> QED  BY <1>1, <1>2, <1>3, <1>4, <1>5, <1>6, <1>7, <1>8, <1>9, <1>10 DEF
             WebSocketInv

(***************************************************************************)
(* The callback of the response timer has returned too.                    *)
(***************************************************************************)
LEMMA KeepsResponseTimerGone ==
    ASSUME WebSocketInv, ResponseTimerGone
    PROVE  WebSocketInv'
    <1> USE WebSocketImplAssumption
    <1>1. TypeOK'
      BY DEF WebSocketInv, TypeOK, TimerTypeOK, ResponseTimerGone, Goes, timerVars
    <1>2. Places'
      BY DEF WebSocketInv, Places, Locking, ResponseTimerGone, At, Goes
    <1>3. Opcodes'
      BY DEF WebSocketInv, Opcodes, Sending, Writing, ResponseTimerGone, At, Goes
    <1>4. SocketPlace'
      BY DEF WebSocketInv, SocketPlace, Sending, Writing, ResponseTimerGone, At, Goes
    <1>5. TimersInv'
      BY DEF WebSocketInv, TimersInv, ResponseTimerGone, Goes, timerVars
    <1>6. DestroyedIsQuiet'
      BY DEF WebSocketInv, DestroyedIsQuiet, At, ResponseTimerGone, HasFired, timerVars
    <1>7. ClosingInv'
      BY DEF WebSocketInv, ClosingInv, BothClosed, ResponseTimerGone, Goes
    <1>8. Behind'
      BY DEF WebSocketInv, Behind, Writers, One, TypeOK, Writing, ResponseTimerGone, Goes
    <1>9. BufferedInv'
      BY DEF WebSocketInv, BufferedInv, Writers, One, TypeOK, FieldsType, NetType,
         Writing, ResponseTimerGone, Goes
    <1>10. Told' /\ AbnormalOnlyIfFailed' /\ OneClose'
      BY DEF WebSocketInv, Told, AbnormalOnlyIfFailed, OneClose, ResponseTimerGone
    <1> QED  BY <1>1, <1>2, <1>3, <1>4, <1>5, <1>6, <1>7, <1>8, <1>9, <1>10 DEF
             WebSocketInv

(***************************************************************************)
(* A frame that was written had been counted, so _bufferedBytes stays a    *)
(* natural number.                                                         *)
(***************************************************************************)
LEMMA KeepsOnWriteComplete ==
    ASSUME WebSocketInv, OnWriteComplete
    PROVE  WebSocketInv'
    <1> USE WebSocketImplAssumption
    <1>1. ws' \in FieldsType
      <2>1. ws.buffered - 1 \in Nat
        <3>1. Len(net.outgoing) \in Nat /\ Len(net.outgoing) >= 1
          BY DEF WebSocketInv, TypeOK, NetType, OnWriteComplete
        <3>2. Writers \in Nat
          BY DEF Writers, One
        <3> QED  BY <3>1, <3>2 DEF WebSocketInv, TypeOK, FieldsType, BufferedInv
      <2>2. ws' = [ws EXCEPT !.buffered = ws.buffered - 1]
        BY DEF OnWriteComplete
      <2> QED  BY <2>1, <2>2 DEF WebSocketInv, TypeOK, FieldsType
    <1>2. net' \in NetType
      <2> DEFINE owed == IF Head(net.outgoing) = "PING" THEN net.pongsOwed + 1 ELSE net.pongsOwed
      <2>1. Tail(net.outgoing) \in Seq(Frames) /\ owed \in Nat
        BY DEF WebSocketInv, TypeOK, NetType, OnWriteComplete
      <2>2. net' = [net EXCEPT !.outgoing = Tail(net.outgoing), !.pongsOwed = owed]
        BY DEF OnWriteComplete, WebSocketInv, TypeOK, NetType
      <2> HIDE DEF owed
      <2> QED  BY <2>1, <2>2 DEF WebSocketInv, TypeOK, NetType
    <1>3. TypeOK'
      BY <1>1, <1>2 DEF WebSocketInv, TypeOK, TimerTypeOK, OnWriteComplete, Goes,
         timerVars
    <1>4. Places'
      BY DEF WebSocketInv, Places, Locking, OnWriteComplete, SocketIdle, At, Goes
    <1>5. Opcodes'
      BY DEF WebSocketInv, Opcodes, Sending, Writing, OnWriteComplete, SocketIdle, At,
         Goes
    <1>6. SocketPlace'
      BY DEF WebSocketInv, SocketPlace, OnWriteComplete, Goes
    <1>7. Told'
      BY DEF WebSocketInv, Told, OnWriteComplete
    <1>8. TimersInv'
      BY DEF WebSocketInv, TimersInv, OnWriteComplete, Goes, timerVars
    <1>9. DestroyedIsQuiet'
      BY DEF WebSocketInv, DestroyedIsQuiet, At, OnWriteComplete, SocketIdle, timerVars
    <1>10. ClosingInv'
      BY DEF WebSocketInv, ClosingInv, BothClosed, OnWriteComplete, Disconnects, Goes
    <1>11. AbnormalOnlyIfFailed'
      BY DEF WebSocketInv, AbnormalOnlyIfFailed, OnWriteComplete
    <1>12. OneClose'
      BY DEF WebSocketInv, OneClose, OnWriteComplete
    <1>13. Behind'
      BY DEF WebSocketInv, Behind, Writers, One, TypeOK, Writing, OnWriteComplete, Goes
    <1>14. BufferedInv'
      BY DEF WebSocketInv, BufferedInv, Writers, One, TypeOK, FieldsType, NetType,
         Writing, OnWriteComplete, Goes
    <1> QED  BY <1>3, <1>4, <1>5, <1>6, <1>7, <1>8, <1>9, <1>10, <1>11, <1>12, <1>13,
             <1>14 DEF WebSocketInv

(***************************************************************************)
(* onWriteComplete disconnects when both ends have closed, and otherwise   *)
(* tells the delegate while it is connected.                               *)
(***************************************************************************)
LEMMA KeepsAfterWrite ==
    ASSUME WebSocketInv, AfterWrite
    PROVE  WebSocketInv'
    <1> USE WebSocketImplAssumption
    <1>1. net' \in NetType
      BY DEF WebSocketInv, TypeOK, NetType, AfterWrite, CloseSocket
    <1>2. app' \in AppType
      BY Tells DEF WebSocketInv, TypeOK, Calls, AfterWrite
    <1>3. TypeOK'
      BY <1>1, <1>2 DEF WebSocketInv, TypeOK, TimerTypeOK, AfterWrite, Goes, timerVars
    <1>4. Places'
      BY DEF WebSocketInv, Places, Locking, AfterWrite, At, Goes
    <1>5. Opcodes'
      BY DEF WebSocketInv, Opcodes, Sending, Writing, AfterWrite, At, Goes
    <1>6. SocketPlace'
      BY DEF WebSocketInv, SocketPlace, TypeOK, NetType, AfterWrite, At, CloseSocket, Goes
    <1>7. Told'
      BY DEF WebSocketInv, Told, TypeOK, AppType, NetType, AfterWrite, At, CloseSocket,
         TellDelegate
    <1>8. TimersInv'
      BY DEF WebSocketInv, TimersInv, TypeOK, NetType, AfterWrite, CloseSocket, Goes,
         timerVars
    <1>9. DestroyedIsQuiet'
      BY DEF WebSocketInv, DestroyedIsQuiet, At, AfterWrite, timerVars
    <1>10. ClosingInv'
      BY DEF WebSocketInv, ClosingInv, BothClosed, TypeOK, NetType, AfterWrite, At,
         CloseSocket, Goes
    <1>11. AbnormalOnlyIfFailed'
      BY DEF WebSocketInv, AbnormalOnlyIfFailed, Told, SocketPlace, TypeOK, AppType,
         AfterWrite, At, TellDelegate
    <1>12. Behind'
      BY DEF WebSocketInv, Behind, Writers, One, TypeOK, Writing, AfterWrite, Goes
    <1>13. BufferedInv'
      BY DEF WebSocketInv, BufferedInv, Writers, One, TypeOK, NetType, Threads, Writing,
         AfterWrite, At, CloseSocket, Goes
    <1>14. OneClose'
      BY DEF WebSocketInv, OneClose, AfterWrite
    <1> QED  BY <1>3, <1>4, <1>5, <1>6, <1>7, <1>8, <1>9, <1>10, <1>11, <1>12, <1>13,
             <1>14 DEF WebSocketInv

(***************************************************************************)
(* onClose: the socket has ended once and for all, and without a reason    *)
(* only if the network failed.                                             *)
(***************************************************************************)
LEMMA KeepsOnClose ==
    ASSUME WebSocketInv, OnClose
    PROVE  WebSocketInv'
    <1> USE WebSocketImplAssumption
    <1>1. net' \in NetType
      <2>1. <<>> \in Seq(Frames)
        OBVIOUS
      <2> QED  BY <2>1 DEF WebSocketInv, TypeOK, NetType, OnClose, SocketEnds
    <1>2. TypeOK'
      BY <1>1 DEF WebSocketInv, TypeOK, TimerTypeOK, OnClose, DestroyTimers, Stop, Goes
    <1>3. Places'
      BY DEF WebSocketInv, Places, TypeOK, Threads, Locking, OnClose, DestroyTimers, Goes
    <1>4. Opcodes'
      BY DEF WebSocketInv, Opcodes, Sending, Writing, OnClose, At, DestroyTimers, Goes
    <1>5. SocketPlace'
      BY DEF WebSocketInv, SocketPlace, TypeOK, Threads, Sending, Writing, OnClose,
         SocketEnds, DestroyTimers, Goes
    <1>6. Told'
      BY DEF WebSocketInv, Told, OnClose, SocketEnds
    <1>7. TimersInv'
      BY DEF WebSocketInv, TimersInv, OnClose, SocketEnds, DestroyTimers, Stop, Goes
    <1>8. DestroyedIsQuiet'
      BY DEF WebSocketInv, DestroyedIsQuiet, TypeOK, At, Threads, OnClose, DestroyTimers,
         Stop, Goes
    <1>9. ClosingInv'
      BY DEF WebSocketInv, ClosingInv, BothClosed, OnClose, SocketEnds, DestroyTimers,
         Goes
    <1>10. AbnormalOnlyIfFailed'
      BY DEF WebSocketInv, AbnormalOnlyIfFailed, Told, OnClose
    <1>11. Behind'
      BY DEF WebSocketInv, Behind, Writers, One, TypeOK, Writing, OnClose, DestroyTimers,
         Goes
    <1>12. BufferedInv'
      BY DEF WebSocketInv, BufferedInv, Writers, One, TypeOK, FieldsType, NetType,
         Writing, OnClose, SocketEnds, DestroyTimers, Goes
    <1>13. OneClose'
      BY DEF WebSocketInv, OneClose, OnClose
    <1> QED  BY <1>2, <1>3, <1>4, <1>5, <1>6, <1>7, <1>8, <1>9, <1>10, <1>11, <1>12, <1>13
             DEF WebSocketInv

(***************************************************************************)
(* The end of onClose: the delegate had not been told of the end, and is   *)
(* told "abnormal" only if the network failed.                             *)
(***************************************************************************)
LEMMA KeepsOnCloseEnds ==
    ASSUME WebSocketInv, OnCloseEnds
    PROVE  WebSocketInv'
    <1> USE WebSocketImplAssumption
    <1>1. app' \in AppType
      <2>1. PICK report \in {"errno", "eof", "closed"} :
               app' = [app EXCEPT !.heard = app.heard + 1, !.phase = "closed",
                                  !.status = Status(report), !.mailbox = Append(app.mailbox, "close")]
        BY DEF OnCloseEnds, WebSocketInv, TypeOK, AppType
      <2>2. /\ app.heard + 1 \in Nat /\ Append(app.mailbox, "close") \in Seq(Calls)
            /\ Status(report) \in {"none", "clean", "abnormal", "timeout", "protocolError", "error"}
        BY DEF WebSocketInv, TypeOK, AppType, Calls, Status
      <2> QED  BY <2>1, <2>2 DEF WebSocketInv, TypeOK, AppType
    <1>2. ws' \in FieldsType
      BY DEF WebSocketInv, TypeOK, FieldsType, OnCloseEnds
    <1>3. TypeOK'
      BY <1>1, <1>2 DEF WebSocketInv, TypeOK, TimerTypeOK, OnCloseEnds, Goes, timerVars
    <1>4. Places'
      BY DEF WebSocketInv, Places, TypeOK, Threads, Locking, OnCloseEnds, Goes
    <1>5. Opcodes'
      BY DEF WebSocketInv, Opcodes, Sending, Writing, OnCloseEnds, At, Goes
    <1>6. SocketPlace'
      BY DEF WebSocketInv, SocketPlace, TypeOK, Threads, Sending, Writing, OnCloseEnds,
         At, Goes
    <1>7. Told'
      BY DEF WebSocketInv, Told, SocketPlace, OnCloseEnds, At
    <1>8. TimersInv'
      BY DEF WebSocketInv, TimersInv, OnCloseEnds, Goes, timerVars
    <1>9. DestroyedIsQuiet'
      BY DEF WebSocketInv, DestroyedIsQuiet, At, OnCloseEnds, timerVars
    <1>10. ClosingInv'
      BY DEF WebSocketInv, ClosingInv, BothClosed, OnCloseEnds, Goes
    <1>11. AbnormalOnlyIfFailed'
      BY DEF WebSocketInv, AbnormalOnlyIfFailed, ClosingInv, BothClosed, SocketPlace,
         OnCloseEnds, At, Status
    <1>12. OneClose'
      BY DEF WebSocketInv, OneClose, OnCloseEnds
    <1>13. Behind'
      BY DEF WebSocketInv, Behind, Writers, One, TypeOK, Writing, OnCloseEnds, Goes
    <1>14. BufferedInv'
      BY DEF WebSocketInv, BufferedInv, Writers, One, TypeOK, FieldsType, NetType,
         Writing, OnCloseEnds, Goes
    <1> QED  BY <1>3, <1>4, <1>5, <1>6, <1>7, <1>8, <1>9, <1>10, <1>11, <1>12, <1>13,
             <1>14 DEF WebSocketInv

(***************************************************************************)
(* A frame of the peer's arrives only while the socket is open.            *)
(***************************************************************************)
LEMMA KeepsPeerSends ==
    ASSUME WebSocketInv, NEW frame \in {"BINARY", "PING", "CLOSE", "BAD"}, PeerSends(frame)
    PROVE  WebSocketInv'
    <1> USE WebSocketImplAssumption
    <1>1. net' \in NetType
      <2>1. /\ Append(net.peerSent, frame) \in Seq(Frames)
            /\ Append(net.incoming, frame) \in Seq(Frames)
        BY DEF WebSocketInv, TypeOK, NetType, Frames
      <2>2. net' = [net EXCEPT !.peerSent = Append(net.peerSent, frame),
                               !.incoming = Append(net.incoming, frame)]
        BY DEF PeerSends, WebSocketInv, TypeOK, NetType
      <2> QED  BY <2>1, <2>2 DEF WebSocketInv, TypeOK, NetType
    <1>2. TypeOK'
      BY <1>1 DEF WebSocketInv, TypeOK, TimerTypeOK, PeerSends, timerVars
    <1>3. SocketPlace'
      BY DEF WebSocketInv, SocketPlace, PeerSends
    <1>4. Told'
      BY DEF WebSocketInv, Told, PeerSends
    <1>5. TimersInv'
      BY DEF WebSocketInv, TimersInv, PeerSends, timerVars
    <1>6. ClosingInv'
      BY DEF WebSocketInv, ClosingInv, BothClosed, PeerSends
    <1>7. AbnormalOnlyIfFailed'
      BY DEF WebSocketInv, AbnormalOnlyIfFailed, PeerSends
    <1>8. BufferedInv'
      BY DEF WebSocketInv, BufferedInv, Writers, TypeOK, NetType, PeerSends
    <1>9. Places' /\ Opcodes' /\ DestroyedIsQuiet' /\ OneClose' /\ Behind'
      BY DEF WebSocketInv, Places, Opcodes, DestroyedIsQuiet, OneClose, Behind, At,
         Writers, PeerSends, timerVars
    <1> QED  BY <1>2, <1>3, <1>4, <1>5, <1>6, <1>7, <1>8, <1>9 DEF WebSocketInv

(***************************************************************************)
(* A PONG of the peer's arrives only while the socket is open.             *)
(***************************************************************************)
LEMMA KeepsPeerPongs ==
    ASSUME WebSocketInv, PeerPongs
    PROVE  WebSocketInv'
    <1> USE WebSocketImplAssumption
    <1>1. net' \in NetType
      <2>1. net.pongsOwed - 1 \in Nat /\ Append(net.incoming, "PONG") \in Seq(Frames)
        BY DEF WebSocketInv, TypeOK, NetType, Frames, PeerPongs
      <2>2. net' = [net EXCEPT !.pongsOwed = net.pongsOwed - 1,
                               !.incoming = Append(net.incoming, "PONG")]
        BY DEF PeerPongs, WebSocketInv, TypeOK, NetType
      <2> QED  BY <2>1, <2>2 DEF WebSocketInv, TypeOK, NetType
    <1>2. TypeOK'
      BY <1>1 DEF WebSocketInv, TypeOK, TimerTypeOK, PeerPongs, timerVars
    <1>3. SocketPlace'
      BY DEF WebSocketInv, SocketPlace, PeerPongs
    <1>4. Told'
      BY DEF WebSocketInv, Told, PeerPongs
    <1>5. TimersInv'
      BY DEF WebSocketInv, TimersInv, PeerPongs, timerVars
    <1>6. ClosingInv'
      BY DEF WebSocketInv, ClosingInv, BothClosed, PeerPongs
    <1>7. AbnormalOnlyIfFailed'
      BY DEF WebSocketInv, AbnormalOnlyIfFailed, PeerPongs
    <1>8. BufferedInv'
      BY DEF WebSocketInv, BufferedInv, Writers, TypeOK, NetType, PeerPongs
    <1>9. Places' /\ Opcodes' /\ DestroyedIsQuiet' /\ OneClose' /\ Behind'
      BY DEF WebSocketInv, Places, Opcodes, DestroyedIsQuiet, OneClose, Behind, At,
         Writers, PeerPongs, timerVars
    <1> QED  BY <1>2, <1>3, <1>4, <1>5, <1>6, <1>7, <1>8, <1>9 DEF WebSocketInv

-----------------------------------------------------------------------------
(***************************************************************************)
(* The initial states satisfy the invariant.                               *)
(***************************************************************************)
LEMMA WebSocketInit == Init => WebSocketInv
    <1> SUFFICES ASSUME Init PROVE WebSocketInv
      OBVIOUS
    <1> USE WebSocketImplAssumption DEF Init, TimerInit
    <1>0. <<>> \in Seq(Frames) /\ <<>> \in Seq(Calls) /\ Len(<<>>) = 0 /\ Cardinality({}) = 0
      BY FS_EmptySet
    <1>1. ws \in FieldsType /\ app \in AppType /\ net \in NetType
      BY <1>0 DEF FieldsType, AppType, NetType
    <1>2. TypeOK
      BY <1>0, <1>1 DEF TypeOK, TimerTypeOK
    <1>3. Places /\ Opcodes /\ SocketPlace /\ Told
      BY DEF Places, Opcodes, SocketPlace, Told, Threads, Sending, Writing, Locking
    <1>4. TimersInv /\ DestroyedIsQuiet /\ ClosingInv /\ AbnormalOnlyIfFailed
      BY DEF TimersInv, DestroyedIsQuiet, ClosingInv, BothClosed, AbnormalOnlyIfFailed, Threads,
         Sending, Writing
    <1>5. OneClose /\ Behind /\ BufferedInv
      BY <1>0 DEF OneClose, One, Behind, BufferedInv, Writers, Threads, Writing
    <1> QED  BY <1>2, <1>3, <1>4, <1>5 DEF WebSocketInv

(***************************************************************************)
(* Steps that change nothing keep the invariant.                           *)
(***************************************************************************)
LEMMA WebSocketStutter ==
    ASSUME WebSocketInv, UNCHANGED vars
    PROVE  WebSocketInv'
    BY DEF vars, WebSocketInv, TypeOK, TimerTypeOK, Places, Opcodes, SocketPlace, Told, TimersInv,
       DestroyedIsQuiet, At, ClosingInv, BothClosed, AbnormalOnlyIfFailed, OneClose, Behind,
       BufferedInv, Writers

(***************************************************************************)
(* The inductive invariant holds in every reachable state.                 *)
(***************************************************************************)
THEOREM WebSocketInvariant == Spec => []WebSocketInv
    <1>1. ASSUME WebSocketInv, [Next]_vars PROVE WebSocketInv'
      <2>1. CASE Connect \/ Send \/ Close \/ RequestClose \/ OnConnect
        BY <1>1, <2>1, KeepsConnect, KeepsSend, KeepsClose, KeepsRequestClose, KeepsOnConnect
      <2>2. CASE ActorSteps
        BY <1>1, <2>2, KeepsHandleCall, KeepsSendOp, KeepsSendBytes DEF ActorSteps, Threads
      <2>3. CASE TimerSteps
        BY <1>1, <2>3, KeepsSendPing, KeepsSendOp, KeepsSendBytes, KeepsTimedOut, KeepsTimerReturns
           DEF TimerSteps, Threads
      <2>4. CASE ReceiveSteps
        BY <1>1, <2>4, KeepsOnReceive, KeepsOnReceiveMessage, KeepsReceivedBinary, KeepsReceivedPing,
           KeepsReceivedPong, KeepsReceivedClose, KeepsReceivedCloseAgain, KeepsReceivedBad,
           KeepsReceiveDone, KeepsSendOp, KeepsSendBytes DEF ReceiveSteps, Threads
      <2>5. CASE SocketSteps
        BY <1>1, <2>4, <2>5, KeepsMakePingTimer, KeepsPingTimerGone, KeepsResponseTimerGone,
           KeepsOnWriteComplete, KeepsAfterWrite, KeepsOnClose, KeepsOnCloseEnds DEF SocketSteps
      <2>6. ASSUME NEW t \in Timers, TimerFires(t) PROVE WebSocketInv'
        BY <1>1, <2>6, KeepsTimerFires
      <2>7. ASSUME NEW frame \in {"BINARY", "PING", "CLOSE", "BAD"}, PeerSends(frame)
            PROVE  WebSocketInv'
        BY <1>1, <2>7, KeepsPeerSends
      <2> QED
        BY <1>1, <2>1, <2>2, <2>3, <2>5, <2>6, <2>7, KeepsPeerPongs, WebSocketStutter DEF Next
    <1> QED  BY <1>1, WebSocketInit, PTL DEF Spec

(***************************************************************************)
(* ~Timer keeps its promise: a timer that is gone is not scheduled, and    *)
(* its callback does not run once the destructor has returned.             *)
(***************************************************************************)
THEOREM TimersAreQuiet == Spec => []DestroyedIsQuiet
    <1>1. WebSocketInv => DestroyedIsQuiet
      BY DEF WebSocketInv
    <1> QED  BY <1>1, WebSocketInvariant, PTL

(***************************************************************************)
(* At most one CLOSE is ever sent, and at most two frames behind it: those *)
(* the two other threads were already writing.                             *)
(***************************************************************************)
THEOREM OneCloseIsSent == Spec => []NearlyLast
    <1>1. Cardinality(Threads) = 3
      <2>1. Cardinality({"socket"}) = 1 /\ IsFiniteSet({"socket"})
        BY FS_Singleton
      <2>2. Cardinality({"socket", "actor"}) = 2 /\ IsFiniteSet({"socket", "actor"})
        <3>1. {"socket", "actor"} = {"socket"} \union {"actor"} /\ "actor" \notin {"socket"}
          OBVIOUS
        <3> QED  BY <2>1, <3>1, FS_AddElement
      <2>3. Threads = {"socket", "actor"} \union {"timer"} /\ "timer" \notin {"socket", "actor"}
        BY DEF Threads
      <2> QED  BY <2>2, <2>3, FS_AddElement
    <1>2. WebSocketInv => sent.closes <= 1 /\ sent.behind <= 2
      <2> SUFFICES ASSUME WebSocketInv PROVE sent.closes <= 1 /\ sent.behind <= 2
        OBVIOUS
      <2>1. sent.closes \in Nat /\ sent.behind \in Nat
        BY DEF WebSocketInv, TypeOK
      <2>2. sent.closes <= 1
        BY <2>1 DEF WebSocketInv, OneClose, One
      <2>3. sent.closes = 1 => sent.behind <= 2
        BY <2>1 DEF WebSocketInv, Behind, Writers, One
      <2> QED  BY <2>1, <2>2, <2>3 DEF WebSocketInv, Behind
    <1>3. WebSocketInv => NearlyLast
      BY <1>1, <1>2 DEF NearlyLast
    <1> QED  BY <1>3, WebSocketInvariant, PTL

(***************************************************************************)
(* The delegate is told of an abnormal end only if the network failed.     *)
(***************************************************************************)
THEOREM AbnormalEndsAreFailures == Spec => []AbnormalOnlyIfFailed
    <1>1. WebSocketInv => AbnormalOnlyIfFailed
      BY DEF WebSocketInv
    <1> QED  BY <1>1, WebSocketInvariant, PTL

-----------------------------------------------------------------------------
(***************************************************************************)
(* Every step of a WebSocketImpl is a step of the contract or one of which *)
(* the delegate hears nothing.                                             *)
(***************************************************************************)
LEMMA ContractStep ==
    ASSUME WebSocketInv, [Next]_vars
    PROVE  Contract!ContractNext \/ UNCHANGED Contract!cvars
    <1> USE DEF Contract!ContractNext, Contract!cvars
    <1>t. app \in AppType
      BY DEF WebSocketInv, TypeOK
    <1>1. CASE OnConnect
      <2>1. app.phase = "unopened"
        BY <1>1 DEF OnConnect, WebSocketInv, Told
      <2>2. app'.phase = "open" /\ app'.heard = app.heard + 1
        BY <1>1, <1>t, Tells DEF OnConnect, Calls
      <2> QED  BY <2>1, <2>2 DEF Contract!Connected
    <1>2. ASSUME TellDelegate("message") \/ TellDelegate("writeable"), net.socket = "open"
          PROVE  Contract!Transfer
      <2>1. app.phase = "open"
        BY <1>2 DEF WebSocketInv, Told
      <2>2. app'.phase = app.phase /\ app'.heard = app.heard + 1
        BY <1>2, <1>t, Tells DEF Calls
      <2> QED  BY <2>1, <2>2 DEF Contract!Transfer
    <1>3. CASE OnReceiveMessage \/ ReceivedBinary
      <2>1. net.socket = "open"
        BY <1>3 DEF OnReceiveMessage, SocketIdle, ReceivedBinary, Consume, At, WebSocketInv, Told,
           SocketPlace
      <2> QED  BY <1>2, <1>3, <2>1 DEF OnReceiveMessage, ReceivedBinary
    <1>4. CASE AfterWrite
      <2>1. net.socket = "open"
        BY <1>4 DEF AfterWrite, At, WebSocketInv, SocketPlace
      <2> QED  BY <1>2, <1>4, <2>1 DEF AfterWrite
    <1>5. CASE OnCloseEnds
      <2>1. app.phase # "closed"
        BY <1>5 DEF OnCloseEnds, At, WebSocketInv, Told, SocketPlace
      <2>2. app'.phase = "closed" /\ app'.heard = app.heard + 1
        BY <1>5, <1>t DEF OnCloseEnds, AppType
      <2> QED  BY <2>1, <2>2 DEF Contract!Closed
    <1>6. ASSUME NEW th \in Threads, SendOp(th) \/ SendBytes(th)
          PROVE  app'.phase = app.phase /\ app'.heard = app.heard
      <2>1. app' = app \/ \E result \in BOOLEAN : SendReturns(th, result)
        BY <1>6 DEF SendOp, SendBytes, At
      <2> QED  BY <2>1, <1>t, Returned
    <1>7. CASE HandleCall \/ Send
      BY <1>7, <1>t DEF HandleCall, Send, AppType
    <1>8. CASE app' = app
      BY <1>8
    <1>9. CASE ActorSteps \/ TimerSteps \/ ReceiveSteps
      BY <1>3, <1>6, <1>7, <1>8, <1>9 DEF ActorSteps, TimerSteps, ReceiveSteps, Threads, SendPing,
         TimedOut, TimerReturns, OnReceive, ReceivedPing, ReceivedPong, ReceivedClose,
         ReceivedCloseAgain, ReceivedBad, ReceiveDone
    <1>10. CASE SocketSteps
      BY <1>4, <1>5, <1>8, <1>9, <1>10 DEF SocketSteps, MakePingTimer, PingTimerGone,
         ResponseTimerGone, OnWriteComplete, OnClose
    <1> QED
      BY <1>1, <1>7, <1>8, <1>9, <1>10 DEF Next, vars, Connect, Close, RequestClose, TimerFires,
         PeerSends, PeerPongs

(***************************************************************************)
(* A WebSocketImpl implements WebSocketContract: its delegate is told of   *)
(* the connection at most once, of messages and room to write only while   *)
(* connected, and of the end once and last.                                *)
(***************************************************************************)
THEOREM ContractIsKept == Spec => KeepsContract
    <1>1. Init => Contract!ContractInit
      BY DEF Init, Contract!ContractInit
    <1>2. WebSocketInv /\ [Next]_vars => [Contract!ContractNext]_(Contract!cvars)
      BY ContractStep
    <1> QED
      BY <1>1, <1>2, WebSocketInvariant, PTL DEF Spec, KeepsContract, Contract!ContractSpec
=============================================================================
