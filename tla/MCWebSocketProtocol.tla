------------------------- MODULE MCWebSocketProtocol -------------------------
(***************************************************************************)
(* Instances of WebSocketProtocol, its lengths scaled down; and of         *)
(* ClosePayload: a peer may send a CLOSE and nothing else.                 *)
(***************************************************************************)
EXTENDS WebSocketProtocol, ClosePayload

MCInit == Init /\ ClosePayloadInit

\* One initial state is enough to close in.
ClosesAtOnce ==
    /\ isServer /\ \A f \in 1..NumFrames : frames[f] = [op |-> "PING", length |-> 0]
    /\ Init

MCNext ==
    /\ closing = <<>>
    /\ \/ Next /\ UNCHANGED closing
       \/ ClosesAtOnce /\ ClosePayloadNext /\ UNCHANGED vars

MCSpec == MCInit /\ [][MCNext]_<<vars, closing>>
==============================================================================
