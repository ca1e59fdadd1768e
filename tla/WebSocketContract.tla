------------------------- MODULE WebSocketContract -------------------------
(***************************************************************************)
(* What a WebSocket promises its Delegate: it is told of the connection at *)
(* most once, of messages and of room to write only while connected, and   *)
(* of the end exactly once, after which it hears nothing more.             *)
(***************************************************************************)
EXTENDS Naturals

VARIABLES
    phase,    \* what the delegate has been told of the connection
    heard     \* how many calls the delegate has had

cvars == <<phase, heard>>

ContractInit == phase = "unopened" /\ heard = 0

\* onWebSocketConnect
Connected ==
    /\ phase = "unopened"
    /\ phase' = "open"
    /\ heard' = heard + 1

\* onWebSocketMessage, onWebSocketWriteable
Transfer ==
    /\ phase = "open"
    /\ heard' = heard + 1
    /\ UNCHANGED phase

\* onWebSocketClose; a connection may fail before it opens.
Closed ==
    /\ phase # "closed"
    /\ phase' = "closed"
    /\ heard' = heard + 1

ContractNext == Connected \/ Transfer \/ Closed

ContractSpec == ContractInit /\ [][ContractNext]_cvars
==============================================================================
