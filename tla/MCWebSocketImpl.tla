-------------------------- MODULE MCWebSocketImpl --------------------------
(***************************************************************************)
(* Instances of WebSocketImpl, with its two timers.                         *)
(***************************************************************************)
EXTENDS WebSocketImpl

BothTimers == {"ping", "response"}

\* The peer closes, with a heartbeat before or just behind it or a message
\* before it, or twice, or sends a bad frame.
Closing == {<<"PING", "CLOSE">>, <<"CLOSE", "PING">>, <<"BINARY", "CLOSE">>,
            <<"CLOSE", "CLOSE">>, <<"BAD">>}
==============================================================================
