------------------------ MODULE MCLoopbackConnection ------------------------
(***************************************************************************)
(* Instances of LoopbackConnection: who sends and closes how often.        *)
(***************************************************************************)
EXTENDS LoopbackConnection, TLC

CONSTANTS client, server

TwoPeers == {client, server}
ClientSends == client :> 2 @@ server :> 0
OnceEach == client :> 1 @@ server :> 1
==============================================================================
