------------------------------ MODULE MCBLIPIO ------------------------------
(***************************************************************************)
(* Instances of BLIPIO for TLC.                                            *)
(***************************************************************************)
EXTENDS BLIPIO

\* How many requests each peer makes: one asks and the other answers, or both.
TwoOneWay   == [p \in Peers |-> IF p = "client" THEN 2 ELSE 0]
TwoAndOne   == [p \in Peers |-> IF p = "client" THEN 2 ELSE 1]
ThreeAndOne == [p \in Peers |-> IF p = "client" THEN 3 ELSE 1]

Shape(size, urgent, noReply) == [size |-> size, urgent |-> urgent, noReply |-> noReply]
Reply(type, size, urgent) == [type |-> type, size |-> size, urgent |-> urgent]

\* Requests: several frames and freezing, or one frame; urgent or not.
Long         == Shape(5, FALSE, FALSE)
LongAndShort == [p \in Peers |-> {Long, Shape(1, TRUE, FALSE)}]
OneShort     == [p \in Peers |-> {Shape(1, FALSE, FALSE)}]
LongUrgentAndOneBack ==
    [p \in Peers |-> IF p = "client" THEN {Long, Shape(1, TRUE, TRUE)} ELSE {Shape(1, FALSE, FALSE)}]

\* Replies: one frame, or several and freezing; from both or from the server.
ShortReply == [p \in Peers |-> {Reply("RES", 1, FALSE)}]
LongReply  == [p \in Peers |-> {Reply("RES", 5, FALSE)}]
LongFromServer ==
    [p \in Peers |-> IF p = "server" THEN {Reply("RES", 5, FALSE)} ELSE {Reply("ERR", 1, FALSE)}]
=============================================================================
