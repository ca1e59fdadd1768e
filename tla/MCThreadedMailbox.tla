------------------------- MODULE MCThreadedMailbox -------------------------
(***************************************************************************)
(* Instances of ThreadedMailbox for TLC.                                   *)
(***************************************************************************)
EXTENDS ThreadedMailbox
============================================================================
