------------------------- MODULE MCOutboxScheduling -------------------------
(***************************************************************************)
(* An instance of OutboxScheduling for TLC.                                *)
(***************************************************************************)
EXTENDS OutboxScheduling
=============================================================================
