----------------------------- MODULE MCMessages -----------------------------
(***************************************************************************)
(* Instances of Messages, its sizes scaled down; and of Properties, which  *)
(* looks for properties instead, in messages that anyone may have sent.    *)
(***************************************************************************)
EXTENDS Messages, Properties

MCInit == Init /\ PropertiesInit

MCNext ==
    /\ lookup = <<>>
    /\ \/ Next /\ UNCHANGED lookup
       \/ Init /\ PropertiesNext /\ UNCHANGED vars

MCSpec == MCInit /\ [][MCNext]_<<vars, lookup>> /\ WF_vars(lookup = <<>> /\ Transfer /\ UNCHANGED lookup)
=============================================================================
