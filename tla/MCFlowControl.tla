---------------------------- MODULE MCFlowControl ----------------------------
(***************************************************************************)
(* Instances of FlowControl for TLC.  One unit stands for about 8 kB, so   *)
(* the window, threshold and frame keep the order the code's constants     *)
(* have (threshold < window, a few frames in each).                        *)
(***************************************************************************)
EXTENDS FlowControl
==============================================================================
