------------------------------ MODULE MCChatUi ------------------------------
(***************************************************************************)
(* ChatUi for TLC: the constants are plain values, given in the cfg.  There *)
(* is no symmetry, for the sake of the liveness property.                   *)
(***************************************************************************)
EXTENDS ChatUi
=============================================================================
