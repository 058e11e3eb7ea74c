------------------------------- MODULE MCServer -------------------------------
(***************************************************************************)
(* The instance of Server for TLC; it has liveness properties, so no       *)
(* symmetry.                                                               *)
(***************************************************************************)
EXTENDS Server

==============================================================================
