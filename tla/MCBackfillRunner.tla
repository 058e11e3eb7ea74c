--------------------------- MODULE MCBackfillRunner ---------------------------
(***************************************************************************)
(* The instance of BackfillRunner for TLC.  It has liveness properties and *)
(* one job of the code beside a repaired one, so no symmetry.              *)
(***************************************************************************)
EXTENDS BackfillRunner

==============================================================================
