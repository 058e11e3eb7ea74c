------------------------------- MODULE MCAlerts -------------------------------
(***************************************************************************)
(* An instance of Alerts for TLC.                                          *)
(***************************************************************************)
EXTENDS Alerts, TLC

symmetry == Permutations(Evaluations) \cup Permutations(Acks)

==============================================================================
