------------------------------ MODULE MCReadings ------------------------------
(* Instances of Readings for TLC.                                           *)
EXTENDS Readings, TLC

symmetry == Permutations(Ingests)

==============================================================================
