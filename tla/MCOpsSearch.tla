----------------------------- MODULE MCOpsSearch -----------------------------
(***************************************************************************)
(* The instance of OpsSearch for TLC: ints of four bits.                   *)
(***************************************************************************)
EXTENDS OpsSearch

const_Pages == {0, 3, 7}
const_Sizes == {0, 1, 5}

==============================================================================
