-------------------------------- MODULE MCAdmission --------------------------------
(* ConnectionAdmission, for TLC: three connections compete for two pending   *)
(* slots and one active slot, so that each pool is exhausted.                *)
EXTENDS ConnectionAdmission
=============================================================================
