---------------------------------- MODULE MCItem ----------------------------------
(* ItemTransaction and its refinement, for TLC.  Twelve quarantine names are *)
(* more than the copies two crashes and two failures can leave behind.       *)
EXTENDS ItemRefinement

Slots == {"t1", "t2", "t3", "t4", "t5", "t6", "t7", "t8", "t9", "t10", "t11", "t12"}
=============================================================================
