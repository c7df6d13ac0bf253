---------------------------- MODULE ItemRefinement ----------------------------
(***************************************************************************)
(* ItemTransaction implements AtomicItem when no external writer           *)
(* interferes: the value is what recovery would publish, read off the      *)
(* journal and the public names; only a deletion, whose marker does not    *)
(* say whether the moves were undone, is decided by its point of no return.*)
(***************************************************************************)
EXTENDS ItemTransaction

Value ==
  IF \/ kind = "delete" /\ committed
     \/ dir[Commit] # None
     \/ kind # "delete" /\ ~Journalled /\ Holds(After(kind))
    THEN "after" ELSE "before"

Abstract == INSTANCE AtomicItem WITH value <- Value, late <- (kind = "delete")

(* Every behaviour of the transaction, with its failures, process deaths    *)
(* and recoveries, is one of the atomic item: one change at most, success   *)
(* only after it, and no change after a failure.                            *)
Atomic == Abstract!Spec
=============================================================================
