------------------------------- MODULE AtomicItem -------------------------------
(***************************************************************************)
(* What one mutation of a stored item promises, whatever files it takes:   *)
(* the item has its value before, or its value after, and nothing between; *)
(* it changes once, at most; a reply of success comes after the change, and *)
(* a reply of failure fixes the value there is, for ever (unless late).     *)
(***************************************************************************)
VARIABLES
  late,   \* a failed mutation may still be finished by a later recovery
  value,  \* "before" or "after": what a reader gets once recovery is done
  reply   \* "none" until the caller hears; "lost" if the process died first

vars == <<late, value, reply>>

Init == late \in BOOLEAN /\ value = "before" /\ reply = "none"

Apply == /\ value = "before"
         /\ reply \in {"none", "lost"} \/ (late /\ reply = "error")
         /\ value' = "after" /\ UNCHANGED reply

Succeed == /\ reply = "none" /\ value = "after"
           /\ reply' = "ok" /\ UNCHANGED value

Reject == /\ reply = "none"
          /\ reply' = "error" /\ UNCHANGED value

Die == /\ reply = "none" /\ reply' = "lost" /\ UNCHANGED value

Next == (Apply \/ Succeed \/ Reject \/ Die) /\ UNCHANGED late

Spec == Init /\ [][Next]_vars
=============================================================================
