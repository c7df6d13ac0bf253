--------------------------------- MODULE MCLogin ---------------------------------
(* Login, for TLC: three logins from two clients, of which one is tracked at  *)
(* a time, two comparisons and two sessions at once.                          *)
EXTENDS Login, TLC

Symmetry == Permutations(Attempt) \union Permutations(Client)
=============================================================================
