------------------------------ MODULE MCService -------------------------------
(* Instances of Service for TLC.                                           *)
EXTENDS ServiceInvariant, TLC

Symmetry ==
  Permutations(Caller) \cup Permutations(Handler) \cup Permutations(UUID)

===============================================================================
