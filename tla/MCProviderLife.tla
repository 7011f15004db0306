---------------------------- MODULE MCProviderLife ----------------------------
(* Instances of ProviderLife for TLC.                                      *)
EXTENDS LifeInvariant, TLC

Symmetry == Permutations(Handler) \cup Permutations(UUID)

===============================================================================
