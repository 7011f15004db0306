------------------------------ MODULE MCProvider ------------------------------
(* Instances of ProviderImpl for TLC.                                      *)
EXTENDS ProviderInvariant, TLC

Symmetry == Permutations(Handler) \cup Permutations(UUID)

===============================================================================
