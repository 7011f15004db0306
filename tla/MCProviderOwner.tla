--------------------------- MODULE MCProviderOwner ----------------------------
(* Instances of ProviderOwner for TLC.                                     *)
EXTENDS OwnerInvariant, TLC

Symmetry == Permutations(Place) \cup Permutations(Impl)

===============================================================================
