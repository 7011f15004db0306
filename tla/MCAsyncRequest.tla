---------------------------- MODULE MCAsyncRequest ----------------------------
(* Instances of AsyncRequest for TLC.                                      *)
EXTENDS AsyncInvariant, TLC

Symmetry ==
  Permutations(Thread) \cup Permutations(Slot) \cup Permutations(Request)

===============================================================================
