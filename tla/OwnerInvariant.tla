---------------------------- MODULE OwnerInvariant ----------------------------
(***************************************************************************)
(* The inductive invariant of ProviderOwner: who owns which ProviderImpl,  *)
(* and who is called back, whatever is made, moved or destroyed meanwhile, *)
(* and however far it is.                                                  *)
(***************************************************************************)
EXTENDS ProviderOwner

(* A ProviderImpl that lives has one owner, and an owner's is alive.       *)
OwnedInv ==
  /\ \A i \in registered : \E p \in Place : self[p] = i
  /\ \A p \in Place : self[p] # Null =>
       stage[p] \notin {"none", "moving"} /\ self[p] \in registered
  /\ \A p, q \in Place : self[p] = self[q] /\ self[p] # Null => p = q

(* A Provider is moved out of one place, to one place.                     *)
SourceInv ==
  \A p \in Place : stage[p] = "moving" =>
    /\ source[p] \in Movable
    /\ stage[source[p]] = "given"
    /\ \A q \in Place : stage[q] = "moving" /\ source[q] = source[p] => q = p

(* Until it ends, the engine will call back every Provider that owns       *)
(* something, unless it is between the lines of GoneFirst.                 *)
CalledInv ==
  engine # "finalized" =>
    \A p \in Place : self[p] # Null /\ ~Between(p) =>
      Positions(p, callbacks) # {}

(* A Provider that is not moved away is called back once, as long as it    *)
(* owns something, and not any more.                                       *)
PinnedInv ==
  \A i \in DOMAIN callbacks : callbacks[i] \in Place \ Movable =>
    /\ stage[callbacks[i]] \in {"whole", "tested"}
    /\ self[callbacks[i]] # Null
    /\ Positions(callbacks[i], callbacks) = {i}

(* Until the engine finalizes, what is about to be dereferenced is there.  *)
SelfInv ==
  engine = "running" =>
    /\ ~crashed
    /\ \A p \in Place :
         /\ stage[p] \in {"pointed", "tested"} => self[p] # Null
         /\ stage[p] = "moving" => self[source[p]] # Null

(***************************************************************************)
(* IInv: every line of the constructors, the move and the destructor of    *)
(* Provider.cpp and every callback preserves all of this together.         *)
(***************************************************************************)
IInv ==
  /\ TypeOK
  /\ OwnedInv
  /\ SourceInv
  /\ CalledInv
  /\ PinnedInv
  /\ SelfInv

===============================================================================
