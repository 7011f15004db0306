---------------------------- MODULE LifeInvariant -----------------------------
(***************************************************************************)
(* The inductive invariants of ProviderLife: what holds at every step for  *)
(* any number of execution streams, and what a single stream adds to it.   *)
(***************************************************************************)
EXTENDS ProviderLife

(* Where the owner and the reader can be.                                  *)
Creating == {"make", "lock", "insert", "assign", "unlock"}

PlaceInv ==
  /\ pc[Owner] \in {"idle", "define", "configure", "own", "deregister",
                    "gone"} \cup Creating
  /\ pc[Reader] \in {"idle", "scan", "print"}
  /\ pc[Owner] \in Creating => op[Owner] = "create" /\ phonebooks # <<>>
  /\ pc[Owner] \in {"own", "deregister", "gone"} => phonebooks = <<>>

(* Who is about to add an entry has generated an identifier for it.        *)
NamedInv ==
  \A t \in Thread :
    /\ pc[t] = "lock" /\ op[t] \in MakeOp => phonebook_id[t] \in UUID
    /\ pc[t] \in {"insert", "assign"} => op[t] \in MakeOp

(* A null pointer in the map is about to be overwritten.                   *)
NullInv ==
  \A u \in UUID : m_backends[u] = "null" =>
    \E t \in Thread : pc[t] = "assign" /\ phonebook_id[t] = u

(* getConfig's document is empty when it begins.                           *)
ListedInv == pc[Reader] = "idle" => listed = {}

(***************************************************************************)
(* What the constructor has made, and what it still has to make, are what  *)
(* the configuration asks for.                                             *)
(***************************************************************************)
CountInv ==
  /\ IsFiniteSet(made)
  /\ \A u \in made : m_backends[u] # "absent"
  /\ pc[Owner] \in {"lock", "insert", "assign"} =>
       phonebook_id[Owner] \notin made
  /\ pc[Owner] \in Creating \ {"make"} => Head(phonebooks) = "good"
  /\ Cardinality(made) + Good(phonebooks) =
       IF pc[Owner] = "unlock" THEN promised + 1 ELSE promised

(* RPCs are served when they are defined, and before the owner is gone.    *)
ServedInv ==
  /\ pc[Owner] = "idle" => defined = {} /\ \A h \in Handler : pc[h] = "idle"
  /\ Finalizing /\ pc[Owner] \in {"deregister", "gone"} =>
       \A h \in Handler : pc[h] = "idle"

(***************************************************************************)
(* IInv: the constructor, the handlers, getConfig and the destructor of    *)
(* ProviderImpl.hpp preserve all of this together, on any number of        *)
(* execution streams.                                                      *)
(***************************************************************************)
IInv ==
  /\ TypeOK
  /\ PlaceInv
  /\ NamedInv
  /\ NullInv
  /\ ListedInv
  /\ CountInv
  /\ ServedInv

-----------------------------------------------------------------------------
(* One execution stream, which the walk over the map does not give up.     *)

OneStream == Streams = 1 /\ "scan" \notin Blocking

(* The provider is there while getConfig walks its map, and the walk has   *)
(* listed only what is there.                                              *)
ScanInv ==
  pc[Reader] = "scan" => Self /\ listed \subseteq {u \in UUID : InMap(u)}

(***************************************************************************)
(* StreamInv: with one execution stream at most one thread is between two  *)
(* points where it may block, and what getConfig has read stays true while *)
(* it runs (ProviderImpl.hpp:111-122).                                     *)
(***************************************************************************)
StreamInv ==
  /\ \A s, t \in Running : s = t
  /\ ScanInv
  /\ Snapshot

===============================================================================
