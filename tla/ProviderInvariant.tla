-------------------------- MODULE ProviderInvariant ---------------------------
(***************************************************************************)
(* The inductive invariant of ProviderImpl: what holds between any two     *)
(* steps of its handlers, strong enough to be preserved by each of them.   *)
(***************************************************************************)
EXTENDS ProviderImpl

(* The lock is held by the one handler between its lock and unlock.        *)
MutexInv ==
  \A h \in Handler : pc[h] \in Locked <=> m_backends_mtx = h

(* Which RPC a handler runs and what it has decided so far, step by step.  *)
Undecided == {"idle", "auth", "make", "lock", "insert", "assign", "remove",
              "find", "use"}

ControlInv ==
  \A h \in Handler :
    /\ pc[h] = "idle" <=> op[h] = NoOp
    /\ pc[h] = "auth" => op[h] \in AdminOp
    /\ pc[h] \in {"make", "insert", "assign"} => op[h] \in MakeOp
    /\ pc[h] = "remove" => op[h] \in RemoveOp
    /\ pc[h] = "erase" => op[h] = "destroy"
    /\ pc[h] \in {"find", "use"} => op[h] \in LookupOp
    /\ pc[h] \in Undecided => result[h] = "none" /\ replies[h] = 0
    /\ pc[h] \in {"erase", "respond"} => result[h] # "none" /\ replies[h] = 0
    /\ pc[h] = "erase" => result[h] \in {"ok", "failed"}
    /\ pc[h] = "respond" => op[h] # "hello"
    /\ pc[h] = "unlock" =>
         /\ result[h] = "notfound" <=> replies[h] = 1
         /\ replies[h] \in {0, 1}
         /\ result[h] = "none" <=> phonebook[h] # Null
         /\ op[h] \in LookupOp => result[h] \in {"none", "notfound"}
         /\ op[h] \notin LookupOp => result[h] # "none"
    /\ pc[h] = "return" =>
         /\ result[h] # "none"
         /\ replies[h] = IF op[h] = "hello" /\ result[h] = "ok" THEN 0 ELSE 1

(* Who points at what: a maker at the backend it has not inserted yet, a   *)
(* lookup at the one it found, nobody else at anything.                    *)
Inserting(h) == op[h] \in MakeOp /\ pc[h] \in {"lock", "insert", "assign"}

PointerInv ==
  \A h \in Handler :
    /\ phonebook[h] # Null =>
         /\ phonebook[h] = phonebook_id[h]
         /\ backend[phonebook[h]] \in {"live", "destroyed"}
         /\ Inserting(h) \/ op[h] \in LookupOp
    /\ op[h] \in LookupOp =>
         (phonebook[h] # Null <=>
            \/ pc[h] = "use"
            \/ pc[h] \in {"unlock", "respond", "return"}
               /\ result[h] # "notfound")

(* A backend being inserted is known to its maker alone.                   *)
MakerInv ==
  \A h \in Handler : Inserting(h) =>
    /\ phonebook[h] \in UUID
    /\ backend[phonebook[h]] = "live"
    /\ m_backends[phonebook[h]] = IF pc[h] = "assign" THEN "null" ELSE "absent"
    /\ \A g \in Handler \ {h} : phonebook[g] # phonebook[h]

(* The map: half-done entries belong to the holder of the lock.            *)
EntryInv ==
  \A u \in UUID :
    /\ m_backends[u] = "null" =>
         \E h \in Handler : pc[h] = "assign" /\ phonebook_id[h] = u
    /\ m_backends[u] = "present" =>
         \/ backend[u] = "live"
         \/ /\ backend[u] = "destroyed"
            /\ \E h \in Handler : pc[h] = "erase" /\ phonebook_id[h] = u
    /\ backend[u] = "unmade" => m_backends[u] = "absent"

EraseInv ==
  \A h \in Handler : pc[h] = "erase" =>
    /\ phonebook_id[h] \in UUID
    /\ m_backends[phonebook_id[h]] = "present"
    /\ backend[phonebook_id[h]] = "destroyed"

(* What a handler has removed stays removed.                               *)
RemovedInv ==
  \A h \in Handler : HasRemoved(h) /\ pc[h] # "erase" =>
    phonebook_id[h] \in UUID /\ Gone(phonebook_id[h])

(***************************************************************************)
(* IInv: the steps of the handlers of ProviderImpl.hpp preserve all of     *)
(* this together.                                                          *)
(***************************************************************************)
IInv ==
  /\ TypeOK
  /\ MutexInv
  /\ ControlInv
  /\ PointerInv
  /\ MakerInv
  /\ EntryInv
  /\ EraseInv
  /\ NoLeak
  /\ RemovedInv

===============================================================================
