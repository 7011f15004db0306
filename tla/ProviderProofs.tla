---------------------------- MODULE ProviderProofs ----------------------------
(***************************************************************************)
(* Proofs about ProviderImpl, for every number of handlers, phonebooks and *)
(* tokens: type correctness, the inductive invariant IInv, and the safety  *)
(* properties that follow from it.  There is one lemma for each action; in *)
(* it, one step for each conjunct of IInv.                                 *)
(***************************************************************************)
EXTENDS ProviderInvariant, TLAPS

-----------------------------------------------------------------------------
(* Type correctness.                                                       *)

(* Every step of a handler, and of setSecurityToken, keeps the types; no   *)
(* handler answers with a result that nobody has set.                      *)
LEMMA NextTypeOK == TypeOK /\ [Next]_vars => TypeOK'
<1> SUFFICES ASSUME TypeOK, [Next]_vars PROVE TypeOK'
  OBVIOUS
<1> USE DEF TypeOK
<1>1. ASSUME NEW h \in Handler, Receive(h) PROVE TypeOK'
  BY <1>1, ValuesAssumption DEF Receive, Known, Goto, shared, PC, AnyUUID, Op,
                                AdminOp
<1>2. ASSUME NEW h \in Handler, AcceptToken(h) PROVE TypeOK'
  BY <1>2 DEF AcceptToken, Goto, shared, call, PC
<1>3. ASSUME NEW h \in Handler, RefuseToken(h) PROVE TypeOK'
  BY <1>3 DEF RefuseToken, Goto, Have, Reply, shared, call, PC, Result
<1>4. ASSUME NEW h \in Handler, MakeBackend(h) PROVE TypeOK'
  BY <1>4 DEF MakeBackend, Goto, PC, AnyUUID, Life
<1>5. ASSUME NEW h \in Handler, MakeFails(h) PROVE TypeOK'
  BY <1>5 DEF MakeFails, Goto, Have, shared, call, PC, Result
<1>6. ASSUME NEW h \in Handler, Lock(h) PROVE TypeOK'
  BY <1>6 DEF Lock, Goto, call, PC
<1>7. ASSUME NEW h \in Handler, Insert(h) PROVE TypeOK'
  BY <1>7 DEF Insert, Goto, call, PC, Entry
<1>8. ASSUME NEW h \in Handler, Assign(h) PROVE TypeOK'
  BY <1>8 DEF Assign, Goto, Have, call, PC, Entry, Result, AnyUUID, Null
<1>9. ASSUME NEW h \in Handler, NotFound(h) PROVE TypeOK'
  BY <1>9 DEF NotFound, Goto, Have, Reply, shared, call, PC, Result
<1>10. ASSUME NEW h \in Handler, Close(h) PROVE TypeOK'
  BY <1>10 DEF Close, Release, Goto, Have, call, PC, Entry, Life, Result
<1>11. ASSUME NEW h \in Handler, Destroy(h) PROVE TypeOK'
  BY <1>11, ProviderAssumption DEF Destroy, Goto, Have, call, PC, Life, Result
<1>12. ASSUME NEW h \in Handler, Erase(h) PROVE TypeOK'
  BY <1>12 DEF Erase, Release, Goto, call, PC, Entry, Life
<1>13. ASSUME NEW h \in Handler, Find(h) PROVE TypeOK'
  BY <1>13 DEF Find, Goto, shared, call, PC
<1>14. ASSUME NEW h \in Handler, Unlock(h) PROVE TypeOK'
  BY <1>14 DEF Unlock, Goto, call, PC
<1>15. ASSUME NEW h \in Handler, Use(h) PROVE TypeOK'
  BY <1>15, ProviderAssumption DEF Use, Goto, Have, shared, call, PC, Result
<1>16. ASSUME NEW h \in Handler, Respond(h) PROVE TypeOK'
  BY <1>16 DEF Respond, Goto, Reply, shared, call, PC
<1>17. ASSUME NEW h \in Handler, Return(h) PROVE TypeOK'
  BY <1>17, ValuesAssumption DEF Return, Release, Goto, PC, Life, AnyUUID,
                                 Null, Result
<1>18. CASE SetTokenBegin \/ SetTokenEnd
  BY <1>18 DEF SetTokenBegin, SetTokenEnd, call
<1>19. CASE UNCHANGED vars
  BY <1>19 DEF vars, shared, call
<1> QED
  BY <1>1, <1>2, <1>3, <1>4, <1>5, <1>6, <1>7, <1>8, <1>9, <1>10, <1>11,
     <1>12, <1>13, <1>14, <1>15, <1>16, <1>17, <1>18, <1>19
     DEF Next, LocalStep

(* TypeCorrect: the variables of the provider always have their types.     *)
THEOREM TypeCorrect == Spec => []TypeOK
<1>1. Init => TypeOK
  BY ValuesAssumption, ProviderAssumption
     DEF Init, TypeOK, Entry, Life, Result, PC, AnyUUID, NoOp, Null
<1> QED
  BY <1>1, NextTypeOK, PTL DEF Spec

-----------------------------------------------------------------------------
(* The initial states.                                                     *)

(* A provider that was just constructed (ProviderImpl.hpp:65-97) satisfies *)
(* the invariant: every phonebook of its configuration is in the map.      *)
LEMMA InitInv == Init => IInv
<1> SUFFICES ASSUME Init PROVE IInv
  OBVIOUS
<1>1. TypeOK
  BY ValuesAssumption, ProviderAssumption
     DEF Init, TypeOK, Entry, Life, Result, PC, AnyUUID, NoOp, Null
<1>2. \A h \in Handler :
        /\ pc[h] = "idle" /\ op[h] = NoOp /\ result[h] = "none"
        /\ replies[h] = 0 /\ phonebook[h] = Null
  BY DEF Init
<1>3. MutexInv
  BY <1>2, ProviderAssumption DEF Init, MutexInv, Locked
<1>4. ControlInv
  BY <1>2 DEF ControlInv
<1>5. PointerInv /\ MakerInv
  BY <1>2 DEF PointerInv, MakerInv, Inserting, NoOp, LookupOp
<1>6. EntryInv /\ NoLeak
  BY DEF Init, EntryInv, NoLeak
<1>7. EraseInv /\ RemovedInv
  BY <1>2 DEF EraseInv, RemovedInv, HasRemoved
<1> QED
  BY <1>1, <1>3, <1>4, <1>5, <1>6, <1>7 DEF IInv

-----------------------------------------------------------------------------
(* Every action preserves the invariant.                                   *)

(* Receive: the arrival of an RPC touches the locals of its thread only    *)
(* (ProviderImpl.hpp:170-212).                                             *)
LEMMA ReceiveStep ==
  ASSUME IInv, TypeOK', NEW h \in Handler, Receive(h)
  PROVE  IInv'
<1>1. MutexInv'
  BY DEF Receive, shared, IInv, MutexInv, Goto, Locked, TypeOK
<1>2. ControlInv'
  BY DEF Receive, shared, IInv, ControlInv, Goto, Undecided, TypeOK, AdminOp,
         MakeOp, RemoveOp, LookupOp, NoOp
<1>3. PointerInv'
  BY DEF Receive, shared, IInv, PointerInv, Goto, Inserting, TypeOK
<1>4. MakerInv'
  BY DEF Receive, shared, IInv, MakerInv, Goto, Inserting, TypeOK, MakeOp,
         LookupOp
<1>5. EntryInv'
  BY DEF Receive, shared, IInv, EntryInv, Goto, TypeOK
<1>6. EraseInv'
  BY DEF Receive, shared, IInv, EraseInv, Goto, TypeOK
<1>7. NoLeak'
  BY DEF Receive, shared, IInv, NoLeak
<1>8. RemovedInv'
  BY ValuesAssumption DEF Receive, shared, IInv, RemovedInv, Goto, ControlInv,
                          PointerInv, Gone, Creating, Inserting, Undecided,
                          TypeOK, Null, HasRemoved
<1> QED
  BY <1>1, <1>2, <1>3, <1>4, <1>5, <1>6, <1>7, <1>8 DEF IInv

(* AcceptToken: an Admin RPC whose token is accepted goes on, to make a    *)
(* backend or to lock.                                                     *)
LEMMA AcceptTokenStep ==
  ASSUME IInv, TypeOK', NEW h \in Handler, AcceptToken(h)
  PROVE  IInv'
<1>1. MutexInv'
  BY DEF AcceptToken, shared, call, IInv, MutexInv, Goto, Locked, TypeOK
<1>2. ControlInv'
  BY DEF AcceptToken, shared, call, IInv, ControlInv, Goto, Undecided
<1>3. PointerInv'
  BY DEF AcceptToken, shared, call, IInv, PointerInv, Goto, Inserting
<1>4. MakerInv'
  BY DEF AcceptToken, shared, call, IInv, MakerInv, Goto, Inserting
<1>5. EntryInv'
  BY DEF AcceptToken, shared, call, IInv, EntryInv, Goto
<1>6. EraseInv'
  BY DEF AcceptToken, shared, call, IInv, EraseInv, Goto
<1>7. NoLeak'
  BY DEF AcceptToken, shared, call, IInv, NoLeak
<1>8. RemovedInv'
  BY DEF AcceptToken, shared, call, IInv, RemovedInv, Goto, Gone, Creating,
         HasRemoved
<1> QED
  BY <1>1, <1>2, <1>3, <1>4, <1>5, <1>6, <1>7, <1>8 DEF IInv

(* RefuseToken: the early return for a wrong token answers before it       *)
(* returns, and holds no lock (ProviderImpl.hpp:181-187).                  *)
LEMMA RefuseTokenStep ==
  ASSUME IInv, TypeOK', NEW h \in Handler, RefuseToken(h)
  PROVE  IInv'
<1>1. MutexInv'
  BY DEF RefuseToken, shared, call, IInv, MutexInv, Goto, Locked
<1>2. ControlInv'
  BY DEF RefuseToken, shared, call, IInv, ControlInv, Goto, Have, Reply,
         Undecided, TypeOK
<1>3. PointerInv'
  BY DEF RefuseToken, shared, call, IInv, PointerInv, Goto, Have, ControlInv,
         Inserting, AdminOp, MakeOp, RemoveOp, LookupOp
<1>4. MakerInv'
  BY DEF RefuseToken, shared, call, IInv, MakerInv, Goto, Inserting
<1>5. EntryInv'
  BY DEF RefuseToken, shared, call, IInv, EntryInv, Goto
<1>6. EraseInv'
  BY DEF RefuseToken, shared, call, IInv, EraseInv, Goto
<1>7. NoLeak'
  BY DEF RefuseToken, shared, call, IInv, NoLeak
<1>8. RemovedInv'
  BY DEF RefuseToken, shared, call, IInv, RemovedInv, Goto, Have, Gone,
         Creating, HasRemoved
<1> QED
  BY <1>1, <1>2, <1>3, <1>4, <1>5, <1>6, <1>7, <1>8 DEF IInv

(* MakeBackend: the new backend is known to its maker alone, under an      *)
(* identifier that was never used (ProviderImpl.hpp:127-151).              *)
LEMMA MakeBackendStep ==
  ASSUME IInv, TypeOK', NEW h \in Handler, MakeBackend(h)
  PROVE  IInv'
<1>1. MutexInv'
  BY DEF MakeBackend, IInv, MutexInv, Goto, Locked
<1>2. ControlInv'
  BY DEF MakeBackend, IInv, ControlInv, Goto, Undecided
<1>3. PointerInv'
  BY DEF MakeBackend, IInv, PointerInv, Goto, ControlInv, Inserting, TypeOK,
         MakeOp, LookupOp
<1>4. MakerInv'
  BY ValuesAssumption DEF MakeBackend, IInv, MakerInv, Goto, PointerInv,
                          EntryInv, Inserting, TypeOK, Null
<1>5. EntryInv'
  BY DEF MakeBackend, IInv, EntryInv, Goto
<1>6. EraseInv'
  BY DEF MakeBackend, IInv, EraseInv, Goto
<1>7. NoLeak'
  BY ValuesAssumption DEF MakeBackend, IInv, NoLeak, PointerInv, Inserting,
                          TypeOK, Null
<1>8. RemovedInv'
  BY DEF MakeBackend, IInv, RemovedInv, Goto, ControlInv, Gone, Creating,
         MakeOp, RemoveOp, HasRemoved
<1> QED
  BY <1>1, <1>2, <1>3, <1>4, <1>5, <1>6, <1>7, <1>8 DEF IInv

(* MakeFails: a configuration or a factory that fails leaves nothing       *)
(* behind (ProviderImpl.hpp:130-158).                                      *)
LEMMA MakeFailsStep ==
  ASSUME IInv, TypeOK', NEW h \in Handler, MakeFails(h)
  PROVE  IInv'
<1>1. MutexInv'
  BY DEF MakeFails, shared, call, IInv, MutexInv, Goto, Locked
<1>2. ControlInv'
  BY DEF MakeFails, shared, call, IInv, ControlInv, Goto, Have, Undecided,
         TypeOK, MakeOp
<1>3. PointerInv'
  BY DEF MakeFails, shared, call, IInv, PointerInv, Goto, Have, ControlInv,
         Inserting, MakeOp, LookupOp
<1>4. MakerInv'
  BY DEF MakeFails, shared, call, IInv, MakerInv, Goto, Inserting
<1>5. EntryInv'
  BY DEF MakeFails, shared, call, IInv, EntryInv, Goto
<1>6. EraseInv'
  BY DEF MakeFails, shared, call, IInv, EraseInv, Goto
<1>7. NoLeak'
  BY DEF MakeFails, shared, call, IInv, NoLeak
<1>8. RemovedInv'
  BY DEF MakeFails, shared, call, IInv, RemovedInv, Goto, Have, Gone, Creating,
         HasRemoved
<1> QED
  BY <1>1, <1>2, <1>3, <1>4, <1>5, <1>6, <1>7, <1>8 DEF IInv

(* Lock: nobody else is between lock and unlock (ProviderImpl.hpp:274).    *)
LEMMA LockStep ==
  ASSUME IInv, TypeOK', NEW h \in Handler, Lock(h)
  PROVE  IInv'
<1>1. MutexInv'
  BY ProviderAssumption DEF Lock, call, IInv, MutexInv, Goto, Locked, TypeOK
<1>2. ControlInv'
  BY DEF Lock, call, IInv, ControlInv, Goto, Undecided, TypeOK, Op, AdminOp
<1>3. PointerInv'
  BY DEF Lock, call, IInv, PointerInv, Goto, TypeOK, ControlInv, Inserting,
         MakeOp, RemoveOp, LookupOp, Undecided
<1>4. MakerInv'
  BY DEF Lock, call, IInv, MakerInv, Goto, Inserting
<1>5. EntryInv'
  BY DEF Lock, call, IInv, EntryInv, Goto
<1>6. EraseInv'
  BY DEF Lock, call, IInv, EraseInv, Goto
<1>7. NoLeak'
  BY DEF Lock, call, IInv, NoLeak
<1>8. RemovedInv'
  BY DEF Lock, call, IInv, RemovedInv, Goto, Gone, Creating, HasRemoved
<1> QED
  BY <1>1, <1>2, <1>3, <1>4, <1>5, <1>6, <1>7, <1>8 DEF IInv

(* Insert: the null entry of operator[] belongs to the handler that holds  *)
(* the lock (ProviderImpl.hpp:161).                                        *)
LEMMA InsertStep ==
  ASSUME IInv, TypeOK', NEW h \in Handler, Insert(h)
  PROVE  IInv'
<1>1. MutexInv'
  BY DEF Insert, call, IInv, MutexInv, Goto, Locked
<1>2. ControlInv'
  BY DEF Insert, call, IInv, ControlInv, Goto, Undecided
<1>3. PointerInv'
  BY DEF Insert, call, IInv, PointerInv, Goto, Inserting
<1>4. MakerInv'
  BY ValuesAssumption DEF Insert, call, IInv, MakerInv, Goto, ControlInv,
                          PointerInv, Inserting, TypeOK, Null
<1>5. EntryInv'
  BY ValuesAssumption DEF Insert, call, IInv, EntryInv, Goto, ControlInv,
                          PointerInv, MakerInv, Inserting, TypeOK, Null
<1>6. EraseInv'
  BY DEF Insert, call, IInv, EraseInv, Goto, ControlInv, PointerInv, MakerInv,
         Inserting
<1>7. NoLeak'
  BY ValuesAssumption DEF Insert, call, IInv, NoLeak, ControlInv, PointerInv,
                          MakerInv, Inserting, Null
<1>8. RemovedInv'
  BY DEF Insert, call, IInv, RemovedInv, Goto, ControlInv, PointerInv,
         MakerInv, Gone, Creating, Inserting, MakeOp, RemoveOp, LookupOp,
         HasRemoved
<1> QED
  BY <1>1, <1>2, <1>3, <1>4, <1>5, <1>6, <1>7, <1>8 DEF IInv

(* Assign: the backend moves from its maker into the map                   *)
(* (ProviderImpl.hpp:161).                                                 *)
LEMMA AssignStep ==
  ASSUME IInv, TypeOK', NEW h \in Handler, Assign(h)
  PROVE  IInv'
<1>1. MutexInv'
  BY DEF Assign, call, IInv, MutexInv, Goto, Locked
<1>2. ControlInv'
  BY DEF Assign, call, IInv, ControlInv, Goto, Have, Undecided, TypeOK, MakeOp,
         LookupOp
<1>3. PointerInv'
  BY DEF Assign, call, IInv, PointerInv, Goto, Have, ControlInv, Inserting,
         TypeOK, MakeOp, LookupOp
<1>4. MakerInv'
  BY ValuesAssumption DEF Assign, call, IInv, MakerInv, Goto, ControlInv,
                          PointerInv, Inserting, TypeOK, Null
<1>5. EntryInv'
  BY DEF Assign, call, IInv, EntryInv, Goto, ControlInv, PointerInv, MakerInv,
         Inserting, TypeOK
<1>6. EraseInv'
  BY DEF Assign, call, IInv, EraseInv, Goto
<1>7. NoLeak'
  BY DEF Assign, call, IInv, NoLeak, PointerInv, TypeOK
<1>8. RemovedInv'
  BY ValuesAssumption DEF Assign, call, IInv, RemovedInv, Goto, Have,
                          ControlInv, PointerInv, MakerInv, Gone, Creating,
                          Inserting, MakeOp, RemoveOp, Null, HasRemoved
<1> QED
  BY <1>1, <1>2, <1>3, <1>4, <1>5, <1>6, <1>7, <1>8 DEF IInv

(* NotFound: the early return under the lock (ProviderImpl.hpp:276-282).   *)
LEMMA NotFoundStep ==
  ASSUME IInv, TypeOK', NEW h \in Handler, NotFound(h)
  PROVE  IInv'
<1>1. MutexInv'
  BY DEF NotFound, shared, call, IInv, MutexInv, Goto, Locked
<1>2. ControlInv'
  BY DEF NotFound, shared, call, IInv, ControlInv, Goto, Have, Reply,
         PointerInv, Undecided, Inserting, TypeOK
<1>3. PointerInv'
  BY DEF NotFound, shared, call, IInv, PointerInv, Goto, Have, Inserting,
         TypeOK
<1>4. MakerInv'
  BY DEF NotFound, shared, call, IInv, MakerInv, Goto, Inserting
<1>5. EntryInv'
  BY DEF NotFound, shared, call, IInv, EntryInv, Goto
<1>6. EraseInv'
  BY DEF NotFound, shared, call, IInv, EraseInv, Goto
<1>7. NoLeak'
  BY DEF NotFound, shared, call, IInv, NoLeak
<1>8. RemovedInv'
  BY DEF NotFound, shared, call, IInv, RemovedInv, Goto, Have, Gone, Creating,
         HasRemoved
<1> QED
  BY <1>1, <1>2, <1>3, <1>4, <1>5, <1>6, <1>7, <1>8 DEF IInv

(* Close: the erased backend is freed unless a lookup still has it, and    *)
(* its identifier is gone for good (ProviderImpl.hpp:284).                 *)
LEMMA CloseStep ==
  ASSUME IInv, TypeOK', NEW h \in Handler, Close(h)
  PROVE  IInv'
<1>1. MutexInv'
  BY DEF Close, call, IInv, MutexInv, Goto, Locked
<1>2. ControlInv'
  BY DEF Close, call, IInv, ControlInv, Goto, Have, PointerInv, Undecided,
         Inserting, TypeOK, LookupOp
<1>3. PointerInv'
  BY DEF Close, call, IInv, PointerInv, Goto, Have, Release, HeldByOther,
         Inserting, LookupOp
<1>4. MakerInv'
  BY DEF Close, call, IInv, MakerInv, Goto, Release, HeldByOther, MutexInv,
         Inserting, Locked
<1>5. EntryInv'
  BY DEF Close, call, IInv, EntryInv, Goto, Release, TypeOK
<1>6. EraseInv'
  BY DEF Close, call, IInv, EraseInv, Goto, MutexInv, Locked
<1>7. NoLeak'
  BY DEF Close, call, IInv, NoLeak, Release, HeldByOther, TypeOK
<1>8. RemovedInv'
  BY ValuesAssumption DEF Close, call, IInv, RemovedInv, Have, InMap, Release,
                          HeldByOther, MutexInv, PointerInv, MakerInv, Gone,
                          Creating, Locked, TypeOK, MakeOp, LookupOp, Null,
                          HasRemoved
<1> QED
  BY <1>1, <1>2, <1>3, <1>4, <1>5, <1>6, <1>7, <1>8 DEF IInv

(* Destroy: between destroy() and erase() the lock is held                 *)
(* (ProviderImpl.hpp:315).                                                 *)
LEMMA DestroyStep ==
  ASSUME IInv, TypeOK', NEW h \in Handler, Destroy(h)
  PROVE  IInv'
<1>1. MutexInv'
  BY DEF Destroy, call, IInv, MutexInv, Goto, Locked
<1>2. ControlInv'
  BY ProviderAssumption DEF Destroy, call, IInv, ControlInv, Goto, Have,
                            Undecided, TypeOK
<1>3. PointerInv'
  BY DEF Destroy, call, IInv, PointerInv, Goto, Have, Inserting
<1>4. MakerInv'
  BY DEF Destroy, call, IInv, MakerInv, Goto, InMap, MutexInv, Inserting,
         Locked
<1>5. EntryInv'
  BY DEF Destroy, call, IInv, EntryInv, Goto, TypeOK
<1>6. EraseInv'
  BY DEF Destroy, call, IInv, EraseInv, Goto, InMap, MutexInv, EntryInv,
         Locked, TypeOK, Entry
<1>7. NoLeak'
  BY DEF Destroy, call, IInv, NoLeak, InMap, ControlInv, PointerInv, MakerInv,
         EntryInv, Inserting, TypeOK, Entry
<1>8. RemovedInv'
  BY DEF Destroy, call, IInv, RemovedInv, Goto, Have, Gone, Creating, TypeOK,
         HasRemoved
<1> QED
  BY <1>1, <1>2, <1>3, <1>4, <1>5, <1>6, <1>7, <1>8 DEF IInv

(* Erase: a destroyed phonebook leaves the map (ProviderImpl.hpp:316).     *)
LEMMA EraseStep ==
  ASSUME IInv, TypeOK', NEW h \in Handler, Erase(h)
  PROVE  IInv'
<1>1. MutexInv'
  BY DEF Erase, call, IInv, MutexInv, Goto, Locked
<1>2. ControlInv'
  BY DEF Erase, call, IInv, ControlInv, Goto, PointerInv, Undecided, Inserting,
         LookupOp
<1>3. PointerInv'
  BY DEF Erase, call, IInv, PointerInv, Goto, Release, HeldByOther, ControlInv,
         Inserting, LookupOp
<1>4. MakerInv'
  BY DEF Erase, call, IInv, MakerInv, Goto, Release, EraseInv, Inserting
<1>5. EntryInv'
  BY DEF Erase, call, IInv, EntryInv, Goto, Release, TypeOK, MutexInv,
         ControlInv, EraseInv, Locked
<1>6. EraseInv'
  BY DEF Erase, call, IInv, EraseInv, Goto, MutexInv, Locked, TypeOK
<1>7. NoLeak'
  BY DEF Erase, call, IInv, NoLeak, Release, HeldByOther, TypeOK
<1>8. RemovedInv'
  BY ValuesAssumption DEF Erase, call, IInv, RemovedInv, Goto, Release,
                          PointerInv, MakerInv, EraseInv, Gone, Creating,
                          TypeOK, MakeOp, LookupOp, Null, HasRemoved
<1> QED
  BY <1>1, <1>2, <1>3, <1>4, <1>5, <1>6, <1>7, <1>8 DEF IInv

(* Find: the lookup's pointer keeps the backend alive                      *)
(* (ProviderImpl.hpp:33).                                                  *)
LEMMA FindStep ==
  ASSUME IInv, TypeOK', NEW h \in Handler, Find(h)
  PROVE  IInv'
<1>1. MutexInv'
  BY DEF Find, shared, call, IInv, MutexInv, Goto, Locked
<1>2. ControlInv'
  BY ValuesAssumption DEF Find, shared, call, IInv, ControlInv, Goto, InMap,
                          Undecided, TypeOK, Null
<1>3. PointerInv'
  BY ValuesAssumption DEF Find, shared, call, IInv, PointerInv, Goto, InMap,
                          ControlInv, MakerInv, EntryInv, Inserting, Undecided,
                          TypeOK, Entry, Null
<1>4. MakerInv'
  BY DEF Find, shared, call, IInv, MakerInv, Goto, InMap, MutexInv, Inserting,
         Locked
<1>5. EntryInv'
  BY DEF Find, shared, call, IInv, EntryInv, Goto
<1>6. EraseInv'
  BY DEF Find, shared, call, IInv, EraseInv, Goto
<1>7. NoLeak'
  BY ValuesAssumption DEF Find, shared, call, IInv, NoLeak, PointerInv, Null
<1>8. RemovedInv'
  BY DEF Find, shared, call, IInv, RemovedInv, Goto, InMap, Gone, Creating,
         HasRemoved
<1> QED
  BY <1>1, <1>2, <1>3, <1>4, <1>5, <1>6, <1>7, <1>8 DEF IInv

(* Unlock: the end of the lock_guard's scope; the handler has changed all  *)
(* it wanted to change.                                                    *)
LEMMA UnlockStep ==
  ASSUME IInv, TypeOK', NEW h \in Handler, Unlock(h)
  PROVE  IInv'
<1>1. MutexInv'
  BY ProviderAssumption DEF Unlock, call, IInv, MutexInv, Goto, Locked, TypeOK
<1>2. ControlInv'
  BY DEF Unlock, call, IInv, ControlInv, Goto, Undecided, LookupOp
<1>3. PointerInv'
  BY DEF Unlock, call, IInv, PointerInv, Goto, ControlInv, Inserting
<1>4. MakerInv'
  BY DEF Unlock, call, IInv, MakerInv, Goto, Inserting
<1>5. EntryInv'
  BY DEF Unlock, call, IInv, EntryInv, Goto
<1>6. EraseInv'
  BY DEF Unlock, call, IInv, EraseInv, Goto
<1>7. NoLeak'
  BY DEF Unlock, call, IInv, NoLeak
<1>8. RemovedInv'
  BY DEF Unlock, call, IInv, RemovedInv, Goto, Gone, Creating, HasRemoved
<1> QED
  BY <1>1, <1>2, <1>3, <1>4, <1>5, <1>6, <1>7, <1>8 DEF IInv

(* Use: the lookups work on their own pointer, without the lock            *)
(* (ProviderImpl.hpp:328-348).                                             *)
LEMMA UseStep ==
  ASSUME IInv, TypeOK', NEW h \in Handler, Use(h)
  PROVE  IInv'
<1>1. MutexInv'
  BY DEF Use, shared, call, IInv, MutexInv, Goto, Locked, TypeOK
<1>2. ControlInv'
  BY ProviderAssumption DEF Use, shared, call, IInv, ControlInv, Goto, Have,
                            Undecided, TypeOK
<1>3. PointerInv'
  BY ProviderAssumption DEF Use, shared, call, IInv, PointerInv, Goto, Have,
                            Inserting, TypeOK
<1>4. MakerInv'
  BY DEF Use, shared, call, IInv, MakerInv, Goto, Inserting, TypeOK
<1>5. EntryInv'
  BY DEF Use, shared, call, IInv, EntryInv, Goto, TypeOK
<1>6. EraseInv'
  BY DEF Use, shared, call, IInv, EraseInv, Goto, TypeOK
<1>7. NoLeak'
  BY DEF Use, shared, call, IInv, NoLeak
<1>8. RemovedInv'
  BY DEF Use, shared, call, IInv, RemovedInv, Goto, Have, Gone, Creating,
         TypeOK, RemoveOp, HasRemoved
<1> QED
  BY <1>1, <1>2, <1>3, <1>4, <1>5, <1>6, <1>7, <1>8 DEF IInv

(* Respond: the last answer of a handler that has not answered yet.        *)
LEMMA RespondStep ==
  ASSUME IInv, TypeOK', NEW h \in Handler, Respond(h)
  PROVE  IInv'
<1>1. MutexInv'
  BY DEF Respond, shared, call, IInv, MutexInv, Goto, Locked
<1>2. ControlInv'
  BY DEF Respond, shared, call, IInv, ControlInv, Goto, Reply, Undecided,
         TypeOK
<1>3. PointerInv'
  BY DEF Respond, shared, call, IInv, PointerInv, Goto, Inserting
<1>4. MakerInv'
  BY DEF Respond, shared, call, IInv, MakerInv, Goto, Inserting
<1>5. EntryInv'
  BY DEF Respond, shared, call, IInv, EntryInv, Goto
<1>6. EraseInv'
  BY DEF Respond, shared, call, IInv, EraseInv, Goto, TypeOK
<1>7. NoLeak'
  BY DEF Respond, shared, call, IInv, NoLeak
<1>8. RemovedInv'
  BY DEF Respond, shared, call, IInv, RemovedInv, Goto, Gone, Creating,
         HasRemoved
<1> QED
  BY <1>1, <1>2, <1>3, <1>4, <1>5, <1>6, <1>7, <1>8 DEF IInv

(* Return: the handler's pointer goes away, and the backend with it if     *)
(* nobody else has one.                                                    *)
LEMMA ReturnStep ==
  ASSUME IInv, TypeOK', NEW h \in Handler, Return(h)
  PROVE  IInv'
<1>1. MutexInv'
  BY DEF Return, IInv, MutexInv, Goto, Locked
<1>2. ControlInv'
  BY DEF Return, IInv, ControlInv, Goto, TypeOK
<1>3. PointerInv'
  BY DEF Return, IInv, PointerInv, Goto, Release, HeldByOther, Inserting,
         TypeOK, AnyUUID, Null
<1>4. MakerInv'
  BY ValuesAssumption DEF Return, IInv, MakerInv, Goto, Release, Inserting,
                          TypeOK, Null
<1>5. EntryInv'
  BY DEF Return, IInv, EntryInv, Goto, Release, TypeOK
<1>6. EraseInv'
  BY DEF Return, IInv, EraseInv, Goto, Release, TypeOK
<1>7. NoLeak'
  BY DEF Return, IInv, NoLeak, Release, HeldByOther, TypeOK
<1>8. RemovedInv'
  BY DEF Return, IInv, RemovedInv, Goto, Release, Gone, Creating, TypeOK,
         MakeOp, NoOp, HasRemoved
<1> QED
  BY <1>1, <1>2, <1>3, <1>4, <1>5, <1>6, <1>7, <1>8 DEF IInv

-----------------------------------------------------------------------------
(* The inductive invariant.                                                *)

(* setSecurityToken changes nothing the invariant speaks of, and neither   *)
(* does a step that changes nothing.                                       *)
LEMMA QuietStep ==
  ASSUME IInv, TypeOK', SetTokenBegin \/ SetTokenEnd \/ UNCHANGED vars
  PROVE  IInv'
<1>1. UNCHANGED <<m_backends, m_backends_mtx, backend, pc, op, phonebook_id,
                  phonebook, result, replies>>
  BY DEF SetTokenBegin, SetTokenEnd, vars, shared, call
<1>2. MutexInv' /\ ControlInv' /\ EraseInv' /\ NoLeak'
  BY <1>1 DEF IInv, MutexInv, ControlInv, EraseInv, NoLeak
<1>3. PointerInv' /\ MakerInv'
  BY <1>1 DEF IInv, PointerInv, MakerInv, Inserting
<1>4. EntryInv' /\ RemovedInv'
  BY <1>1 DEF IInv, EntryInv, RemovedInv, HasRemoved, Gone, Creating
<1> QED
  BY <1>2, <1>3, <1>4 DEF IInv

(* Invariance: IInv holds between any two steps of any number of handlers  *)
(* of ProviderImpl.hpp.                                                    *)
THEOREM Invariance == Spec => []IInv
<1>1. IInv /\ [Next]_vars => IInv'
  <2> SUFFICES ASSUME IInv, [Next]_vars PROVE IInv'
    OBVIOUS
  <2>1. TypeOK'
    BY NextTypeOK DEF IInv
  <2>2. CASE SetTokenBegin \/ SetTokenEnd \/ UNCHANGED vars
    BY <2>1, <2>2, QuietStep
  <2>3. ASSUME NEW h \in Handler, Receive(h) \/ Lock(h) \/ LocalStep(h)
        PROVE  IInv'
    <3>1. CASE \/ Receive(h) \/ AcceptToken(h) \/ RefuseToken(h)
               \/ MakeBackend(h) \/ MakeFails(h)
      BY <2>1, <3>1, ReceiveStep, AcceptTokenStep, RefuseTokenStep,
         MakeBackendStep, MakeFailsStep
    <3>2. CASE \/ Lock(h) \/ Insert(h) \/ Assign(h) \/ NotFound(h)
               \/ Close(h) \/ Destroy(h) \/ Erase(h) \/ Find(h)
      BY <2>1, <3>2, LockStep, InsertStep, AssignStep, NotFoundStep,
         CloseStep, DestroyStep, EraseStep, FindStep
    <3>3. CASE Unlock(h) \/ Use(h) \/ Respond(h) \/ Return(h)
      BY <2>1, <3>3, UnlockStep, UseStep, RespondStep, ReturnStep
    <3> QED
      BY <2>3, <3>1, <3>2, <3>3 DEF LocalStep
  <2> QED
    BY <2>2, <2>3 DEF Next
<1> QED
  BY <1>1, InitInv, PTL DEF Spec

-----------------------------------------------------------------------------
(* What follows.                                                           *)

(* What holding the lock is for: whoever looks up has the lock, so nobody  *)
(* is half way through an insertion or a removal; and the pointer of a     *)
(* lookup, and its answer, are as the invariant says.                      *)
LEMMA InvSafe == IInv => SoundView /\ NoUseAfterFree /\ RepliedOnce
<1> SUFFICES ASSUME IInv PROVE SoundView /\ NoUseAfterFree /\ RepliedOnce
  OBVIOUS
<1>1. SoundView
  <2> SUFFICES ASSUME NEW h \in Handler, pc[h] \in {"remove", "find"},
                      NEW u \in UUID, InMap(u)
               PROVE  m_backends[u] = "present" /\ backend[u] = "live"
    BY DEF SoundView
  <2>1. \A g \in Handler : pc[g] \notin {"assign", "erase"}
    BY DEF IInv, MutexInv, Locked
  <2> QED
    <3>1. m_backends[u] \in {"null", "present"}
      BY DEF IInv, InMap, TypeOK, Entry
    <3>2. /\ m_backends[u] # "null"
          /\ m_backends[u] = "present" => backend[u] = "live"
      BY <2>1 DEF IInv, EntryInv
    <3> QED
      BY <3>1, <3>2
<1>2. NoUseAfterFree
  BY ValuesAssumption DEF IInv, NoUseAfterFree, ControlInv, PointerInv, TypeOK,
                          Null, AnyUUID
<1>3. RepliedOnce
  <2> SUFFICES ASSUME NEW h \in Handler
               PROVE  /\ replies[h] <= 1
                      /\ pc[h] = "return" =>
                           (replies[h] = 0 <=> op[h] = "hello"
                                                /\ result[h] = "ok")
    BY DEF RepliedOnce
  <2>1. pc[h] \in PC
    BY DEF IInv, TypeOK
  <2>2. CASE pc[h] \in Undecided \cup {"erase", "respond"}
    BY <2>2 DEF IInv, ControlInv, Undecided
  <2>3. CASE pc[h] = "unlock"
    BY <2>3 DEF IInv, ControlInv
  <2>4. CASE pc[h] = "return"
    BY <2>4 DEF IInv, ControlInv
  <2> QED
    BY <2>1, <2>2, <2>3, <2>4 DEF PC, Undecided
<1> QED
  BY <1>1, <1>2, <1>3

(* Sound: whoever takes the lock meets no half-made or half-destroyed      *)
(* phonebook (ProviderImpl.hpp:161, 315).                                  *)
THEOREM Sound == Spec => []SoundView
<1>1. IInv => SoundView
  BY InvSafe DEF IInv
<1> QED
  BY <1>1, Invariance, PTL

(* UsedAlive: a backend that a handler calls after it released the lock    *)
(* exists, though it may have been erased meanwhile (ProviderImpl.hpp:33). *)
THEOREM UsedAlive == Spec => []NoUseAfterFree
<1>1. IInv => NoUseAfterFree
  BY InvSafe DEF IInv
<1> QED
  BY <1>1, Invariance, PTL

(* Freed: a backend that nobody can reach any more was freed.              *)
THEOREM Freed == Spec => []NoLeak
<1>1. IInv => NoLeak
  BY InvSafe DEF IInv
<1> QED
  BY <1>1, Invariance, PTL

(* AnsweredOnce: every RPC is answered once, whichever early return its    *)
(* handler takes (ProviderImpl.hpp:29, 185, 279).                          *)
THEOREM AnsweredOnce == Spec => []RepliedOnce
<1>1. IInv => RepliedOnce
  BY InvSafe DEF IInv
<1> QED
  BY <1>1, Invariance, PTL

(* A second remover finds the identifier gone from the map: only Close and *)
(* Destroy (ProviderImpl.hpp:284, 315) make a remover, under the lock.     *)
LEMMA OneRemoverStep ==
  IInv /\ IInv' /\ OneRemover /\ [Next]_vars => OneRemover'
<1> SUFFICES ASSUME IInv, IInv', OneRemover, [Next]_vars,
                    NEW f \in Handler, NEW g \in Handler, f # g,
                    HasRemoved(f)', HasRemoved(g)'
             PROVE  phonebook_id'[f] # phonebook_id'[g]
  BY DEF OneRemover, HasRemoved
<1>1. CASE UNCHANGED vars
  BY <1>1 DEF OneRemover, HasRemoved, vars, call
<1>2. CASE SetTokenBegin \/ SetTokenEnd
  BY <1>2 DEF SetTokenBegin, SetTokenEnd, OneRemover, HasRemoved, call
<1>3. CASE \E h \in Handler : Receive(h) \/ Lock(h) \/ LocalStep(h)
  <2> PICK h \in Handler : Receive(h) \/ Lock(h) \/ LocalStep(h)
    BY <1>3
  <2>1. CASE (Close(h) \/ Destroy(h))
    BY <2>1, ValuesAssumption DEF Close, Destroy, OneRemover, HasRemoved, call,
                                  IInv, TypeOK, ControlInv, RemovedInv, Gone,
                                  InMap, EraseInv, MutexInv, Locked, Have,
                                  RemoveOp, Undecided, Goto
  <2>2. CASE Receive(h)
    BY <2>2 DEF Receive, OneRemover, HasRemoved, IInv, TypeOK, ControlInv,
                Undecided, RemoveOp
  <2>5. CASE MakeBackend(h)
    BY <2>5 DEF MakeBackend, OneRemover, HasRemoved, IInv, TypeOK, ControlInv,
                RemoveOp, MakeOp
  <2>6. CASE Return(h)
    BY <2>6 DEF Return, OneRemover, HasRemoved, IInv, TypeOK, RemoveOp, NoOp
  <2>3. CASE \/ AcceptToken(h) \/ RefuseToken(h) \/ MakeFails(h)
             \/ NotFound(h) \/ Lock(h) \/ Insert(h) \/ Assign(h) \/ Erase(h)
             \/ Find(h) \/ Unlock(h) \/ Use(h) \/ Respond(h)
    BY <2>3 DEF AcceptToken, RefuseToken, MakeFails, NotFound, Lock, Insert,
                Assign, Erase, Find, Unlock, Use, Respond, OneRemover,
                HasRemoved, IInv, TypeOK, ControlInv, Undecided, RemoveOp,
                MakeOp, LookupOp, Have, call
  <2> QED
    BY <2>1, <2>2, <2>3, <2>5, <2>6 DEF LocalStep
<1> QED
  BY <1>1, <1>2, <1>3 DEF Next

(* RemovedOnce: of the handlers that close or destroy a phonebook one at   *)
(* most reports to have removed it.                                        *)
THEOREM RemovedOnce == Spec => []OneRemover
<1>1. Init => OneRemover
  BY DEF Init, OneRemover, HasRemoved, NoOp, RemoveOp
<1> QED
  BY <1>1, OneRemoverStep, Invariance, PTL DEF Spec

(* Identifiers enter the map by Insert only, under one that no other       *)
(* handler has and that was not in use (UUID::generate).                   *)
LEMMA NoRevivalStep ==
  ASSUME IInv, IInv', [Next]_vars, NEW u \in UUID, Gone(u)
  PROVE  Gone(u)'
<1> USE DEF Gone, Creating
<1>1. CASE UNCHANGED vars
  BY <1>1 DEF vars, shared, call
<1>2. CASE SetTokenBegin \/ SetTokenEnd
  BY <1>2 DEF SetTokenBegin, SetTokenEnd, call
<1>3. CASE \E h \in Handler : Receive(h) \/ Lock(h) \/ LocalStep(h)
  <2> PICK h \in Handler : Receive(h) \/ Lock(h) \/ LocalStep(h)
    BY <1>3
  <2>1. CASE MakeBackend(h)
    BY <2>1 DEF MakeBackend, IInv, TypeOK
  <2>2. CASE Insert(h) \/ Assign(h)
    BY <2>2, ValuesAssumption DEF Insert, Assign, IInv, TypeOK, MakerInv,
                                  PointerInv, ControlInv, Inserting, Null, call
  <2>3. CASE Close(h) \/ Destroy(h) \/ Erase(h) \/ Return(h)
    BY <2>3, ValuesAssumption DEF Close, Destroy, Erase, Return, IInv, TypeOK,
                                  Release, InMap, call, shared, Null, NoOp,
                                  MakeOp
  <2>4. CASE \/ Receive(h) \/ AcceptToken(h) \/ RefuseToken(h) \/ MakeFails(h)
             \/ NotFound(h) \/ Lock(h) \/ Find(h) \/ Unlock(h) \/ Use(h)
             \/ Respond(h)
    BY <2>4, ValuesAssumption DEF Receive, AcceptToken, RefuseToken, MakeFails,
                                  NotFound, Lock, Find, Unlock, Use, Respond,
                                  IInv, TypeOK, ControlInv, PointerInv,
                                  Undecided, MakeOp, LookupOp, RemoveOp, call,
                                  shared, Null, InMap, Inserting
  <2> QED
    BY <2>1, <2>2, <2>3, <2>4 DEF LocalStep
<1> QED
  BY <1>1, <1>2, <1>3 DEF Next

(* Final: an identifier that was removed is never served again.            *)
THEOREM Final == Spec => NoRevival
<1>1. IInv /\ IInv' /\ [Next]_vars =>
        [\A u \in UUID : Gone(u) => Gone(u)']_vars
  BY NoRevivalStep
<1> QED
  BY <1>1, Invariance, PTL DEF Spec, NoRevival

===============================================================================
