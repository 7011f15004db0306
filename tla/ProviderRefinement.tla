-------------------------- MODULE ProviderRefinement --------------------------
(***************************************************************************)
(* The proof that ProviderImpl implements PhonebookRegistry, for every     *)
(* number of handlers and phonebooks.  The inductive invariant is proved   *)
(* in ProviderProofs; here every action is mapped to the action of the     *)
(* registry it performs, or to none.                                       *)
(***************************************************************************)
EXTENDS ProviderProofs

(* A provider that starts with the phonebooks of its configuration         *)
(* (ProviderImpl.hpp:76-97) starts as a registry in which they are open.   *)
LEMMA InitRefines == Init => Registry!Init
<1> SUFFICES ASSUME Init PROVE Registry!Init
  OBVIOUS
<1>1. openBar \in SUBSET UUID
  BY DEF openBar
<1>2. closedBar = {}
  BY DEF Init, Gone, Creating, closedBar
<1>3. \A h \in Handler : /\ phaseOf(h) = "idle"
                         /\ verdictOf(h) = "none"
                         /\ idOf(h) = NilUUID
  BY DEF Init, phaseOf, verdictOf, idOf, Decided
<1>4. phaseBar = [h \in Handler |-> "idle"]
  BY <1>3 DEF phaseBar
<1>5. verdictBar = [h \in Handler |-> "none"]
  BY <1>3 DEF verdictBar
<1>6. idBar = [h \in Handler |-> NilUUID]
  BY <1>3 DEF idBar
<1> QED
  BY <1>1, <1>2, <1>4, <1>5, <1>6 DEF Init, Registry!Init, NoOp, Registry!NoOp

(* The other handlers look to the registry as they did.                    *)
Keeps(h) ==
  \A g \in Handler \ {h} :
    /\ phaseOf(g)' = phaseOf(g)
    /\ verdictOf(g)' = verdictOf(g)
    /\ idOf(g)' = idOf(g)

(* A step of one handler changes nothing in the view of the others: the    *)
(* locals of an RPC function belong to its thread.                         *)
LEMMA OthersKeep ==
  ASSUME TypeOK, NEW h \in Handler, Receive(h) \/ Lock(h) \/ LocalStep(h)
  PROVE  Keeps(h)
<1> SUFFICES ASSUME NEW g \in Handler \ {h}
             PROVE  /\ pc'[g] = pc[g]
                    /\ op'[g] = op[g]
                    /\ result'[g] = result[g]
                    /\ phonebook_id'[g] = phonebook_id[g]
  BY DEF Keeps, phaseOf, verdictOf, idOf, Decided
<1> USE DEF TypeOK, Goto, Have, call
<1>1. CASE Receive(h)
  BY <1>1 DEF Receive
<1>2. CASE AcceptToken(h) \/ RefuseToken(h) \/ MakeBackend(h) \/ MakeFails(h)
  BY <1>2 DEF AcceptToken, RefuseToken, MakeBackend, MakeFails
<1>3. CASE Lock(h) \/ Insert(h) \/ Assign(h) \/ NotFound(h) \/ Close(h)
  BY <1>3 DEF Lock, Insert, Assign, NotFound, Close
<1>4. CASE Destroy(h) \/ Erase(h) \/ Find(h) \/ Unlock(h)
  BY <1>4 DEF Destroy, Erase, Find, Unlock
<1>5. CASE Use(h) \/ Respond(h) \/ Return(h)
  BY <1>5 DEF Use, Respond, Return
<1> QED
  BY <1>1, <1>2, <1>3, <1>4, <1>5 DEF LocalStep

(* How a step of handler h shows in the view of all handlers.              *)
LEMMA Update ==
  ASSUME NEW h \in Handler, Keeps(h)
  PROVE  /\ phaseBar' = [phaseBar EXCEPT ![h] = phaseOf(h)']
         /\ verdictBar' = [verdictBar EXCEPT ![h] = verdictOf(h)']
         /\ idBar' = [idBar EXCEPT ![h] = idOf(h)']
  BY DEF Keeps, phaseBar, verdictBar, idBar

(* A step after which handler h looks as before leaves the view as it is.  *)
LEMMA Stutter ==
  ASSUME NEW h \in Handler, Keeps(h),
         phaseOf(h)' = phaseOf(h),
         verdictOf(h)' = verdictOf(h),
         idOf(h)' = idOf(h)
  PROVE  UNCHANGED <<phaseBar, verdictBar, idBar>>
<1>1. \A g \in Handler : /\ phaseOf(g)' = phaseOf(g)
                         /\ verdictOf(g)' = verdictOf(g)
                         /\ idOf(g)' = idOf(g)
  BY DEF Keeps
<1> QED
  BY <1>1 DEF phaseBar, verdictBar, idBar

(* No step but the assignment into the map and the two erasures            *)
(* (ProviderImpl.hpp:161, 284, 316) changes which phonebooks are served or *)
(* were served.                                                            *)
LEMMA MapSame ==
  ASSUME IInv, IInv', NEW h \in Handler,
         Receive(h) \/ AcceptToken(h) \/ RefuseToken(h) \/ MakeBackend(h)
           \/ MakeFails(h) \/ Lock(h) \/ Insert(h) \/ NotFound(h) \/ Destroy(h)
           \/ Find(h) \/ Unlock(h) \/ Use(h) \/ Respond(h) \/ Return(h)
  PROVE  UNCHANGED <<openBar, closedBar>>
<1> SUFFICES ASSUME NEW u \in UUID
             PROVE  /\ m_backends[u]' = "present" <=> m_backends[u] = "present"
                    /\ Gone(u)' <=> Gone(u)
  BY DEF openBar, closedBar
<1> USE ValuesAssumption DEF Gone, Creating, shared, call, Goto, Have
<1>1. CASE Receive(h)
  BY <1>1 DEF Receive, IInv, TypeOK, PointerInv, ControlInv, Inserting, Null,
              NoOp, LookupOp
<1>2. CASE \/ AcceptToken(h) \/ RefuseToken(h) \/ MakeFails(h) \/ Lock(h)
           \/ NotFound(h) \/ Unlock(h) \/ Use(h) \/ Respond(h)
  BY <1>2 DEF AcceptToken, RefuseToken, MakeFails, Lock, NotFound, Unlock,
              Use, Respond
<1>3. CASE MakeBackend(h)
  BY <1>3 DEF MakeBackend, IInv, TypeOK, ControlInv, EntryInv, PointerInv,
              Inserting, Life, Entry, Null
<1>4. CASE Insert(h)
  BY <1>4 DEF Insert, IInv, TypeOK, MakerInv, PointerInv, ControlInv,
              Inserting, Null
<1>5. CASE Destroy(h)
  BY <1>5 DEF Destroy, InMap, IInv, TypeOK
<1>6. CASE Find(h)
  BY <1>6 DEF Find, IInv, TypeOK, ControlInv, LookupOp, MakeOp, InMap
<1>7. CASE Return(h)
  BY <1>7 DEF Return, Release, IInv, TypeOK, ControlInv, PointerInv,
              Inserting, MakeOp, LookupOp, NoOp, Null
<1> QED
  BY <1>1, <1>2, <1>3, <1>4, <1>5, <1>6, <1>7

(* The arrival of an RPC is the registry's Invoke.                         *)
LEMMA ReceiveRefines ==
  ASSUME IInv, IInv', NEW h \in Handler, Receive(h), Keeps(h)
  PROVE  Registry!Invoke(h)
<1>1. UNCHANGED <<openBar, closedBar, m_token>>
  BY MapSame DEF Receive, shared
<1>2. /\ phaseOf(h) = "idle"
      /\ verdictOf(h) = "none" /\ verdictOf(h)' = "none"
  BY DEF Receive, phaseOf, verdictOf, Decided, Goto, IInv, TypeOK
<1>3. phaseOf(h)' = IF op'[h] \in AdminOp THEN "called" ELSE "admitted"
  BY DEF Receive, phaseOf, Decided, Goto, IInv, TypeOK, AdminOp, MakeOp,
     RemoveOp, LookupOp
<1>4. idOf(h)' \in AnyUUID
  BY DEF IInv, TypeOK, idOf, AnyUUID
<1>5. \E o \in Op, t \in Token : /\ op' = [op EXCEPT ![h] = o]
                                /\ token' = [token EXCEPT ![h] = t]
  <2>1. \E o \in Op : op' = [op EXCEPT ![h] = o]
    BY DEF Receive, Op, AdminOp
  <2>2. \E t \in Token : token' = [token EXCEPT ![h] = t]
    BY DEF Receive, IInv, TypeOK
  <2> QED
    BY <2>1, <2>2
<1>6. PICK o \in Op, t \in Token : /\ op' = [op EXCEPT ![h] = o]
                                   /\ token' = [token EXCEPT ![h] = t]
  BY <1>5
<1>7. op'[h] = o
  BY <1>6 DEF IInv, TypeOK
<1>8. /\ verdictBar' = verdictBar
      /\ phaseBar' = [phaseBar EXCEPT
                        ![h] = IF o \in AdminOp THEN "called" ELSE "admitted"]
      /\ idBar' = [idBar EXCEPT ![h] = idOf(h)']
      /\ phaseBar[h] = "idle"
  BY <1>2, <1>3, <1>7, Update DEF verdictBar, phaseBar
<1> QED
  BY <1>1, <1>4, <1>6, <1>8 DEF Registry!Invoke, Registry!Op,
                                Registry!AnyUUID, Registry!AdminOp,
                                Registry!MakeOp, Registry!RemoveOp,
                                Registry!LookupOp, Op, AdminOp, MakeOp,
                                RemoveOp, LookupOp, AnyUUID

(* A stuttering step of the provider is one of the registry.               *)
LEMMA UnchangedRefines ==
  ASSUME UNCHANGED vars
  PROVE  UNCHANGED Registry!vars
<1>1. UNCHANGED <<openBar, closedBar, phaseBar, idBar, verdictBar>>
  BY DEF vars, shared, call, openBar, closedBar, Gone, Creating, phaseBar,
     idBar, verdictBar, phaseOf, idOf, verdictOf, Decided
<1> QED
  BY <1>1 DEF Registry!vars, vars, shared, call

(* setSecurityToken changes the registry's token and nothing else.         *)
LEMMA TokenRefines ==
  ASSUME IInv', SetTokenBegin \/ SetTokenEnd
  PROVE  Registry!SetToken
<1>1. UNCHANGED <<openBar, closedBar, phaseBar, idBar, verdictBar>>
  BY DEF SetTokenBegin, SetTokenEnd, call, openBar, closedBar, Gone,
     Creating, phaseBar, idBar, verdictBar, phaseOf, idOf, verdictOf, Decided
<1> QED
  BY <1>1 DEF Registry!SetToken, SetTokenBegin, SetTokenEnd, call, IInv, TypeOK

(* The steps that a caller cannot tell from waiting: making the backend,   *)
(* locking, the null entry of operator[], destroy() before erase(), the    *)
(* end of the lock's scope, the call of the backend, and the reply.        *)
LEMMA SilentRefines ==
  ASSUME IInv, IInv', NEW h \in Handler, Keeps(h),
         MakeBackend(h) \/ Lock(h) \/ Insert(h) \/ Destroy(h) \/ Unlock(h)
           \/ Use(h) \/ Respond(h)
  PROVE  UNCHANGED Registry!vars
<1>1. UNCHANGED <<openBar, closedBar>>
  BY MapSame
<1>2. UNCHANGED <<m_token, op, token>>
  BY DEF MakeBackend, Lock, Insert, Destroy, Unlock, Use, Respond, shared, call
<1>3. /\ phaseOf(h)' = phaseOf(h)
      /\ verdictOf(h)' = verdictOf(h)
      /\ idOf(h)' = idOf(h)
  <2> USE DEF phaseOf, verdictOf, idOf, Decided, IInv, TypeOK, Goto, call
  <2>1. CASE MakeBackend(h)
    BY <2>1 DEF MakeBackend, ControlInv, MakeOp, LookupOp
  <2>2. CASE Lock(h) \/ Insert(h) \/ Destroy(h)
    BY <2>2 DEF Lock, Insert, Destroy
  <2>3. CASE Unlock(h)
    BY <2>3 DEF Unlock
  <2>4. CASE Use(h)
    BY <2>4, ProviderAssumption DEF Use, Have, ControlInv, LookupOp, MakeOp,
                                    Undecided
  <2>5. CASE Respond(h)
    BY <2>5 DEF Respond
  <2> QED
    BY <2>1, <2>2, <2>3, <2>4, <2>5
<1> QED
  BY <1>1, <1>2, <1>3, Stutter DEF Registry!vars

(* A token that is accepted is the registry's Admit.                       *)
LEMMA AcceptRefines ==
  ASSUME IInv, IInv', NEW h \in Handler, AcceptToken(h), Keeps(h)
  PROVE  Registry!Admit(h)
<1>1. /\ phaseOf(h) = "called"
      /\ phaseOf(h)' = "admitted"
      /\ verdictOf(h)' = verdictOf(h)
      /\ idOf(h)' = idOf(h)
  BY DEF AcceptToken, phaseOf, verdictOf, idOf, Decided, IInv, TypeOK, Goto,
     call
<1>2. /\ phaseBar[h] = "called"
      /\ phaseBar' = [phaseBar EXCEPT ![h] = "admitted"]
      /\ verdictBar' = verdictBar
      /\ idBar' = idBar
  BY <1>1, Update DEF phaseBar, verdictBar, idBar
<1> QED
  BY <1>2, MapSame DEF Registry!Admit, Registry!MayAdmit, MayAdmit,
                       AcceptToken, shared, call

(* A token that is refused is the registry's Deny.                         *)
LEMMA RefuseRefines ==
  ASSUME IInv, IInv', NEW h \in Handler, RefuseToken(h), Keeps(h)
  PROVE  Registry!Deny(h)
<1>1. /\ phaseOf(h) = "called"
      /\ phaseOf(h)' = "decided"
      /\ verdictOf(h)' = "denied"
      /\ idOf(h)' = idOf(h)
  BY DEF RefuseToken, phaseOf, verdictOf, idOf, Decided, IInv, TypeOK,
     ControlInv, Goto, Have, call, AdminOp, MakeOp, RemoveOp, LookupOp
<1>2. /\ phaseBar[h] = "called"
      /\ phaseBar' = [phaseBar EXCEPT ![h] = "decided"]
      /\ verdictBar' = [verdictBar EXCEPT ![h] = "denied"]
      /\ idBar' = idBar
  BY <1>1, Update DEF phaseBar, verdictBar, idBar
<1> QED
  BY <1>2, MapSame DEF Registry!Deny, Registry!MayRefuse, MayRefuse,
                       RefuseToken, shared, call

(* A configuration or a backend that fails is the registry's Refuse.       *)
LEMMA FailRefines ==
  ASSUME IInv, IInv', NEW h \in Handler, MakeFails(h), Keeps(h)
  PROVE  Registry!Refuse(h)
<1>1. /\ phaseOf(h) = "admitted"
      /\ phaseOf(h)' = "decided"
      /\ verdictOf(h)' = "refused"
      /\ idOf(h)' = idOf(h)
      /\ op[h] \in MakeOp
  BY DEF MakeFails, phaseOf, verdictOf, idOf, Decided, IInv, TypeOK,
     ControlInv, Goto, Have, call, MakeOp, LookupOp
<1>2. /\ phaseBar[h] = "admitted"
      /\ phaseBar' = [phaseBar EXCEPT ![h] = "decided"]
      /\ verdictBar' = [verdictBar EXCEPT ![h] = "refused"]
      /\ idBar' = idBar
  BY <1>1, Update DEF phaseBar, verdictBar, idBar
<1> QED
  BY <1>1, <1>2, MapSame DEF Registry!Refuse, Registry!Decide,
                             Registry!MakeOp, MakeOp, MakeFails, shared, call

(* A phonebook is opened by the assignment into the map                    *)
(* (ProviderImpl.hpp:161, 248), under an identifier that is new.           *)
LEMMA AssignRefines ==
  ASSUME IInv, IInv', NEW h \in Handler, Assign(h), Keeps(h)
  PROVE  Registry!Open(h)
<1>1. /\ phaseOf(h) = "admitted"
      /\ phaseOf(h)' = "decided"
      /\ verdictOf(h)' = "ok"
      /\ idOf(h)' = phonebook_id[h]
      /\ op[h] \in MakeOp
  BY DEF Assign, phaseOf, verdictOf, idOf, Decided, IInv, TypeOK,
     ControlInv, Goto, Have, call, MakeOp, LookupOp
<1>2. /\ phaseBar[h] = "admitted"
      /\ phaseBar' = [phaseBar EXCEPT ![h] = "decided"]
      /\ verdictBar' = [verdictBar EXCEPT ![h] = "ok"]
      /\ idBar' = [idBar EXCEPT ![h] = phonebook_id[h]]
  BY <1>1, Update DEF phaseBar
<1>3. /\ phonebook_id[h] \in UUID
      /\ phonebook[h] = phonebook_id[h]
      /\ m_backends[phonebook_id[h]] = "null"
  BY ValuesAssumption DEF Assign, IInv, MakerInv, PointerInv, ControlInv,
                          Inserting, Null
<1>4. phonebook_id[h] \notin openBar \cup closedBar
  BY <1>3 DEF openBar, closedBar, Gone
<1>5. openBar' = openBar \cup {phonebook_id[h]}
  BY <1>3 DEF openBar, Assign, IInv, TypeOK
<1>6. closedBar' = closedBar
  <2> SUFFICES ASSUME NEW u \in UUID PROVE Gone(u)' <=> Gone(u)
    BY DEF closedBar
  <2>1. CASE u = phonebook_id[h]
    BY <2>1, <1>3 DEF Gone, Assign, IInv, TypeOK
  <2>2. CASE u # phonebook_id[h]
    BY <2>2, <1>3, ValuesAssumption DEF Gone, Creating, Assign, IInv, TypeOK,
                                        call, Null
  <2> QED
    BY <2>1, <2>2
<1> QED
  BY <1>1, <1>2, <1>3, <1>4, <1>5, <1>6 DEF Registry!Open, Registry!Decide,
                                            Registry!MakeOp, MakeOp, Assign,
                                            call

(* The early return for an identifier that is not in the map is Miss.      *)
LEMMA MissRefines ==
  ASSUME IInv, IInv', NEW h \in Handler, NotFound(h), Keeps(h)
  PROVE  Registry!Miss(h)
<1>1. op[h] \notin MakeOp
  BY DEF NotFound, IInv, ControlInv, MakeOp, RemoveOp, LookupOp
<1>2. /\ phaseOf(h) = "admitted" /\ phaseOf(h)' = "decided"
      /\ verdictOf(h)' = "notfound"
      /\ idOf(h) = phonebook_id[h] /\ idOf(h)' = idOf(h)
  BY <1>1 DEF NotFound, phaseOf, verdictOf, idOf, Decided, IInv, TypeOK, Goto,
              Have, call
<1>3. /\ phaseBar[h] = "admitted"
      /\ phaseBar' = [phaseBar EXCEPT ![h] = "decided"]
      /\ verdictBar' = [verdictBar EXCEPT ![h] = "notfound"]
      /\ idBar[h] = phonebook_id[h] /\ idBar' = idBar
  BY <1>2, Update DEF phaseBar, verdictBar, idBar
<1>4. phonebook_id[h] \notin openBar
  BY DEF openBar, NotFound, InMap
<1> QED
  BY <1>1, <1>3, <1>4, MapSame DEF Registry!Miss, Registry!Decide,
                                   Registry!MakeOp, MakeOp, NotFound, shared,
                                   call

(* A lookup that finds an entry finds an open phonebook.                   *)
LEMMA FindRefines ==
  ASSUME IInv, IInv', NEW h \in Handler, Find(h), Keeps(h)
  PROVE  Registry!Find(h)
<1>1. op[h] \in LookupOp
  BY DEF Find, IInv, ControlInv
<1>2. /\ phaseOf(h) = "admitted" /\ phaseOf(h)' = "decided"
      /\ verdictOf(h)' = "found"
      /\ idOf(h) = phonebook_id[h] /\ idOf(h)' = idOf(h)
  BY <1>1 DEF Find, phaseOf, verdictOf, idOf, Decided, IInv, TypeOK,
              ControlInv, Undecided, Goto, call, LookupOp, MakeOp
<1>3. /\ phaseBar[h] = "admitted"
      /\ phaseBar' = [phaseBar EXCEPT ![h] = "decided"]
      /\ verdictBar' = [verdictBar EXCEPT ![h] = "found"]
      /\ idBar[h] = phonebook_id[h] /\ idBar' = idBar
  BY <1>2, Update DEF phaseBar, verdictBar, idBar
<1>4. phonebook_id[h] \in openBar
  <2>1. SoundView
    BY InvSafe
  <2> QED
    BY <2>1 DEF SoundView, openBar, Find, InMap
<1> QED
  BY <1>1, <1>3, <1>4, MapSame DEF Registry!Find, Registry!Decide,
                                   Registry!LookupOp, LookupOp, Find, shared,
                                   call

(* An erasure removes an open phonebook, and for good.                     *)
LEMMA Removal ==
  ASSUME IInv, IInv', NEW h \in Handler, Close(h) \/ Erase(h)
  PROVE  /\ phonebook_id[h] \in openBar
         /\ openBar' = openBar \ {phonebook_id[h]}
         /\ closedBar' = closedBar \cup {phonebook_id[h]}
<1>1. /\ phonebook_id[h] \in UUID
      /\ m_backends[phonebook_id[h]] = "present"
      /\ backend[phonebook_id[h]] # "unmade"
  <2>1. CASE Close(h)
    <3>1. SoundView
      BY InvSafe
    <3> QED
      BY <2>1, <3>1 DEF SoundView, Close, InMap
  <2>2. CASE Erase(h)
    BY <2>2 DEF Erase, IInv, EraseInv
  <2> QED
    BY <2>1, <2>2
<1>2. m_backends' = [m_backends EXCEPT ![phonebook_id[h]] = "absent"]
  BY DEF Close, Erase
<1>3. ~Creating(phonebook_id[h])
  BY <1>1, ValuesAssumption DEF Creating, IInv, PointerInv, MakerInv, MakeOp,
                                LookupOp, Null
<1>4. \A u \in UUID : /\ Creating(u)' <=> Creating(u)
                      /\ backend'[u] = "unmade" <=> backend[u] = "unmade"
  BY <1>1 DEF Creating, Close, Erase, Release, call, IInv, TypeOK
<1>5. openBar' = openBar \ {phonebook_id[h]}
  BY <1>2 DEF openBar, IInv, TypeOK
<1>6. closedBar' = closedBar \cup {phonebook_id[h]}
  BY <1>1, <1>2, <1>3, <1>4 DEF closedBar, Gone, IInv, TypeOK
<1> QED
  BY <1>1, <1>5, <1>6 DEF openBar

(* close takes effect in its erase, destroy in the erase that follows      *)
(* destroy(), whatever that returned.                                      *)
LEMMA RemoveRefines ==
  ASSUME IInv, IInv', NEW h \in Handler, Close(h) \/ Erase(h), Keeps(h)
  PROVE  Registry!Remove(h)
<1>1. /\ op[h] \in RemoveOp
      /\ op[h] \notin MakeOp \cup LookupOp
      /\ pc[h] \in {"remove", "erase"}
  BY DEF Close, Erase, IInv, ControlInv, RemoveOp, MakeOp, LookupOp
<1>2. pc'[h] = "unlock"
  BY DEF Close, Erase, Goto, IInv, TypeOK
<1>3. result'[h] = "ok" \/ (op[h] = "destroy" /\ result'[h] = "failed")
  <2>1. CASE Close(h)
    BY <2>1 DEF Close, Have, IInv, TypeOK
  <2>2. CASE Erase(h)
    <3>1. pc[h] = "erase" /\ result' = result
      BY <2>2 DEF Erase
    <3> QED
      BY <3>1 DEF IInv, ControlInv
  <2> QED
    BY <2>1, <2>2
<1>4. UNCHANGED <<m_token, op, token, phonebook_id>>
  BY DEF Close, Erase, call
<1>5. /\ phaseOf(h) = "admitted" /\ phaseOf(h)' = "decided"
      /\ verdictOf(h)' = result'[h]
      /\ idOf(h) = phonebook_id[h] /\ idOf(h)' = idOf(h)
  BY <1>1, <1>2, <1>4 DEF phaseOf, verdictOf, idOf, Decided
<1>6. /\ phaseBar[h] = "admitted"
      /\ phaseBar' = [phaseBar EXCEPT ![h] = "decided"]
      /\ verdictBar' = [verdictBar EXCEPT ![h] = result'[h]]
      /\ idBar[h] = phonebook_id[h] /\ idBar' = idBar
  BY <1>5, Update DEF phaseBar, verdictBar, idBar
<1> QED
  BY <1>1, <1>3, <1>4, <1>6, Removal DEF Registry!Remove, Registry!Decide,
                                         Registry!RemoveOp, RemoveOp

(* The return of a handler is the registry's Finish.                       *)
LEMMA ReturnRefines ==
  ASSUME IInv, IInv', NEW h \in Handler, Return(h), Keeps(h)
  PROVE  Registry!Finish(h)
<1>1. /\ phaseOf(h) = "decided"
      /\ phaseOf(h)' = "idle"
      /\ verdictOf(h)' = "none"
      /\ idOf(h)' = NilUUID
  BY DEF Return, phaseOf, verdictOf, idOf, Decided, IInv, TypeOK, Goto, call
<1>2. /\ phaseBar[h] = "decided"
      /\ phaseBar' = [phaseBar EXCEPT ![h] = "idle"]
      /\ verdictBar' = [verdictBar EXCEPT ![h] = "none"]
      /\ idBar' = [idBar EXCEPT ![h] = NilUUID]
  BY <1>1, Update DEF phaseBar, verdictBar, idBar
<1> QED
  BY <1>2, MapSame DEF Registry!Finish, Registry!NoOp, NoOp, Return, shared

(* Every step of the provider is a step of the registry or a stutter.      *)
LEMMA StepRefines ==
  ASSUME IInv, IInv', [Next]_vars
  PROVE  [Registry!Next]_Registry!vars
<1>1. CASE UNCHANGED vars
  BY <1>1, UnchangedRefines
<1>2. CASE SetTokenBegin \/ SetTokenEnd
  BY <1>2, TokenRefines DEF Registry!Next
<1>3. CASE \E h \in Handler : Receive(h) \/ Lock(h) \/ LocalStep(h)
  <2> PICK h \in Handler : Receive(h) \/ Lock(h) \/ LocalStep(h)
    BY <1>3
  <2>1. Keeps(h)
    BY OthersKeep DEF IInv
  <2>2. CASE \/ MakeBackend(h) \/ Lock(h) \/ Insert(h) \/ Destroy(h)
             \/ Unlock(h) \/ Use(h) \/ Respond(h)
    BY <2>1, <2>2, SilentRefines
  <2>3. CASE \/ Receive(h) \/ AcceptToken(h) \/ RefuseToken(h) \/ MakeFails(h)
             \/ Assign(h) \/ NotFound(h) \/ Close(h) \/ Erase(h) \/ Find(h)
             \/ Return(h)
    <3>1. Registry!HandlerStep(h)
      BY <2>1, <2>3, ReceiveRefines, AcceptRefines, RefuseRefines,
         FailRefines, AssignRefines, MissRefines, RemoveRefines, FindRefines,
         ReturnRefines
         DEF Registry!HandlerStep
    <3> QED
      BY <3>1 DEF Registry!Next
  <2> QED
    BY <2>2, <2>3 DEF LocalStep
<1> QED
  BY <1>1, <1>2, <1>3 DEF Next

(* Implements: whatever the interleaving of its handlers, however many     *)
(* they are, the provider (ProviderImpl.hpp) behaves as a registry on      *)
(* which each RPC takes effect in one step, the property RegistrySpec.     *)
THEOREM Implements == Spec => RegistrySpec
<1>1. Init => Registry!Init
  BY InitRefines
<1>2. IInv /\ IInv' /\ [Next]_vars => [Registry!Next]_Registry!vars
  BY StepRefines
<1> QED
  BY <1>1, <1>2, Invariance, PTL DEF Spec, RegistrySpec, Registry!Spec

===============================================================================
