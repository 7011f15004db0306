----------------------------- MODULE ProviderImpl -----------------------------
(***************************************************************************)
(* The RPC handlers of a yp provider (src/src/ProviderImpl.hpp), run       *)
(* concurrently by the threads of an Argobots pool.                        *)
(*                                                                         *)
(* The shared state is the map m_backends, the mutex that guards it, the   *)
(* security token, which nothing guards, and the backend objects, which    *)
(* live as long as somebody points at them: the map, the handler that made *)
(* one and has not moved it into the map yet, or a handler that found one. *)
(* Each handler goes through the steps of its RPC function; a step of one  *)
(* handler may come between any two steps of another.                      *)
(*                                                                         *)
(* The backend made for an identifier is itself known by that identifier:  *)
(* every call of createPhonebook generates a new one.                      *)
(***************************************************************************)
EXTENDS PhonebookRPC, Naturals

CONSTANTS
  BackendSays, (* What a backend's destroy and computeSum may return:      *)
               (* DummyPhonebook says "ok", others may also say "failed".  *)
  Unlocked     (* Stands for the holder of a mutex that nobody holds.      *)

ASSUME ProviderAssumption ==
  /\ BackendSays \subseteq {"ok", "failed"}
  /\ BackendSays # {}
  /\ Unlocked \notin Handler

VARIABLES
  m_backends,     (* For each UUID: "absent" from the map, there with a    *)
                  (*   "null" pointer, or there with its backend.          *)
  m_backends_mtx, (* The holder of the mutex, or Unlocked.                 *)
  m_token,        (* The security token, or TornToken.                     *)
  backend,        (* The life of each backend object.                      *)
  pc,             (* The next step of each handler.                        *)
  op,             (* The RPC each handler runs and its arguments:          *)
  token,          (*   the token and                                       *)
  phonebook_id,   (*   the identifier given, or generated.                 *)
  phonebook,      (* The backend the handler's local pointer refers to.    *)
  result,         (* The handler's RequestResult.                          *)
  replies         (* How often the handler called req.respond.             *)

shared == <<m_backends, m_backends_mtx, m_token, backend>>
call   == <<op, token, phonebook_id>>
vars   == <<shared, pc, call, phonebook, result, replies>>

Null == NilUUID    (* The local pointer of a handler that has no backend.  *)

-----------------------------------------------------------------------------

Entry  == {"absent", "null", "present"}
Life   == {"unmade", "live", "destroyed", "freed"}
Result == {"none", "denied", "refused", "ok", "failed", "notfound"}

PC == {"idle", "auth", "make", "lock", "insert", "assign", "remove", "erase",
       "find", "unlock", "use", "respond", "return"}

(* The steps between lock and unlock.                                      *)
Locked == {"insert", "assign", "remove", "erase", "find", "unlock"}

(* TypeOK: the types of the variables; no handler answers with a result    *)
(* nobody has set.                                                         *)
TypeOK ==
  /\ m_backends     \in [UUID -> Entry]
  /\ m_backends_mtx \in Handler \cup {Unlocked}
  /\ m_token        \in Token \cup {TornToken}
  /\ backend        \in [UUID -> Life]
  /\ pc             \in [Handler -> PC]
  /\ op             \in [Handler -> Op \cup {NoOp}]
  /\ token          \in [Handler -> Token]
  /\ phonebook_id   \in [Handler -> AnyUUID]
  /\ phonebook      \in [Handler -> AnyUUID]
  /\ result         \in [Handler -> Result]
  /\ replies        \in [Handler -> Nat]

(* A provider starts with the phonebooks of its configuration.             *)
Init ==
  /\ \E configured \in SUBSET UUID :
       /\ m_backends = [u \in UUID |->
                          IF u \in configured THEN "present" ELSE "absent"]
       /\ backend    = [u \in UUID |->
                          IF u \in configured THEN "live" ELSE "unmade"]
  /\ m_backends_mtx = Unlocked
  /\ m_token      = NoToken
  /\ pc           = [h \in Handler |-> "idle"]
  /\ op           = [h \in Handler |-> NoOp]
  /\ token        = [h \in Handler |-> NoToken]
  /\ phonebook_id = [h \in Handler |-> NilUUID]
  /\ phonebook    = [h \in Handler |-> Null]
  /\ result       = [h \in Handler |-> "none"]
  /\ replies      = [h \in Handler |-> 0]

-----------------------------------------------------------------------------
(* Helpers.                                                                *)

Goto(h, next) == pc' = [pc EXCEPT ![h] = next]

Have(h, r) == result' = [result EXCEPT ![h] = r]

Reply(h) == replies' = [replies EXCEPT ![h] = @ + 1]

InMap(i) == i \in UUID /\ m_backends[i] # "absent"

(* Mutant: FIND_PHONEBOOK copies a raw pointer, which nobody counts.       *)
HeldByOtherMaker(h, u) ==
  \E g \in Handler \ {h} : phonebook[g] = u /\ op[g] \in MakeOp

(* Somebody other than handler h points at the backend of u.               *)
HeldByOther(h, u) == \E g \in Handler \ {h} : phonebook[g] = u

(* Backend u after the last but one, or the last, pointer at it is gone.   *)
Release(u, stillHeld) ==
  backend' = IF stillHeld THEN backend ELSE [backend EXCEPT ![u] = "freed"]

-----------------------------------------------------------------------------
(***************************************************************************)
(* An RPC arrives.  An identifier that names a phonebook was generated     *)
(* before anybody could send it; NilUUID stands for all others.            *)
(***************************************************************************)
Known == {u \in UUID : backend[u] # "unmade"} \cup {NilUUID}

Receive(h) ==
  /\ pc[h] = "idle"
  /\ \/ \E o \in MakeOp, t \in Token :
          /\ op' = [op EXCEPT ![h] = o]
          /\ token' = [token EXCEPT ![h] = t]
          /\ Goto(h, "auth")
          /\ UNCHANGED phonebook_id
     \/ \E o \in RemoveOp, t \in Token, i \in Known :
          /\ op' = [op EXCEPT ![h] = o]
          /\ token' = [token EXCEPT ![h] = t]
          /\ phonebook_id' = [phonebook_id EXCEPT ![h] = i]
          /\ Goto(h, "auth")
     \/ \E o \in LookupOp, i \in Known :
          /\ op' = [op EXCEPT ![h] = o]
          /\ phonebook_id' = [phonebook_id EXCEPT ![h] = i]
          /\ Goto(h, "lock")
          /\ UNCHANGED token
  /\ UNCHANGED <<shared, phonebook, result, replies>>

(* The Admin RPCs compare the token first, and refuse at once.             *)
AcceptToken(h) ==
  /\ pc[h] = "auth"
  /\ MayAdmit(m_token, token[h])
  /\ Goto(h, IF op[h] \in MakeOp THEN "make" ELSE "lock")
  /\ UNCHANGED <<shared, call, phonebook, result, replies>>

RefuseToken(h) ==
  /\ pc[h] = "auth"
  /\ MayRefuse(m_token, token[h])
  /\ Have(h, "denied")
  /\ Reply(h)
  /\ Goto(h, "return")
  /\ UNCHANGED <<shared, call, phonebook>>

(* Mutant: the identifier is new to the map, but may have been in use.     *)
MakeBackendAgain(h) ==
  /\ pc[h] = "make"
  /\ \E u \in {v \in UUID : m_backends[v] = "absent"
                           /\ \A g \in Handler : phonebook[g] # v} :
       /\ phonebook_id' = [phonebook_id EXCEPT ![h] = u]
       /\ phonebook' = [phonebook EXCEPT ![h] = u]
       /\ backend' = [backend EXCEPT ![u] = "live"]
  /\ Goto(h, "lock")
  /\ UNCHANGED <<m_backends, m_backends_mtx, m_token, op, token,
                 result, replies>>

(***************************************************************************)
(* createPhonebook and openPhonebookRPC, up to the lock: the configuration *)
(* is parsed and the factory is asked for a backend.  Either may fail.     *)
(* Identifiers are taken from those no phonebook has had; running out of   *)
(* UUID is a bound of the model.                                           *)
(***************************************************************************)
MakeBackend(h) ==
  /\ pc[h] = "make"
  /\ \E u \in {v \in UUID : backend[v] = "unmade"} :
       /\ phonebook_id' = [phonebook_id EXCEPT ![h] = u]
       /\ phonebook' = [phonebook EXCEPT ![h] = u]
       /\ backend' = [backend EXCEPT ![u] = "live"]
  /\ Goto(h, "lock")
  /\ UNCHANGED <<m_backends, m_backends_mtx, m_token, op, token,
                 result, replies>>

MakeFails(h) ==
  /\ pc[h] = "make"
  /\ Have(h, "refused")
  /\ Goto(h, "respond")
  /\ UNCHANGED <<shared, call, phonebook, replies>>

(* Mutant: no lock_guard, the map is used at once.                         *)
LockNothing(h) ==
  /\ pc[h] = "lock"
  /\ m_backends_mtx' = h
  /\ Goto(h, IF op[h] \in MakeOp THEN "insert"
             ELSE IF op[h] \in RemoveOp THEN "remove" ELSE "find")
  /\ UNCHANGED <<m_backends, m_token, backend, call, phonebook, result,
                 replies>>

(* Mutant: the block that inserts has no lock_guard.                       *)
LockUnlessMaking(h) ==
  /\ pc[h] = "lock"
  /\ op[h] \in MakeOp \/ m_backends_mtx = Unlocked
  /\ m_backends_mtx' = h
  /\ Goto(h, IF op[h] \in MakeOp THEN "insert"
             ELSE IF op[h] \in RemoveOp THEN "remove" ELSE "find")
  /\ UNCHANGED <<m_backends, m_token, backend, call, phonebook, result,
                 replies>>

(* std::lock_guard<tl::mutex> lock(m_backends_mtx)                         *)
Lock(h) ==
  /\ pc[h] = "lock"
  /\ m_backends_mtx = Unlocked
  /\ m_backends_mtx' = h
  /\ Goto(h, IF op[h] \in MakeOp THEN "insert"
             ELSE IF op[h] \in RemoveOp THEN "remove" ELSE "find")
  /\ UNCHANGED <<m_backends, m_token, backend, call, phonebook, result,
                 replies>>

(***************************************************************************)
(* m_backends[phonebook_id] = std::move(backend): operator[] adds a null   *)
(* pointer, and the assignment moves the backend into it.                  *)
(***************************************************************************)
Insert(h) ==
  /\ pc[h] = "insert"
  /\ m_backends' = [m_backends EXCEPT ![phonebook_id[h]] = "null"]
  /\ Goto(h, "assign")
  /\ UNCHANGED <<m_backends_mtx, m_token, backend, call, phonebook, result,
                 replies>>

Assign(h) ==
  /\ pc[h] = "assign"
  /\ m_backends' = [m_backends EXCEPT ![phonebook_id[h]] = "present"]
  /\ phonebook' = [phonebook EXCEPT ![h] = Null]
  /\ Have(h, "ok")
  /\ Goto(h, "unlock")
  /\ UNCHANGED <<m_backends_mtx, m_token, backend, call, replies>>

(* Mutant: the early return leaves the mutex locked (no lock_guard).       *)
NotFoundLocked(h) ==
  /\ pc[h] \in {"remove", "find"}
  /\ ~InMap(phonebook_id[h])
  /\ Have(h, "notfound")
  /\ Reply(h)
  /\ Goto(h, "return")
  /\ UNCHANGED <<shared, call, phonebook>>

(* The early return of closePhonebookRPC, destroyPhonebookRPC and          *)
(* FIND_PHONEBOOK: the reply is sent before the lock is released.          *)
NotFound(h) ==
  /\ pc[h] \in {"remove", "find"}
  /\ ~InMap(phonebook_id[h])
  /\ Have(h, "notfound")
  /\ Reply(h)
  /\ Goto(h, "unlock")
  /\ UNCHANGED <<shared, call, phonebook>>

(* m_backends.erase(phonebook_id)                                          *)
Close(h) ==
  /\ pc[h] = "remove" /\ op[h] = "close"
  /\ InMap(phonebook_id[h])
  /\ m_backends' = [m_backends EXCEPT ![phonebook_id[h]] = "absent"]
  /\ Release(phonebook_id[h], HeldByOther(h, phonebook_id[h]))
  /\ Have(h, "ok")
  /\ Goto(h, "unlock")
  /\ UNCHANGED <<m_backends_mtx, m_token, call, phonebook, replies>>

(* Mutant: the lock is released while the backend destroys itself.         *)
DestroyUnlocked(h) ==
  /\ pc[h] = "remove" /\ op[h] = "destroy"
  /\ InMap(phonebook_id[h])
  /\ backend' = [backend EXCEPT ![phonebook_id[h]] = "destroyed"]
  /\ \E r \in BackendSays : Have(h, r)
  /\ Goto(h, "erase")
  /\ m_backends_mtx' = Unlocked
  /\ UNCHANGED <<m_backends, m_token, call, phonebook, replies>>

(* result = m_backends[phonebook_id]->destroy()                            *)
Destroy(h) ==
  /\ pc[h] = "remove" /\ op[h] = "destroy"
  /\ InMap(phonebook_id[h])
  /\ backend' = [backend EXCEPT ![phonebook_id[h]] = "destroyed"]
  /\ \E r \in BackendSays : Have(h, r)
  /\ Goto(h, "erase")
  /\ UNCHANGED <<m_backends, m_backends_mtx, m_token, call, phonebook,
                 replies>>

(* Mutant: a phonebook whose destroy failed stays in the map.              *)
EraseIfOk(h) ==
  /\ pc[h] = "erase"
  /\ IF result[h] = "ok"
     THEN /\ m_backends' = [m_backends EXCEPT ![phonebook_id[h]] = "absent"]
          /\ Release(phonebook_id[h], HeldByOther(h, phonebook_id[h]))
     ELSE UNCHANGED <<m_backends, backend>>
  /\ Goto(h, "unlock")
  /\ UNCHANGED <<m_backends_mtx, m_token, call, phonebook, result, replies>>

(* m_backends.erase(phonebook_id), whatever destroy said                   *)
Erase(h) ==
  /\ pc[h] = "erase"
  /\ m_backends' = [m_backends EXCEPT ![phonebook_id[h]] = "absent"]
  /\ Release(phonebook_id[h], HeldByOther(h, phonebook_id[h]))
  /\ Goto(h, "unlock")
  /\ UNCHANGED <<m_backends_mtx, m_token, call, phonebook, result, replies>>

(* FIND_PHONEBOOK copies the shared pointer under the lock.                *)
Find(h) ==
  /\ pc[h] = "find"
  /\ InMap(phonebook_id[h])
  /\ phonebook' = [phonebook EXCEPT ![h] = phonebook_id[h]]
  /\ Goto(h, "unlock")
  /\ UNCHANGED <<shared, call, result, replies>>

(* Mutant: a handler that has replied goes on and replies again.           *)
UnlockGoOn(h) ==
  /\ pc[h] = "unlock"
  /\ m_backends_mtx' = Unlocked
  /\ Goto(h, IF op[h] \in LookupOp /\ phonebook[h] # Null
             THEN "use" ELSE "respond")
  /\ UNCHANGED <<m_backends, m_token, backend, call, phonebook, result,
                 replies>>

(* End of the lock_guard's scope; a handler that has replied returns.      *)
Unlock(h) ==
  /\ pc[h] = "unlock"
  /\ m_backends_mtx' = Unlocked
  /\ Goto(h, IF replies[h] > 0 THEN "return"
             ELSE IF op[h] \in LookupOp THEN "use" ELSE "respond")
  /\ UNCHANGED <<m_backends, m_token, backend, call, phonebook, result,
                 replies>>

(* Mutant: the sum is sent back in a result that was never set.            *)
UseUnset(h) ==
  /\ pc[h] = "use"
  /\ \/ op[h] = "check" /\ Have(h, "ok") /\ Goto(h, "respond")
     \/ op[h] = "hello" /\ Have(h, "ok") /\ Goto(h, "return")
     \/ op[h] = "sum" /\ Have(h, "unset") /\ Goto(h, "respond")
  /\ UNCHANGED <<shared, call, phonebook, replies>>

(***************************************************************************)
(* What a lookup does with the phonebook it found, without the lock: check *)
(* reports it, sum and hello call the backend.  hello sends no reply.      *)
(***************************************************************************)
Use(h) ==
  /\ pc[h] = "use"
  /\ \/ op[h] = "check" /\ Have(h, "ok") /\ Goto(h, "respond")
     \/ op[h] = "hello" /\ Have(h, "ok") /\ Goto(h, "return")
     \/ /\ op[h] = "sum"
        /\ \E r \in BackendSays : Have(h, r)
        /\ Goto(h, "respond")
  /\ UNCHANGED <<shared, call, phonebook, replies>>

Respond(h) ==
  /\ pc[h] = "respond"
  /\ Reply(h)
  /\ Goto(h, "return")
  /\ UNCHANGED <<shared, call, phonebook, result>>

(* Mutant: the handler's pointer goes away and deletes nothing.            *)
ReturnLeak(h) ==
  /\ pc[h] = "return"
  /\ phonebook'    = [phonebook EXCEPT ![h] = Null]
  /\ op'           = [op EXCEPT ![h] = NoOp]
  /\ token'        = [token EXCEPT ![h] = NoToken]
  /\ phonebook_id' = [phonebook_id EXCEPT ![h] = NilUUID]
  /\ result'       = [result EXCEPT ![h] = "none"]
  /\ replies'      = [replies EXCEPT ![h] = 0]
  /\ Goto(h, "idle")
  /\ UNCHANGED shared

(* The handler returns and its local pointer goes away.                    *)
Return(h) ==
  /\ pc[h] = "return"
  /\ IF phonebook[h] = Null
     THEN UNCHANGED backend
     ELSE Release(phonebook[h], \/ m_backends[phonebook[h]] = "present"
                                \/ HeldByOther(h, phonebook[h]))
  /\ phonebook'    = [phonebook EXCEPT ![h] = Null]
  /\ op'           = [op EXCEPT ![h] = NoOp]
  /\ token'        = [token EXCEPT ![h] = NoToken]
  /\ phonebook_id' = [phonebook_id EXCEPT ![h] = NilUUID]
  /\ result'       = [result EXCEPT ![h] = "none"]
  /\ replies'      = [replies EXCEPT ![h] = 0]
  /\ Goto(h, "idle")
  /\ UNCHANGED <<m_backends, m_backends_mtx, m_token>>

-----------------------------------------------------------------------------
(* Provider::setSecurityToken assigns the string while handlers read it.   *)

SetTokenBegin ==
  /\ m_token # TornToken
  /\ m_token' = TornToken
  /\ UNCHANGED <<m_backends, m_backends_mtx, backend, pc, call, phonebook,
                 result, replies>>

SetTokenEnd ==
  /\ m_token = TornToken
  /\ m_token' \in Token
  /\ UNCHANGED <<m_backends, m_backends_mtx, backend, pc, call, phonebook,
                 result, replies>>

-----------------------------------------------------------------------------

(* Every step of a handler that needs nobody else's leave.                 *)
LocalStep(h) ==
  \/ AcceptToken(h) \/ RefuseToken(h)
  \/ MakeBackend(h) \/ MakeFails(h)
  \/ Insert(h) \/ Assign(h)
  \/ NotFound(h) \/ Close(h) \/ Destroy(h) \/ Erase(h) \/ Find(h)
  \/ Unlock(h) \/ Use(h) \/ Respond(h) \/ Return(h)

Next ==
  \/ SetTokenBegin \/ SetTokenEnd
  \/ \E h \in Handler : Receive(h) \/ Lock(h) \/ LocalStep(h)

Spec == Init /\ [][Next]_vars

(***************************************************************************)
(* A thread that can run is run by the pool's scheduler, and a thread that *)
(* keeps asking for the mutex gets it.  No client has to send anything and *)
(* nobody has to finish setting a token.                                   *)
(***************************************************************************)
Fairness == \A h \in Handler : WF_vars(LocalStep(h)) /\ SF_vars(Lock(h))

FairSpec == Spec /\ Fairness

-----------------------------------------------------------------------------
(* Safety.                                                                 *)

(***************************************************************************)
(* SoundView: whoever has the lock and looks an identifier up meets no     *)
(* null pointer left by a half-done insertion and no phonebook whose       *)
(* destroy has run; every entry is a live backend.  This is what holding   *)
(* the lock from operator[] to the assignment, and from destroy() to       *)
(* erase, is for (ProviderImpl.hpp:160, 247, 305-317).                     *)
(***************************************************************************)
SoundView ==
  \A h \in Handler : pc[h] \in {"remove", "find"} =>
    \A u \in UUID : InMap(u) =>
      m_backends[u] = "present" /\ backend[u] = "live"

(***************************************************************************)
(* NoUseAfterFree: the backend a lookup works on outside the lock exists,  *)
(* though the phonebook may have been closed or destroyed since it was     *)
(* found: FIND_PHONEBOOK copies the shared pointer (ProviderImpl.hpp:33).  *)
(***************************************************************************)
NoUseAfterFree ==
  \A h \in Handler : pc[h] = "use" =>
    phonebook[h] \in UUID /\ backend[phonebook[h]] \in {"live", "destroyed"}

(***************************************************************************)
(* NoLeak: a backend nobody can reach any more, neither through the map    *)
(* nor through a handler's pointer, has been freed.                        *)
(***************************************************************************)
NoLeak ==
  \A u \in UUID : backend[u] \in {"live", "destroyed"} =>
    m_backends[u] = "present" \/ \E h \in Handler : phonebook[h] = u

(***************************************************************************)
(* OneRemover: of the handlers that close or destroy the same phonebook at *)
(* most one removes it; the others report that it was not found.           *)
(***************************************************************************)
HasRemoved(h) == op[h] \in RemoveOp /\ result[h] \in {"ok", "failed"}

OneRemover ==
  \A g, h \in Handler : g # h /\ HasRemoved(g) /\ HasRemoved(h) =>
    phonebook_id[g] # phonebook_id[h]

(***************************************************************************)
(* RepliedOnce: when a handler returns it has answered its caller exactly  *)
(* once, whichever early return it took, and it never answers twice; only  *)
(* a hello that found its phonebook is not answered.                       *)
(***************************************************************************)
RepliedOnce ==
  \A h \in Handler :
    /\ replies[h] <= 1
    /\ pc[h] = "return" =>
         (replies[h] = 0 <=> op[h] = "hello" /\ result[h] = "ok")

(***************************************************************************)
(* NoRevival: an identifier that has been removed is never served again,   *)
(* so a stale handle cannot come to name another phonebook.                *)
(***************************************************************************)
Creating(u) == \E h \in Handler : op[h] \in MakeOp /\ phonebook[h] = u

Gone(u) ==
  m_backends[u] = "absent" /\ backend[u] # "unmade" /\ ~Creating(u)

NoRevival == [][\A u \in UUID : Gone(u) => Gone(u)']_vars

-----------------------------------------------------------------------------
(* The provider implements the registry: an RPC takes effect in the step   *)
(* that changes, or reads, the map.                                        *)

Decided(h) == pc[h] \in {"unlock", "use", "respond", "return"}

phaseOf(h) ==
  IF pc[h] = "idle" THEN "idle"
  ELSE IF pc[h] = "auth" THEN "called"
  ELSE IF Decided(h) THEN "decided" ELSE "admitted"

verdictOf(h) ==
  IF ~Decided(h) THEN "none"
  ELSE IF op[h] \in LookupOp /\ result[h] # "notfound" THEN "found"
  ELSE result[h]

(* The identifier an RPC was given, or the one it has made public.         *)
idOf(h) ==
  IF op[h] \in MakeOp /\ verdictOf(h) # "ok" THEN NilUUID
  ELSE phonebook_id[h]

openBar    == {u \in UUID : m_backends[u] = "present"}
closedBar  == {u \in UUID : Gone(u)}
phaseBar   == [h \in Handler |-> phaseOf(h)]
verdictBar == [h \in Handler |-> verdictOf(h)]
idBar      == [h \in Handler |-> idOf(h)]

Registry == INSTANCE PhonebookRegistry WITH
  open    <- openBar,
  closed  <- closedBar,
  token   <- m_token,
  phase   <- phaseBar,
  op      <- op,
  tok     <- token,
  id      <- idBar,
  verdict <- verdictBar

(***************************************************************************)
(* RegistrySpec: every RPC, however its steps interleave with others,      *)
(* takes effect at once, at a moment between its arrival and its return,   *)
(* exactly as PhonebookRegistry says.                                      *)
(***************************************************************************)
RegistrySpec == Registry!Spec

-----------------------------------------------------------------------------
(* Liveness.                                                               *)

(***************************************************************************)
(* Served: every RPC that arrives is finished: no path through a handler   *)
(* keeps the lock, and no handler waits for another forever.               *)
(***************************************************************************)
Served == \A h \in Handler : pc[h] # "idle" ~> pc[h] = "idle"

===============================================================================
