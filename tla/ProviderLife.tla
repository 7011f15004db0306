----------------------------- MODULE ProviderLife -----------------------------
(***************************************************************************)
(* The life of one ProviderImpl (src/src/ProviderImpl.hpp:65-122): it      *)
(* defines its RPCs, makes the phonebooks of its configuration while RPCs  *)
(* are already dispatched, is asked for its configuration, and goes when   *)
(* the engine finalizes (Provider.cpp:18).  getConfig takes no lock and    *)
(* the RPCs are defined before the members they use exist: what keeps this *)
(* sound is how Argobots runs the threads.                                 *)
(*                                                                         *)
(* A thread runs on an execution stream until it blocks, and only as many  *)
(* threads as there are Streams are between two such points at a time.     *)
(* The owner constructs and destroys the provider, the reader calls        *)
(* Provider::getConfig, and each handler runs one RPC after another.       *)
(***************************************************************************)
EXTENDS PhonebookRPC, Sequences, FiniteSets, Naturals

CONSTANTS
  Owner, Reader, (* The threads that are not handlers.                     *)
  Unlocked,      (* Stands for the holder of a mutex that nobody holds.    *)
  Streams,       (* The number of execution streams.                       *)
  Blocking,      (* The steps in which a backend may block its thread.     *)
  Finalizing,    (* The provider goes because its engine finalizes, and    *)
                 (*   not because Bedrock deletes it.                      *)
  MaxEntries     (* Bound: the phonebooks a configuration lists.           *)

Thread == Handler \cup {Owner, Reader}

ASSUME LifeAssumption ==
  /\ Owner \notin Handler /\ Reader \notin Handler /\ Owner # Reader
  /\ Unlocked \notin Thread
  /\ Streams \in Nat \ {0}
  /\ Blocking \subseteq {"make", "destroy", "use", "scan"}
  /\ Finalizing \in BOOLEAN
  /\ MaxEntries \in Nat

VARIABLES
  pc,             (* The next step of each thread.                         *)
  op,             (* The RPC it runs; the owner creates phonebooks.        *)
  phonebook_id,   (* The phonebook it works on.                            *)
  defined,        (* The RPCs the engine dispatches to this provider.      *)
  m_backends,     (* As in ProviderImpl; "erased" entries are absent.      *)
  m_backends_mtx, (* The holder of the mutex.                              *)
  phonebooks,     (* The entries of the configuration still to be made.    *)
  listed,         (* The entries that getConfig has put into its document. *)
  promised, made  (* History: how many phonebooks the configuration asks   *)
                  (*   for, and those the constructor made.                *)

call == <<op, phonebook_id>>
map  == <<m_backends, m_backends_mtx>>
conf == <<phonebooks, promised, made>>
vars == <<pc, call, defined, map, listed, conf>>

-----------------------------------------------------------------------------

(* What a configuration's phonebook, or the type a request names, can be:  *)
(* made, without a type, of an unknown type, or one whose create throws.   *)
Type == {"good", "unknown", "failing"}
Listing == Type \cup {"untyped"}

(* A document that is not JSON, not an object or without an array of       *)
(* phonebooks has the same effect as an empty one.                         *)
Documents == UNION {[1..n -> Listing] : n \in 0..MaxEntries}

Good(doc) == Cardinality({i \in DOMAIN doc : doc[i] = "good"})

(* The RPCs in the order in which the members are declared.                *)
RPCs == <<"create", "open", "close", "destroy", "check", "hello", "sum">>

PC == {"idle", "new", "make", "lock", "insert", "assign", "remove",
       "destroy", "erase", "find", "missed", "unlock", "use", "respond",
       "return", "define", "configure", "own", "deregister", "gone",
       "scan", "print"}

(* TypeOK: the types of the variables; who adds an entry has generated an  *)
(* identifier for it.                                                      *)
TypeOK ==
  /\ pc \in [Thread -> PC]
  /\ op \in [Thread -> Op \cup {NoOp}]
  /\ phonebook_id \in [Thread -> AnyUUID]
  /\ defined \subseteq Op
  /\ m_backends \in [UUID -> {"absent", "null", "present", "erased"}]
  /\ m_backends_mtx \in Thread \cup {Unlocked}
  /\ phonebooks \in Seq(Listing)
  /\ listed \subseteq UUID
  /\ promised \in Nat
  /\ made \subseteq UUID
  /\ \A t \in Thread :
       pc[t] \in {"insert", "assign"} => phonebook_id[t] \in UUID

Init ==
  /\ pc = [t \in Thread |-> "idle"]
  /\ op = [t \in Thread |-> NoOp]
  /\ phonebook_id = [t \in Thread |-> NilUUID]
  /\ defined = {}
  /\ m_backends = [u \in UUID |-> "absent"]
  /\ m_backends_mtx = Unlocked
  /\ phonebooks \in {d \in Documents : Good(d) <= Cardinality(UUID)}
  /\ promised = Good(phonebooks)
  /\ listed = {}
  /\ made = {}

-----------------------------------------------------------------------------
(* Threads and execution streams.                                          *)

Goto(t, next) == pc' = [pc EXCEPT ![t] = next]

(***************************************************************************)
(* Where a thread has not begun, waits for something to do or for the      *)
(* mutex, or calls what may block: a response, or a backend.               *)
(***************************************************************************)
YieldPoint ==
  {"idle", "new", "lock", "missed", "respond", "own", "gone"} \cup Blocking

(* Argobots: a thread goes on if it holds a stream, or one is free.        *)
Running == {t \in Thread : pc[t] \notin YieldPoint}
MayRun(t) == t \in Running \/ Cardinality(Running) < Streams

InMap(i) == i \in UUID /\ m_backends[i] \in {"null", "present"}

Fresh == {u \in UUID : m_backends[u] = "absent"
                       /\ \A t \in Thread : phonebook_id[t] # u}

(* The members that handlers use exist; Provider::self points at them.     *)
Exists == pc[Owner] \notin {"idle", "define", "gone"}
Self   == pc[Owner] = "own"

-----------------------------------------------------------------------------
(* The owner.                                                              *)

(* std::make_shared<ProviderImpl>(...); the base class and m_engine.       *)
Construct ==
  /\ pc[Owner] = "idle"
  /\ Goto(Owner, "define")
  /\ UNCHANGED <<call, defined, map, listed, conf>>

(* One of the members that define() initializes; then come m_backends and  *)
(* m_backends_mtx.                                                         *)
Define ==
  /\ pc[Owner] = "define"
  /\ LET n == Cardinality(defined) IN
       IF n < Len(RPCs)
       THEN /\ defined' = defined \cup {RPCs[n + 1]}
            /\ UNCHANGED pc
       ELSE Goto(Owner, "configure") /\ UNCHANGED defined
  /\ UNCHANGED <<call, map, listed, conf>>

(* Mutant: an entry without a type ends the loop.                          *)
ConfigureReturn ==
  /\ pc[Owner] = "configure"
  /\ IF phonebooks = <<>> \/ Head(phonebooks) = "untyped"
     THEN Goto(Owner, "own") /\ UNCHANGED <<op, phonebooks>>
     ELSE /\ op' = [op EXCEPT ![Owner] = "create"]
          /\ Goto(Owner, "make")
          /\ UNCHANGED phonebooks
  /\ UNCHANGED <<phonebook_id, defined, map, listed, promised, made>>

(* The loop over the configuration's phonebooks; after the last one the    *)
(* constructor returns.                                                    *)
Configure ==
  /\ pc[Owner] = "configure"
  /\ \/ /\ phonebooks = <<>>
        /\ Goto(Owner, "own")
        /\ UNCHANGED <<op, phonebooks>>
     \/ /\ phonebooks # <<>> /\ Head(phonebooks) = "untyped"
        /\ phonebooks' = Tail(phonebooks)
        /\ UNCHANGED <<pc, op>>
     \/ /\ phonebooks # <<>> /\ Head(phonebooks) # "untyped"
        /\ op' = [op EXCEPT ![Owner] = "create"]
        /\ Goto(Owner, "make")
        /\ UNCHANGED phonebooks
  /\ UNCHANGED <<phonebook_id, defined, map, listed, promised, made>>

(* Mutant: a pre-finalize callback, which margo runs at once.              *)
LeaveNow ==
  /\ pc[Owner] = "own"
  /\ Goto(Owner, "deregister")
  /\ UNCHANGED <<call, defined, map, listed, conf>>

(***************************************************************************)
(* ~ProviderImpl begins: in the finalize callback (Provider.cpp:18), which *)
(* margo runs when every handler has returned and it dispatches no more,   *)
(* or, unless Finalizing, at any time, when Bedrock deletes the Provider.  *)
(***************************************************************************)
Leave ==
  /\ pc[Owner] = "own"
  /\ Finalizing => \A h \in Handler : pc[h] = "idle"
  /\ Goto(Owner, "deregister")
  /\ UNCHANGED <<call, defined, map, listed, conf>>

(* ~ProviderImpl: one deregister() after another, then the members go.     *)
Deregister ==
  /\ pc[Owner] = "deregister"
  /\ LET n == Len(RPCs) - Cardinality(defined) IN
       IF n < Len(RPCs)
       THEN defined' = defined \ {RPCs[n + 1]} /\ UNCHANGED <<pc, m_backends>>
       ELSE /\ m_backends' = [u \in UUID |->
                 IF m_backends[u] = "absent" THEN "absent" ELSE "erased"]
            /\ Goto(Owner, "gone")
            /\ UNCHANGED defined
  /\ UNCHANGED <<call, m_backends_mtx, listed, conf>>

OwnerStep == Construct \/ Define \/ Configure \/ Leave \/ Deregister

-----------------------------------------------------------------------------
(* createPhonebook, which the owner and the handlers run, and the lock.    *)

(* Mutant: the entry is reserved before the factory is asked.              *)
MakeReserving(t) ==
  /\ pc[t] = "make"
  /\ \E u \in Fresh :
       /\ phonebook_id' = [phonebook_id EXCEPT ![t] = u]
       /\ m_backends' = [m_backends EXCEPT ![u] = "null"]
  /\ t = Owner => Head(phonebooks) = "good"
  /\ Goto(t, "lock")
  /\ UNCHANGED <<op, defined, m_backends_mtx, listed, conf>>

(* Mutant: the identifier that was generated is not kept.                  *)
MakeNameless(t) ==
  /\ pc[t] = "make"
  /\ t = Owner => Head(phonebooks) = "good"
  /\ Goto(t, "lock")
  /\ UNCHANGED <<call, defined, map, listed, conf>>

(* PhonebookFactory finds the type, and its create or open does not throw. *)
Make(t) ==
  /\ pc[t] = "make"
  /\ t = Owner => Head(phonebooks) = "good"
  /\ \E u \in Fresh : phonebook_id' = [phonebook_id EXCEPT ![t] = u]
  /\ Goto(t, "lock")
  /\ UNCHANGED <<op, defined, map, listed, conf>>

(* createPhonebook returns: to the constructor, which ignores the result,  *)
(* or to the handler.                                                      *)
CreateReturns(t) ==
  IF t = Owner
  THEN /\ Goto(t, "configure")
       /\ phonebooks' = Tail(phonebooks)
       /\ op' = [op EXCEPT ![t] = NoOp]
       /\ phonebook_id' = [phonebook_id EXCEPT ![t] = NilUUID]
  ELSE Goto(t, "respond") /\ UNCHANGED <<call, phonebooks>>

(* No backend of that type (nullptr), or an exception.                     *)
MakeFails(t) ==
  /\ pc[t] = "make"
  /\ t = Owner => Head(phonebooks) \in {"unknown", "failing"}
  /\ CreateReturns(t)
  /\ UNCHANGED <<defined, map, listed, promised, made>>

Lock(t) ==
  /\ pc[t] = "lock"
  /\ m_backends_mtx = Unlocked
  /\ m_backends_mtx' = t
  /\ Goto(t, IF op[t] \in MakeOp THEN "insert"
             ELSE IF op[t] \in RemoveOp THEN "remove" ELSE "find")
  /\ UNCHANGED <<call, defined, m_backends, listed, conf>>

(* m_backends[phonebook_id] = std::move(backend), in two steps.            *)
Insert(t) ==
  /\ pc[t] = "insert"
  /\ m_backends' = [m_backends EXCEPT ![phonebook_id[t]] = "null"]
  /\ Goto(t, "assign")
  /\ UNCHANGED <<call, defined, m_backends_mtx, listed, conf>>

Assign(t) ==
  /\ pc[t] = "assign"
  /\ m_backends' = [m_backends EXCEPT ![phonebook_id[t]] = "present"]
  /\ made' = IF t = Owner THEN made \cup {phonebook_id[t]} ELSE made
  /\ Goto(t, "unlock")
  /\ UNCHANGED <<call, defined, m_backends_mtx, listed, phonebooks, promised>>

Unlock(t) ==
  /\ pc[t] = "unlock"
  /\ m_backends_mtx' = Unlocked
  /\ IF op[t] \in {"hello", "sum"}
     THEN Goto(t, "use") /\ UNCHANGED <<call, phonebooks>>
     ELSE CreateReturns(t)
  /\ UNCHANGED <<defined, m_backends, listed, promised, made>>

CreateStep(t) ==
  \/ Make(t) \/ MakeFails(t) \/ Lock(t) \/ Insert(t) \/ Assign(t) \/ Unlock(t)

-----------------------------------------------------------------------------
(* The handlers.                                                           *)

(* The threads that have, or are about to get, a new phonebook.            *)
Making == {t \in Thread : op[t] \in MakeOp /\ phonebook_id[t] = NilUUID}

(***************************************************************************)
(* A request for a defined RPC becomes a new thread.  Bound: a create is   *)
(* received only while there are identifiers to spare.                     *)
(***************************************************************************)
Dispatch(h) ==
  /\ pc[h] = "idle"
  /\ Finalizing => pc[Owner] \notin {"deregister", "gone"}
  /\ \E o \in defined :
       /\ op' = [op EXCEPT ![h] = o]
       /\ \/ /\ o \in MakeOp
             /\ Cardinality(Fresh) >
                  Good(phonebooks) + Cardinality(Making \ {Owner})
             /\ UNCHANGED phonebook_id
          \/ /\ o \notin MakeOp
             /\ \E i \in {u \in UUID : m_backends[u] # "absent"}
                           \cup {NilUUID} :
                  phonebook_id' = [phonebook_id EXCEPT ![h] = i]
  /\ Goto(h, "new")
  /\ UNCHANGED <<defined, map, listed, conf>>

(* The handler begins; the token of an Admin RPC may be refused.           *)
Begin(h) ==
  /\ pc[h] = "new"
  /\ \/ op[h] \in MakeOp /\ Goto(h, "make")
     \/ op[h] \notin MakeOp /\ Goto(h, "lock")
     \/ op[h] \in AdminOp /\ Goto(h, "respond")
  /\ UNCHANGED <<call, defined, map, listed, conf>>

(* close and destroy find the phonebook, or the lookups do.                *)
Close(h) ==
  /\ pc[h] = "remove" /\ op[h] = "close"
  /\ InMap(phonebook_id[h])
  /\ m_backends' = [m_backends EXCEPT ![phonebook_id[h]] = "erased"]
  /\ Goto(h, "unlock")
  /\ UNCHANGED <<call, defined, m_backends_mtx, listed, conf>>

Find(h) ==
  /\ \/ pc[h] = "remove" /\ op[h] = "destroy" /\ Goto(h, "destroy")
     \/ pc[h] = "find" /\ Goto(h, "unlock")
  /\ InMap(phonebook_id[h])
  /\ UNCHANGED <<call, defined, map, listed, conf>>

(* They do not: the handler responds before it releases the mutex.         *)
Miss(h) ==
  /\ pc[h] \in {"remove", "find"}
  /\ ~InMap(phonebook_id[h])
  /\ Goto(h, "missed")
  /\ UNCHANGED <<call, defined, map, listed, conf>>

MissReturns(h) ==
  /\ pc[h] = "missed"
  /\ m_backends_mtx' = Unlocked
  /\ Goto(h, "return")
  /\ UNCHANGED <<call, defined, m_backends, listed, conf>>

(* The backend's destroy() returns, under the lock; then the erase.        *)
Destroyed(h) ==
  /\ pc[h] = "destroy"
  /\ Goto(h, "erase")
  /\ UNCHANGED <<call, defined, map, listed, conf>>

Erase(h) ==
  /\ pc[h] = "erase"
  /\ m_backends' = [m_backends EXCEPT ![phonebook_id[h]] = "erased"]
  /\ Goto(h, "unlock")
  /\ UNCHANGED <<call, defined, m_backends_mtx, listed, conf>>

(* sayHello or computeSum returns; only the latter responds.               *)
Used(h) ==
  /\ pc[h] = "use"
  /\ Goto(h, IF op[h] = "sum" THEN "respond" ELSE "return")
  /\ UNCHANGED <<call, defined, map, listed, conf>>

Responded(h) ==
  /\ pc[h] = "respond"
  /\ Goto(h, "return")
  /\ UNCHANGED <<call, defined, map, listed, conf>>

Return(h) ==
  /\ pc[h] = "return"
  /\ op' = [op EXCEPT ![h] = NoOp]
  /\ phonebook_id' = [phonebook_id EXCEPT ![h] = NilUUID]
  /\ Goto(h, "idle")
  /\ UNCHANGED <<defined, map, listed, conf>>

HandlerStep(h) ==
  \/ Begin(h) \/ CreateStep(h)
  \/ Close(h) \/ Find(h) \/ Miss(h) \/ MissReturns(h)
  \/ Destroyed(h) \/ Erase(h)
  \/ Used(h) \/ Responded(h) \/ Return(h)

-----------------------------------------------------------------------------
(* The reader: self ? self->getConfig() : "{}".                            *)

TestSelf ==
  /\ pc[Reader] = "idle"
  /\ Goto(Reader, IF Self THEN "scan" ELSE "print")
  /\ UNCHANGED <<call, defined, map, listed, conf>>

Listable == {u \in UUID : InMap(u)} \ listed

(* One turn of the loop over m_backends, in any order, and its end.        *)
Scan ==
  /\ pc[Reader] = "scan"
  /\ \/ /\ \E u \in Listable : listed' = listed \cup {u}
        /\ UNCHANGED pc
     \/ Listable = {} /\ Goto(Reader, "print") /\ UNCHANGED listed
  /\ UNCHANGED <<call, defined, map, conf>>

(* Mutant: the document is a member, and keeps the entries it has.         *)
PrintedKept ==
  /\ pc[Reader] = "print"
  /\ Goto(Reader, "idle")
  /\ UNCHANGED <<call, defined, map, listed, conf>>

(* getConfig returns; its document was local.                              *)
Printed ==
  /\ pc[Reader] = "print"
  /\ Goto(Reader, "idle")
  /\ listed' = {}
  /\ UNCHANGED <<call, defined, map, conf>>

ReaderStep == TestSelf \/ Scan \/ Printed

-----------------------------------------------------------------------------

Next ==
  \/ MayRun(Owner) /\ (OwnerStep \/ CreateStep(Owner))
  \/ MayRun(Reader) /\ ReaderStep
  \/ \E h \in Handler : Dispatch(h) \/ (MayRun(h) /\ HandlerStep(h))

Spec == Init /\ [][Next]_vars

-----------------------------------------------------------------------------
(* Properties.                                                             *)

(* The next step of thread t changes the map.                              *)
Writes(t) ==
  \/ pc[t] \in {"insert", "assign", "erase"}
  \/ pc[t] = "remove" /\ op[t] = "close" /\ InMap(phonebook_id[t])

(***************************************************************************)
(* ScanSound: while getConfig walks the map nobody changes it, and no      *)
(* pointer in it is null, which the walk would dereference: "Return a      *)
(* JSON-formatted configuration of the provider."                          *)
(* (include/yp/Provider.hpp:86; ProviderImpl.hpp:111-122 takes no lock).   *)
(***************************************************************************)
ScanSound ==
  pc[Reader] = "scan" =>
    /\ \A u \in UUID : m_backends[u] # "null"
    /\ \A t \in Running : ~Writes(t)

(***************************************************************************)
(* Snapshot: the document lists exactly the phonebooks that are served at  *)
(* the moment getConfig returns it, and none once the provider is gone.    *)
(***************************************************************************)
Snapshot ==
  pc[Reader] = "print" =>
    listed = IF Self THEN {u \in UUID : InMap(u)} ELSE {}

(***************************************************************************)
(* MembersExist: a handler that can go on, and whose next step uses the    *)
(* provider's id, token, mutex or map, uses members that were constructed  *)
(* and not destroyed, though its RPC was defined before the map and the    *)
(* mutex (ProviderImpl.hpp:62-75, 99-109); and so does getConfig, which    *)
(* tested self some steps ago (Provider.cpp:39).                           *)
(***************************************************************************)
MembersExist ==
  /\ \A h \in Handler :
       MayRun(h) /\ pc[h] \notin {"idle", "destroy", "use", "respond"}
         => Exists
  /\ pc[Reader] = "scan" => Self

(***************************************************************************)
(* Configured: when the constructor returns it has made every phonebook    *)
(* that the configuration asks for and that can be made, whatever became   *)
(* of the entries before it and of the RPCs served meanwhile               *)
(* (ProviderImpl.hpp:89-96).                                               *)
(***************************************************************************)
Configured == Self => Cardinality(made) = promised

===============================================================================
