------------------------------ MODULE LifeProofs ------------------------------
(***************************************************************************)
(* Proofs about ProviderLife, for any number of handlers, phonebooks and   *)
(* entries of the configuration: on any number of execution streams, type  *)
(* correctness, the inductive invariant IInv and that the constructor makes*)
(* what its configuration asks for; on one stream, that getConfig walks a  *)
(* map which stays as it is, and that no member is used while it is not    *)
(* there.                                                                  *)
(***************************************************************************)
EXTENDS LifeInvariant, SequenceTheorems, FiniteSetTheorems, TLAPS

-----------------------------------------------------------------------------
(* The configuration.                                                      *)

(* A configuration has finitely many phonebooks that can be made.          *)
LEMMA GoodIsNat ==
  ASSUME NEW doc \in Seq(Listing)
  PROVE  /\ IsFiniteSet({i \in DOMAIN doc : doc[i] = "good"})
         /\ Good(doc) \in Nat
<1>1. DOMAIN doc = 1..Len(doc) /\ Len(doc) \in Nat
  BY LenProperties
<1>2. IsFiniteSet(1..Len(doc))
  BY <1>1, FS_Interval
<1>3. IsFiniteSet({i \in DOMAIN doc : doc[i] = "good"})
  BY <1>1, <1>2, FS_Subset
<1> QED
  BY <1>3, FS_CardinalityType DEF Good

(* The constructor's loop (ProviderImpl.hpp:89-96) is done with one of     *)
(* them when the entry at the head was one.                                *)
LEMMA GoodTail ==
  ASSUME NEW doc \in Seq(Listing), doc # <<>>
  PROVE  Good(doc) = IF Head(doc) = "good" THEN Good(Tail(doc)) + 1
                     ELSE Good(Tail(doc))
<1> DEFINE A == {i \in DOMAIN doc : doc[i] = "good"}
           rest == Tail(doc)
           B == {i \in DOMAIN rest : rest[i] = "good"}
           shift == [i \in B |-> i + 1]
<1>1. /\ Len(doc) \in Nat /\ Len(doc) > 0 /\ DOMAIN doc = 1..Len(doc)
      /\ rest \in Seq(Listing) /\ Len(rest) = Len(doc) - 1
      /\ \A i \in 1..Len(rest) : rest[i] = doc[i + 1]
      /\ Head(doc) = doc[1]
  BY LenProperties, HeadTailProperties, EmptySeq
<1>2. DOMAIN rest = 1..Len(rest)
  BY <1>1, LenProperties
<1>3. shift \in Bijection(B, A \ {1})
  <2> HIDE DEF rest
  <2>1. \A i \in B : i + 1 \in A \ {1}
    BY <1>1, <1>2
  <2>2. \A i, j \in B : shift[i] = shift[j] => i = j
    BY <1>1, <1>2
  <2>3. ASSUME NEW k \in A \ {1} PROVE \E i \in B : shift[i] = k
    <3>1. k \in 1..Len(doc) /\ k # 1 /\ doc[k] = "good"
      BY <1>1
    <3>2. k - 1 \in 1..Len(rest) /\ (k - 1) + 1 = k
      BY <1>1, <3>1
    <3>3. k - 1 \in B
      BY <1>1, <1>2, <3>1, <3>2
    <3> QED
      BY <3>2, <3>3
  <2> QED
    BY <2>1, <2>2, <2>3 DEF Bijection, Injection, Surjection, IsInjective
<1>4. IsFiniteSet(A) /\ IsFiniteSet(B) /\ Cardinality(B) \in Nat
  BY <1>1, GoodIsNat DEF Good
<1>5. Cardinality(A \ {1}) = Cardinality(B)
  BY <1>3, <1>4, FS_Bijection DEF ExistsBijection
<1>6. 1 \in A <=> Head(doc) = "good"
  BY <1>1
<1>7. /\ Cardinality(A \ {1}) =
           IF 1 \in A THEN Cardinality(A) - 1 ELSE Cardinality(A)
      /\ Cardinality(A) \in Nat
  BY <1>4, FS_RemoveElement, FS_CardinalityType
<1> HIDE DEF A, B, rest
<1>8. Cardinality(A) =
        IF Head(doc) = "good" THEN Cardinality(B) + 1 ELSE Cardinality(B)
  BY <1>4, <1>5, <1>6, <1>7
<1> QED
  BY <1>8 DEF A, B, rest, Good

(* An empty configuration asks for nothing.                                *)
LEMMA GoodEmpty == Good(<<>>) = 0
<1>1. {i \in DOMAIN <<>> : <<>>[i] = "good"} = {}
  OBVIOUS
<1> QED
  BY <1>1, FS_EmptySet DEF Good

-----------------------------------------------------------------------------
(* Steps of the handlers.                                                  *)

(***************************************************************************)
(* Aside: a handler's step does not touch the owner, the reader or the     *)
(* configuration, and takes no entry out of the map without a trace.       *)
(***************************************************************************)
Aside(h) ==
  /\ pc' = [pc EXCEPT ![h] = pc'[h]] /\ pc'[h] \in PC
  /\ op' = [op EXCEPT ![h] = op'[h]]
  /\ phonebook_id' = [phonebook_id EXCEPT ![h] = phonebook_id'[h]]
  /\ \A u \in UUID : m_backends[u] # "absent" => m_backends'[u] # "absent"
  /\ UNCHANGED <<defined, listed, phonebooks, promised, made>>

(* Nothing that the invariant says of the others is disturbed by it.       *)
LEMMA AsideKeeps ==
  ASSUME IInv, NEW h \in Handler, Aside(h),
         pc[h] = "idle" => /\ pc[Owner] # "idle"
                           /\ Finalizing =>
                                pc[Owner] \notin {"deregister", "gone"}
  PROVE  PlaceInv' /\ ListedInv' /\ CountInv' /\ ServedInv'
<1>1. Owner # h /\ Reader # h /\ {Owner, Reader, h} \subseteq Thread
  BY LifeAssumption DEF Thread
<1>2. /\ pc'[Owner] = pc[Owner] /\ pc'[Reader] = pc[Reader]
      /\ op'[Owner] = op[Owner] /\ phonebook_id'[Owner] = phonebook_id[Owner]
      /\ UNCHANGED <<defined, listed, phonebooks, promised, made>>
  BY <1>1 DEF Aside, IInv, TypeOK
<1>3. PlaceInv' /\ ListedInv'
  BY <1>2 DEF IInv, PlaceInv, ListedInv
<1>4. CountInv'
  <2>1. \A u \in made : m_backends'[u] # "absent"
    BY DEF Aside, IInv, TypeOK, CountInv
  <2> QED
    BY <1>2, <2>1 DEF IInv, CountInv
<1>5. ServedInv'
  BY <1>1, <1>2 DEF Aside, IInv, TypeOK, ServedInv, Thread
<1> QED
  BY <1>3, <1>4, <1>5

(* Make: an identifier is generated.                                       *)
LEMMA MakeHandler ==
  ASSUME IInv, NEW h \in Handler, Make(h)
  PROVE  IInv'
<1>1. h \in Thread /\ h # Owner /\ h # Reader
  BY LifeAssumption DEF Thread
<1>2. Aside(h)
  BY <1>1 DEF Aside, Make, Goto, call, map, conf, Fresh, PC, IInv, TypeOK,
     NamedInv
<1>3. PlaceInv' /\ ListedInv' /\ CountInv' /\ ServedInv'
  BY <1>2, AsideKeeps DEF Make
<1>4. TypeOK'
  BY <1>1, <1>2, ValuesAssumption DEF Make, Goto, call, map, conf, Fresh,
     Aside, IInv, TypeOK, NamedInv, PC, AnyUUID, Op, AdminOp, MakeOp, RemoveOp,
     LookupOp
<1>5. NamedInv'
  BY <1>1, <1>2, ValuesAssumption DEF Make, Goto, call, map, conf, Fresh, IInv,
     TypeOK, NamedInv, AnyUUID
<1>6. NullInv'
  BY <1>1 DEF Make, Goto, call, map, conf, Fresh, IInv, TypeOK, NamedInv,
     NullInv
<1> QED
  BY <1>3, <1>4, <1>5, <1>6 DEF IInv

(* MakeFails: no backend is made.                                          *)
LEMMA MakeFailsHandler ==
  ASSUME IInv, NEW h \in Handler, MakeFails(h)
  PROVE  IInv'
<1>1. h \in Thread /\ h # Owner /\ h # Reader
  BY LifeAssumption DEF Thread
<1>2. Aside(h)
  BY <1>1 DEF Aside, MakeFails, Goto, call, map, conf, CreateReturns, PC, IInv,
     TypeOK, NamedInv
<1>3. PlaceInv' /\ ListedInv' /\ CountInv' /\ ServedInv'
  BY <1>2, AsideKeeps DEF MakeFails
<1>4. TypeOK'
  BY <1>1, <1>2, ValuesAssumption DEF MakeFails, Goto, call, map, conf,
     CreateReturns, Aside, IInv, TypeOK, NamedInv, PC, AnyUUID, Op, AdminOp,
     MakeOp, RemoveOp, LookupOp
<1>5. NamedInv'
  BY <1>1, <1>2, ValuesAssumption DEF MakeFails, Goto, call, map, conf,
     CreateReturns, IInv, TypeOK, NamedInv, AnyUUID
<1>6. NullInv'
  BY <1>1 DEF MakeFails, Goto, call, map, conf, CreateReturns, IInv, TypeOK,
     NamedInv, NullInv
<1> QED
  BY <1>3, <1>4, <1>5, <1>6 DEF IInv

(* Lock: the mutex is taken.                                               *)
LEMMA LockHandler ==
  ASSUME IInv, NEW h \in Handler, Lock(h)
  PROVE  IInv'
<1>1. h \in Thread /\ h # Owner /\ h # Reader
  BY LifeAssumption DEF Thread
<1>2. Aside(h)
  BY <1>1 DEF Aside, Lock, Goto, call, map, conf, PC, IInv, TypeOK, NamedInv
<1>3. PlaceInv' /\ ListedInv' /\ CountInv' /\ ServedInv'
  BY <1>2, AsideKeeps DEF Lock
<1>4. TypeOK'
  BY <1>1, <1>2, ValuesAssumption DEF Lock, Goto, call, map, conf, Aside, IInv,
     TypeOK, NamedInv, PC, AnyUUID, Op, AdminOp, MakeOp, RemoveOp, LookupOp
<1>5. NamedInv'
  BY <1>1, <1>2, ValuesAssumption DEF Lock, Goto, call, map, conf, IInv,
     TypeOK, NamedInv, AnyUUID
<1>6. NullInv'
  BY <1>1 DEF Lock, Goto, call, map, conf, IInv, TypeOK, NamedInv, NullInv
<1> QED
  BY <1>3, <1>4, <1>5, <1>6 DEF IInv

(* Insert: operator[] puts a null pointer into the map.                    *)
LEMMA InsertHandler ==
  ASSUME IInv, NEW h \in Handler, Insert(h)
  PROVE  IInv'
<1>1. h \in Thread /\ h # Owner /\ h # Reader
  BY LifeAssumption DEF Thread
<1>2. Aside(h)
  BY <1>1 DEF Aside, Insert, Goto, call, map, conf, PC, IInv, TypeOK, NamedInv
<1>3. PlaceInv' /\ ListedInv' /\ CountInv' /\ ServedInv'
  BY <1>2, AsideKeeps DEF Insert
<1>4. TypeOK'
  BY <1>1, <1>2, ValuesAssumption DEF Insert, Goto, call, map, conf, Aside,
     IInv, TypeOK, NamedInv, PC, AnyUUID, Op, AdminOp, MakeOp, RemoveOp,
     LookupOp
<1>5. NamedInv'
  BY <1>1, <1>2, ValuesAssumption DEF Insert, Goto, call, map, conf, IInv,
     TypeOK, NamedInv, AnyUUID
<1>6. NullInv'
  BY <1>1 DEF Insert, Goto, call, map, conf, IInv, TypeOK, NamedInv, NullInv
<1> QED
  BY <1>3, <1>4, <1>5, <1>6 DEF IInv

(* Assign: the backend is moved there.                                     *)
LEMMA AssignHandler ==
  ASSUME IInv, NEW h \in Handler, Assign(h)
  PROVE  IInv'
<1>1. h \in Thread /\ h # Owner /\ h # Reader
  BY LifeAssumption DEF Thread
<1>2. Aside(h)
  BY <1>1 DEF Aside, Assign, Goto, call, map, conf, PC, IInv, TypeOK, NamedInv
<1>3. PlaceInv' /\ ListedInv' /\ CountInv' /\ ServedInv'
  BY <1>2, AsideKeeps DEF Assign
<1>4. TypeOK'
  BY <1>1, <1>2, ValuesAssumption DEF Assign, Goto, call, map, conf, Aside,
     IInv, TypeOK, NamedInv, PC, AnyUUID, Op, AdminOp, MakeOp, RemoveOp,
     LookupOp
<1>5. NamedInv'
  BY <1>1, <1>2, ValuesAssumption DEF Assign, Goto, call, map, conf, IInv,
     TypeOK, NamedInv, AnyUUID
<1>6. NullInv'
  BY <1>1 DEF Assign, Goto, call, map, conf, IInv, TypeOK, NamedInv, NullInv
<1> QED
  BY <1>3, <1>4, <1>5, <1>6 DEF IInv

(* Unlock: the mutex is released.                                          *)
LEMMA UnlockHandler ==
  ASSUME IInv, NEW h \in Handler, Unlock(h)
  PROVE  IInv'
<1>1. h \in Thread /\ h # Owner /\ h # Reader
  BY LifeAssumption DEF Thread
<1>2. Aside(h)
  BY <1>1 DEF Aside, Unlock, Goto, call, map, conf, CreateReturns, PC, IInv,
     TypeOK, NamedInv
<1>3. PlaceInv' /\ ListedInv' /\ CountInv' /\ ServedInv'
  BY <1>2, AsideKeeps DEF Unlock
<1>4. TypeOK'
  BY <1>1, <1>2, ValuesAssumption DEF Unlock, Goto, call, map, conf,
     CreateReturns, Aside, IInv, TypeOK, NamedInv, PC, AnyUUID, Op, AdminOp,
     MakeOp, RemoveOp, LookupOp
<1>5. NamedInv'
  BY <1>1, <1>2, ValuesAssumption DEF Unlock, Goto, call, map, conf,
     CreateReturns, IInv, TypeOK, NamedInv, AnyUUID
<1>6. NullInv'
  BY <1>1 DEF Unlock, Goto, call, map, conf, CreateReturns, IInv, TypeOK,
     NamedInv, NullInv
<1> QED
  BY <1>3, <1>4, <1>5, <1>6 DEF IInv

(* Dispatch: a request becomes a new thread.                               *)
LEMMA DispatchHandler ==
  ASSUME IInv, NEW h \in Handler, Dispatch(h)
  PROVE  IInv'
<1>1. h \in Thread /\ h # Owner /\ h # Reader
  BY LifeAssumption DEF Thread
<1>2. Aside(h)
  BY <1>1 DEF Aside, Dispatch, Goto, call, map, conf, PC, IInv, TypeOK,
     NamedInv
<1>3. PlaceInv' /\ ListedInv' /\ CountInv' /\ ServedInv'
  BY <1>2, AsideKeeps DEF Dispatch, IInv, ServedInv
<1>4. TypeOK'
  BY <1>1, <1>2, ValuesAssumption DEF Dispatch, Goto, call, map, conf, Aside,
     IInv, TypeOK, NamedInv, PC, AnyUUID, Op, AdminOp, MakeOp, RemoveOp,
     LookupOp
<1>5. NamedInv'
  BY <1>1, <1>2, ValuesAssumption DEF Dispatch, Goto, call, map, conf, IInv,
     TypeOK, NamedInv, AnyUUID
<1>6. NullInv'
  BY <1>1 DEF Dispatch, Goto, call, map, conf, IInv, TypeOK, NamedInv, NullInv
<1> QED
  BY <1>3, <1>4, <1>5, <1>6 DEF IInv

(* Begin: the token is checked, or the backend is made next.               *)
LEMMA BeginHandler ==
  ASSUME IInv, NEW h \in Handler, Begin(h)
  PROVE  IInv'
<1>1. h \in Thread /\ h # Owner /\ h # Reader
  BY LifeAssumption DEF Thread
<1>2. Aside(h)
  BY <1>1 DEF Aside, Begin, Goto, call, map, conf, PC, IInv, TypeOK, NamedInv
<1>3. PlaceInv' /\ ListedInv' /\ CountInv' /\ ServedInv'
  BY <1>2, AsideKeeps DEF Begin
<1>4. TypeOK'
  BY <1>1, <1>2, ValuesAssumption DEF Begin, Goto, call, map, conf, Aside,
     IInv, TypeOK, NamedInv, PC, AnyUUID, Op, AdminOp, MakeOp, RemoveOp,
     LookupOp
<1>5. NamedInv'
  BY <1>1, <1>2, ValuesAssumption DEF Begin, Goto, call, map, conf, IInv,
     TypeOK, NamedInv, AnyUUID
<1>6. NullInv'
  BY <1>1 DEF Begin, Goto, call, map, conf, IInv, TypeOK, NamedInv, NullInv
<1> QED
  BY <1>3, <1>4, <1>5, <1>6 DEF IInv

(* Close: the entry is erased.                                             *)
LEMMA CloseHandler ==
  ASSUME IInv, NEW h \in Handler, Close(h)
  PROVE  IInv'
<1>1. h \in Thread /\ h # Owner /\ h # Reader
  BY LifeAssumption DEF Thread
<1>2. Aside(h)
  BY <1>1 DEF Aside, Close, Goto, call, map, conf, PC, IInv, TypeOK, NamedInv
<1>3. PlaceInv' /\ ListedInv' /\ CountInv' /\ ServedInv'
  BY <1>2, AsideKeeps DEF Close
<1>4. TypeOK'
  BY <1>1, <1>2, ValuesAssumption DEF Close, Goto, call, map, conf, Aside,
     IInv, TypeOK, NamedInv, PC, AnyUUID, Op, AdminOp, MakeOp, RemoveOp,
     LookupOp
<1>5. NamedInv'
  BY <1>1, <1>2, ValuesAssumption DEF Close, Goto, call, map, conf, IInv,
     TypeOK, NamedInv, AnyUUID
<1>6. NullInv'
  BY <1>1 DEF Close, Goto, call, map, conf, IInv, TypeOK, NamedInv, NullInv
<1> QED
  BY <1>3, <1>4, <1>5, <1>6 DEF IInv

(* Find: a lookup finds its phonebook.                                     *)
LEMMA FindHandler ==
  ASSUME IInv, NEW h \in Handler, Find(h)
  PROVE  IInv'
<1>1. h \in Thread /\ h # Owner /\ h # Reader
  BY LifeAssumption DEF Thread
<1>2. Aside(h)
  BY <1>1 DEF Aside, Find, Goto, call, map, conf, PC, IInv, TypeOK, NamedInv
<1>3. PlaceInv' /\ ListedInv' /\ CountInv' /\ ServedInv'
  BY <1>2, AsideKeeps DEF Find
<1>4. TypeOK'
  BY <1>1, <1>2, ValuesAssumption DEF Find, Goto, call, map, conf, Aside, IInv,
     TypeOK, NamedInv, PC, AnyUUID, Op, AdminOp, MakeOp, RemoveOp, LookupOp
<1>5. NamedInv'
  BY <1>1, <1>2, ValuesAssumption DEF Find, Goto, call, map, conf, IInv,
     TypeOK, NamedInv, AnyUUID
<1>6. NullInv'
  BY <1>1 DEF Find, Goto, call, map, conf, IInv, TypeOK, NamedInv, NullInv
<1> QED
  BY <1>3, <1>4, <1>5, <1>6 DEF IInv

(* Miss: it does not.                                                      *)
LEMMA MissHandler ==
  ASSUME IInv, NEW h \in Handler, Miss(h)
  PROVE  IInv'
<1>1. h \in Thread /\ h # Owner /\ h # Reader
  BY LifeAssumption DEF Thread
<1>2. Aside(h)
  BY <1>1 DEF Aside, Miss, Goto, call, map, conf, PC, IInv, TypeOK, NamedInv
<1>3. PlaceInv' /\ ListedInv' /\ CountInv' /\ ServedInv'
  BY <1>2, AsideKeeps DEF Miss
<1>4. TypeOK'
  BY <1>1, <1>2, ValuesAssumption DEF Miss, Goto, call, map, conf, Aside, IInv,
     TypeOK, NamedInv, PC, AnyUUID, Op, AdminOp, MakeOp, RemoveOp, LookupOp
<1>5. NamedInv'
  BY <1>1, <1>2, ValuesAssumption DEF Miss, Goto, call, map, conf, IInv,
     TypeOK, NamedInv, AnyUUID
<1>6. NullInv'
  BY <1>1 DEF Miss, Goto, call, map, conf, IInv, TypeOK, NamedInv, NullInv
<1> QED
  BY <1>3, <1>4, <1>5, <1>6 DEF IInv

(* MissReturns: and the mutex is released.                                 *)
LEMMA MissReturnsHandler ==
  ASSUME IInv, NEW h \in Handler, MissReturns(h)
  PROVE  IInv'
<1>1. h \in Thread /\ h # Owner /\ h # Reader
  BY LifeAssumption DEF Thread
<1>2. Aside(h)
  BY <1>1 DEF Aside, MissReturns, Goto, call, map, conf, PC, IInv, TypeOK,
     NamedInv
<1>3. PlaceInv' /\ ListedInv' /\ CountInv' /\ ServedInv'
  BY <1>2, AsideKeeps DEF MissReturns
<1>4. TypeOK'
  BY <1>1, <1>2, ValuesAssumption DEF MissReturns, Goto, call, map, conf,
     Aside, IInv, TypeOK, NamedInv, PC, AnyUUID, Op, AdminOp, MakeOp, RemoveOp,
     LookupOp
<1>5. NamedInv'
  BY <1>1, <1>2, ValuesAssumption DEF MissReturns, Goto, call, map, conf, IInv,
     TypeOK, NamedInv, AnyUUID
<1>6. NullInv'
  BY <1>1 DEF MissReturns, Goto, call, map, conf, IInv, TypeOK, NamedInv,
     NullInv
<1> QED
  BY <1>3, <1>4, <1>5, <1>6 DEF IInv

(* Destroyed: the backend's destroy() returns.                             *)
LEMMA DestroyedHandler ==
  ASSUME IInv, NEW h \in Handler, Destroyed(h)
  PROVE  IInv'
<1>1. h \in Thread /\ h # Owner /\ h # Reader
  BY LifeAssumption DEF Thread
<1>2. Aside(h)
  BY <1>1 DEF Aside, Destroyed, Goto, call, map, conf, PC, IInv, TypeOK,
     NamedInv
<1>3. PlaceInv' /\ ListedInv' /\ CountInv' /\ ServedInv'
  BY <1>2, AsideKeeps DEF Destroyed
<1>4. TypeOK'
  BY <1>1, <1>2, ValuesAssumption DEF Destroyed, Goto, call, map, conf, Aside,
     IInv, TypeOK, NamedInv, PC, AnyUUID, Op, AdminOp, MakeOp, RemoveOp,
     LookupOp
<1>5. NamedInv'
  BY <1>1, <1>2, ValuesAssumption DEF Destroyed, Goto, call, map, conf, IInv,
     TypeOK, NamedInv, AnyUUID
<1>6. NullInv'
  BY <1>1 DEF Destroyed, Goto, call, map, conf, IInv, TypeOK, NamedInv, NullInv
<1> QED
  BY <1>3, <1>4, <1>5, <1>6 DEF IInv

(* Erase: then the entry is erased.                                        *)
LEMMA EraseHandler ==
  ASSUME IInv, NEW h \in Handler, Erase(h)
  PROVE  IInv'
<1>1. h \in Thread /\ h # Owner /\ h # Reader
  BY LifeAssumption DEF Thread
<1>2. Aside(h)
  BY <1>1 DEF Aside, Erase, Goto, call, map, conf, PC, IInv, TypeOK, NamedInv
<1>3. PlaceInv' /\ ListedInv' /\ CountInv' /\ ServedInv'
  BY <1>2, AsideKeeps DEF Erase
<1>4. TypeOK'
  BY <1>1, <1>2, ValuesAssumption DEF Erase, Goto, call, map, conf, Aside,
     IInv, TypeOK, NamedInv, PC, AnyUUID, Op, AdminOp, MakeOp, RemoveOp,
     LookupOp
<1>5. NamedInv'
  BY <1>1, <1>2, ValuesAssumption DEF Erase, Goto, call, map, conf, IInv,
     TypeOK, NamedInv, AnyUUID
<1>6. NullInv'
  BY <1>1 DEF Erase, Goto, call, map, conf, IInv, TypeOK, NamedInv, NullInv
<1> QED
  BY <1>3, <1>4, <1>5, <1>6 DEF IInv

(* Used: the backend's function returns.                                   *)
LEMMA UsedHandler ==
  ASSUME IInv, NEW h \in Handler, Used(h)
  PROVE  IInv'
<1>1. h \in Thread /\ h # Owner /\ h # Reader
  BY LifeAssumption DEF Thread
<1>2. Aside(h)
  BY <1>1 DEF Aside, Used, Goto, call, map, conf, PC, IInv, TypeOK, NamedInv
<1>3. PlaceInv' /\ ListedInv' /\ CountInv' /\ ServedInv'
  BY <1>2, AsideKeeps DEF Used
<1>4. TypeOK'
  BY <1>1, <1>2, ValuesAssumption DEF Used, Goto, call, map, conf, Aside, IInv,
     TypeOK, NamedInv, PC, AnyUUID, Op, AdminOp, MakeOp, RemoveOp, LookupOp
<1>5. NamedInv'
  BY <1>1, <1>2, ValuesAssumption DEF Used, Goto, call, map, conf, IInv,
     TypeOK, NamedInv, AnyUUID
<1>6. NullInv'
  BY <1>1 DEF Used, Goto, call, map, conf, IInv, TypeOK, NamedInv, NullInv
<1> QED
  BY <1>3, <1>4, <1>5, <1>6 DEF IInv

(* Responded: the response is on its way.                                  *)
LEMMA RespondedHandler ==
  ASSUME IInv, NEW h \in Handler, Responded(h)
  PROVE  IInv'
<1>1. h \in Thread /\ h # Owner /\ h # Reader
  BY LifeAssumption DEF Thread
<1>2. Aside(h)
  BY <1>1 DEF Aside, Responded, Goto, call, map, conf, PC, IInv, TypeOK,
     NamedInv
<1>3. PlaceInv' /\ ListedInv' /\ CountInv' /\ ServedInv'
  BY <1>2, AsideKeeps DEF Responded
<1>4. TypeOK'
  BY <1>1, <1>2, ValuesAssumption DEF Responded, Goto, call, map, conf, Aside,
     IInv, TypeOK, NamedInv, PC, AnyUUID, Op, AdminOp, MakeOp, RemoveOp,
     LookupOp
<1>5. NamedInv'
  BY <1>1, <1>2, ValuesAssumption DEF Responded, Goto, call, map, conf, IInv,
     TypeOK, NamedInv, AnyUUID
<1>6. NullInv'
  BY <1>1 DEF Responded, Goto, call, map, conf, IInv, TypeOK, NamedInv, NullInv
<1> QED
  BY <1>3, <1>4, <1>5, <1>6 DEF IInv

(* Return: the thread ends.                                                *)
LEMMA ReturnHandler ==
  ASSUME IInv, NEW h \in Handler, Return(h)
  PROVE  IInv'
<1>1. h \in Thread /\ h # Owner /\ h # Reader
  BY LifeAssumption DEF Thread
<1>2. Aside(h)
  BY <1>1 DEF Aside, Return, Goto, call, map, conf, PC, IInv, TypeOK, NamedInv
<1>3. PlaceInv' /\ ListedInv' /\ CountInv' /\ ServedInv'
  BY <1>2, AsideKeeps DEF Return
<1>4. TypeOK'
  BY <1>1, <1>2, ValuesAssumption DEF Return, Goto, call, map, conf, Aside,
     IInv, TypeOK, NamedInv, PC, AnyUUID, Op, AdminOp, MakeOp, RemoveOp,
     LookupOp
<1>5. NamedInv'
  BY <1>1, <1>2, ValuesAssumption DEF Return, Goto, call, map, conf, IInv,
     TypeOK, NamedInv, AnyUUID
<1>6. NullInv'
  BY <1>1 DEF Return, Goto, call, map, conf, IInv, TypeOK, NamedInv, NullInv
<1> QED
  BY <1>3, <1>4, <1>5, <1>6 DEF IInv

-----------------------------------------------------------------------------
(* Steps of the owner.                                                     *)

(* The RPCs are finitely many, so that their number is a number.           *)
LEMMA DefinedIsNat == ASSUME TypeOK PROVE Cardinality(defined) \in Nat
<1>1. RPCs \in Surjection(1..7, Op)
  BY DEF RPCs, Op, AdminOp, MakeOp, RemoveOp, LookupOp, Surjection
<1>2. IsFiniteSet(Op)
  BY <1>1, FS_NatSurjection DEF ExistsSurjection
<1> QED
  BY <1>2, FS_Subset, FS_CardinalityType DEF TypeOK

(* Each member of the list of RPCs is one.                                 *)
LEMMA NextRPC ==
  ASSUME NEW n \in Nat, n < Len(RPCs)
  PROVE  RPCs[n + 1] \in Op
<1>1. n + 1 \in 1..7
  BY DEF RPCs
<1> QED
  BY <1>1 DEF RPCs, Op, AdminOp, MakeOp, RemoveOp, LookupOp

(* createPhonebook returns to the constructor, which goes to the next      *)
(* entry.                                                                  *)
LEMMA OwnerReturns ==
  ASSUME IInv, CreateReturns(Owner), pc[Owner] \in Creating
  PROVE  /\ pc' = [pc EXCEPT ![Owner] = "configure"]
         /\ op' = [op EXCEPT ![Owner] = NoOp]
         /\ phonebook_id' = [phonebook_id EXCEPT ![Owner] = NilUUID]
         /\ phonebooks # <<>> /\ phonebooks' = Tail(phonebooks)
         /\ phonebooks' \in Seq(Listing)
         /\ Good(phonebooks) \in Nat /\ Good(phonebooks') \in Nat
         /\ Good(phonebooks) = IF Head(phonebooks) = "good"
                               THEN Good(phonebooks') + 1
                               ELSE Good(phonebooks')
<1>1. phonebooks # <<>> /\ phonebooks \in Seq(Listing)
  BY DEF IInv, TypeOK, PlaceInv
<1>2. phonebooks' = Tail(phonebooks) /\ phonebooks' \in Seq(Listing)
  BY <1>1, HeadTailProperties DEF CreateReturns
<1>3. Good(phonebooks) \in Nat /\ Good(phonebooks') \in Nat
  BY <1>1, <1>2, GoodIsNat
<1> QED
  BY <1>1, <1>2, <1>3, GoodTail DEF CreateReturns, Goto

(* Make: an identifier is generated.                                       *)
LEMMA MakeOwner ==
  ASSUME IInv, Make(Owner)
  PROVE  IInv'
<1>1. Owner \in Thread /\ Owner # Reader /\ Owner \notin Handler
      /\ Handler \subseteq Thread
  BY LifeAssumption DEF Thread
<1>2. TypeOK'
  BY <1>1, ValuesAssumption, HeadTailProperties DEF Make, Goto, call, map,
     conf, Fresh, IInv, TypeOK, PlaceInv, NamedInv, Creating, PC, AnyUUID, Op,
     AdminOp, MakeOp
<1>3. PlaceInv' /\ ListedInv'
  BY <1>1, LifeAssumption DEF Make, Goto, call, map, conf, Fresh, IInv, TypeOK,
     PlaceInv, ListedInv, Creating, Thread
<1>4. NamedInv' /\ NullInv'
  BY <1>1, ValuesAssumption DEF Make, Goto, call, map, conf, Fresh, IInv,
     TypeOK, PlaceInv, NamedInv, NullInv, Creating, MakeOp
<1>5. CountInv'
  BY <1>1 DEF Make, Goto, call, map, conf, Fresh, IInv, TypeOK, PlaceInv,
     CountInv, Creating
<1>6. ServedInv'
  BY <1>1 DEF Make, Goto, call, map, conf, Fresh, IInv, TypeOK, PlaceInv,
     ServedInv, Creating
<1> QED
  BY <1>2, <1>3, <1>4, <1>5, <1>6 DEF IInv

(* MakeFails: no backend is made.                                          *)
LEMMA MakeFailsOwner ==
  ASSUME IInv, MakeFails(Owner)
  PROVE  IInv'
<1>1. Owner \in Thread /\ Owner # Reader /\ Owner \notin Handler
      /\ Handler \subseteq Thread
  BY LifeAssumption DEF Thread
<1>2. TypeOK'
  BY <1>1, OwnerReturns DEF MakeFails, map, IInv, TypeOK, Creating, PC,
     AnyUUID
<1>3. PlaceInv' /\ ListedInv'
  BY <1>1, LifeAssumption DEF MakeFails, Goto, call, map, conf, CreateReturns,
     IInv, TypeOK, PlaceInv, ListedInv, Creating, Thread
<1>4. NamedInv' /\ NullInv'
  BY <1>1, OwnerReturns DEF MakeFails, map, IInv, TypeOK, NamedInv, NullInv,
     Creating
<1>5. CountInv'
  <2>1. /\ pc[Owner] = "make" /\ Head(phonebooks) # "good"
        /\ CreateReturns(Owner) /\ UNCHANGED <<map, promised, made>>
    BY DEF MakeFails
  <2>2. pc'[Owner] = "configure" /\ Good(phonebooks') = Good(phonebooks)
    BY <1>1, <2>1, OwnerReturns DEF IInv, TypeOK, Creating
  <2> QED
    BY <2>1, <2>2 DEF map, IInv, CountInv, Creating
<1>6. ServedInv'
  BY <1>1 DEF MakeFails, Goto, call, map, conf, CreateReturns, IInv, TypeOK,
     PlaceInv, ServedInv, Creating
<1> QED
  BY <1>2, <1>3, <1>4, <1>5, <1>6 DEF IInv

(* Lock: the mutex is taken.                                               *)
LEMMA LockOwner ==
  ASSUME IInv, Lock(Owner)
  PROVE  IInv'
<1>1. Owner \in Thread /\ Owner # Reader /\ Owner \notin Handler
      /\ Handler \subseteq Thread
  BY LifeAssumption DEF Thread
<1>2. TypeOK'
  BY <1>1, ValuesAssumption, HeadTailProperties DEF Lock, Goto, call, map,
     conf, IInv, TypeOK, PlaceInv, NamedInv, Creating, PC, AnyUUID, Op,
     AdminOp, MakeOp
<1>3. PlaceInv' /\ ListedInv'
  BY <1>1, LifeAssumption DEF Lock, Goto, call, map, conf, IInv, TypeOK,
     PlaceInv, ListedInv, Creating, Thread, MakeOp, RemoveOp
<1>4. NamedInv' /\ NullInv'
  BY <1>1, ValuesAssumption DEF Lock, Goto, call, map, conf, IInv, TypeOK,
     PlaceInv, NamedInv, NullInv, Creating, MakeOp
<1>5. CountInv'
  BY <1>1 DEF Lock, Goto, call, map, conf, IInv, TypeOK, PlaceInv, CountInv,
     Creating
<1>6. ServedInv'
  BY <1>1 DEF Lock, Goto, call, map, conf, IInv, TypeOK, PlaceInv, ServedInv,
     Creating
<1> QED
  BY <1>2, <1>3, <1>4, <1>5, <1>6 DEF IInv

(* Insert: operator[] puts a null pointer into the map.                    *)
LEMMA InsertOwner ==
  ASSUME IInv, Insert(Owner)
  PROVE  IInv'
<1>1. Owner \in Thread /\ Owner # Reader /\ Owner \notin Handler
      /\ Handler \subseteq Thread
  BY LifeAssumption DEF Thread
<1>2. TypeOK'
  BY <1>1, ValuesAssumption, HeadTailProperties DEF Insert, Goto, call, map,
     conf, IInv, TypeOK, PlaceInv, NamedInv, Creating, PC, AnyUUID, Op,
     AdminOp, MakeOp
<1>3. PlaceInv' /\ ListedInv'
  BY <1>1, LifeAssumption DEF Insert, Goto, call, map, conf, IInv, TypeOK,
     PlaceInv, ListedInv, Creating, Thread
<1>4. NamedInv' /\ NullInv'
  BY <1>1, ValuesAssumption DEF Insert, Goto, call, map, conf, IInv, TypeOK,
     PlaceInv, NamedInv, NullInv, Creating, MakeOp
<1>5. CountInv'
  BY <1>1 DEF Insert, Goto, call, map, conf, IInv, TypeOK, PlaceInv, CountInv,
     Creating
<1>6. ServedInv'
  BY <1>1 DEF Insert, Goto, call, map, conf, IInv, TypeOK, PlaceInv, ServedInv,
     Creating
<1> QED
  BY <1>2, <1>3, <1>4, <1>5, <1>6 DEF IInv

(* Assign: the backend is moved there.                                     *)
LEMMA AssignOwner ==
  ASSUME IInv, Assign(Owner)
  PROVE  IInv'
<1>1. Owner \in Thread /\ Owner # Reader /\ Owner \notin Handler
      /\ Handler \subseteq Thread
  BY LifeAssumption DEF Thread
<1>2. TypeOK'
  BY <1>1, ValuesAssumption, HeadTailProperties DEF Assign, Goto, call, map,
     conf, IInv, TypeOK, PlaceInv, NamedInv, Creating, PC, AnyUUID, Op,
     AdminOp, MakeOp
<1>3. PlaceInv' /\ ListedInv'
  BY <1>1, LifeAssumption DEF Assign, Goto, call, map, conf, IInv, TypeOK,
     PlaceInv, ListedInv, Creating, Thread
<1>4. NamedInv' /\ NullInv'
  BY <1>1, ValuesAssumption DEF Assign, Goto, call, map, conf, IInv, TypeOK,
     PlaceInv, NamedInv, NullInv, Creating, MakeOp
<1>5. CountInv'
  <2>1. /\ pc[Owner] = "assign" /\ pc'[Owner] = "unlock"
        /\ made' = made \cup {phonebook_id[Owner]}
        /\ m_backends' = [m_backends EXCEPT ![phonebook_id[Owner]] = "present"]
        /\ UNCHANGED <<phonebooks, promised>>
    BY <1>1 DEF Assign, Goto, IInv, TypeOK
  <2>2. /\ IsFiniteSet(made) /\ phonebook_id[Owner] \notin made
        /\ Head(phonebooks) = "good"
        /\ Cardinality(made) + Good(phonebooks) = promised
    BY <2>1 DEF IInv, CountInv, Creating
  <2>3. /\ IsFiniteSet(made')
        /\ Cardinality(made') = Cardinality(made) + 1
        /\ Cardinality(made) \in Nat
    BY <2>1, <2>2, FS_AddElement, FS_CardinalityType
  <2>4. Good(phonebooks) \in Nat /\ promised \in Nat
    BY GoodIsNat DEF IInv, TypeOK
  <2>5. Cardinality(made') + Good(phonebooks) = promised + 1
    BY <2>2, <2>3, <2>4
  <2>6. \A u \in made' : m_backends'[u] # "absent"
    BY <1>1, <2>1 DEF IInv, TypeOK, CountInv
  <2> QED
    BY <2>1, <2>2, <2>3, <2>5, <2>6 DEF CountInv
<1>6. ServedInv'
  BY <1>1 DEF Assign, Goto, call, map, conf, IInv, TypeOK, PlaceInv, ServedInv,
     Creating
<1> QED
  BY <1>2, <1>3, <1>4, <1>5, <1>6 DEF IInv

(* Unlock: the mutex is released.                                          *)
LEMMA UnlockOwner ==
  ASSUME IInv, Unlock(Owner)
  PROVE  IInv'
<1>1. Owner \in Thread /\ Owner # Reader /\ Owner \notin Handler
      /\ Handler \subseteq Thread
  BY LifeAssumption DEF Thread
<1>2. TypeOK'
  BY <1>1, OwnerReturns DEF Unlock, IInv, TypeOK, PlaceInv, Creating, PC,
     AnyUUID
<1>3. PlaceInv' /\ ListedInv'
  BY <1>1, LifeAssumption DEF Unlock, Goto, call, map, conf, CreateReturns,
     IInv, TypeOK, PlaceInv, ListedInv, Creating, Thread
<1>4. NamedInv' /\ NullInv'
  BY <1>1, ValuesAssumption DEF Unlock, Goto, call, map, conf, CreateReturns,
     IInv, TypeOK, PlaceInv, NamedInv, NullInv, Creating, MakeOp
<1>5. CountInv'
  <2>1. /\ pc[Owner] = "unlock" /\ CreateReturns(Owner)
        /\ UNCHANGED <<m_backends, promised, made>>
    BY DEF Unlock, IInv, PlaceInv, Creating
  <2>2. Head(phonebooks) = "good"
    BY <2>1 DEF IInv, CountInv, Creating
  <2>3. /\ pc'[Owner] = "configure"
        /\ Good(phonebooks) = Good(phonebooks') + 1
        /\ Good(phonebooks') \in Nat
    BY <1>1, <2>1, <2>2, OwnerReturns DEF IInv, TypeOK, Creating
  <2>4. Cardinality(made) \in Nat /\ promised \in Nat
    BY FS_CardinalityType DEF IInv, TypeOK, CountInv
  <2>5. Cardinality(made) + Good(phonebooks) = promised + 1
    BY <2>1 DEF IInv, CountInv
  <2>6. Cardinality(made) + Good(phonebooks') = promised
    BY <2>3, <2>4, <2>5
  <2> QED
    BY <2>1, <2>3, <2>6 DEF IInv, CountInv, Creating
<1>6. ServedInv'
  BY <1>1 DEF Unlock, Goto, call, map, conf, CreateReturns, IInv, TypeOK,
     PlaceInv, ServedInv, Creating
<1> QED
  BY <1>2, <1>3, <1>4, <1>5, <1>6 DEF IInv

(* Construct: construction begins.                                         *)
LEMMA ConstructStep ==
  ASSUME IInv, Construct
  PROVE  IInv'
<1>1. Owner \in Thread /\ Owner # Reader /\ Owner \notin Handler
      /\ Handler \subseteq Thread
  BY LifeAssumption DEF Thread
<1>2. TypeOK'
  BY <1>1, ValuesAssumption, HeadTailProperties DEF Construct, Goto, call, map,
     conf, IInv, TypeOK, PlaceInv, NamedInv, Creating, PC, AnyUUID, Op,
     AdminOp, MakeOp
<1>3. PlaceInv' /\ ListedInv'
  BY <1>1, LifeAssumption DEF Construct, Goto, call, map, conf, IInv, TypeOK,
     PlaceInv, ListedInv, Creating, Thread
<1>4. NamedInv' /\ NullInv'
  BY <1>1, ValuesAssumption DEF Construct, Goto, call, map, conf, IInv, TypeOK,
     PlaceInv, NamedInv, NullInv, Creating, MakeOp
<1>5. CountInv'
  BY <1>1 DEF Construct, Goto, call, map, conf, IInv, TypeOK, PlaceInv,
     CountInv, Creating
<1>6. ServedInv'
  BY <1>1 DEF Construct, Goto, call, map, conf, IInv, TypeOK, PlaceInv,
     ServedInv, Creating
<1> QED
  BY <1>2, <1>3, <1>4, <1>5, <1>6 DEF IInv

(* Define: one RPC after another is defined.                               *)
LEMMA DefineStep ==
  ASSUME IInv, Define
  PROVE  IInv'
<1>1. Owner \in Thread /\ Owner # Reader /\ Owner \notin Handler
      /\ Handler \subseteq Thread
  BY LifeAssumption DEF Thread
<1>2. TypeOK'
  BY <1>1, DefinedIsNat, NextRPC DEF Define, Goto, call, map, conf, IInv,
     TypeOK, PC
<1>3. PlaceInv' /\ ListedInv'
  BY <1>1, LifeAssumption DEF Define, Goto, call, map, conf, RPCs, IInv,
     TypeOK, PlaceInv, ListedInv, Creating, Thread
<1>4. NamedInv' /\ NullInv'
  BY <1>1, ValuesAssumption DEF Define, Goto, call, map, conf, RPCs, IInv,
     TypeOK, PlaceInv, NamedInv, NullInv, Creating, MakeOp
<1>5. CountInv'
  BY <1>1 DEF Define, Goto, call, map, conf, RPCs, IInv, TypeOK, PlaceInv,
     CountInv, Creating
<1>6. ServedInv'
  BY <1>1 DEF Define, Goto, call, map, conf, RPCs, IInv, TypeOK, PlaceInv,
     ServedInv, Creating
<1> QED
  BY <1>2, <1>3, <1>4, <1>5, <1>6 DEF IInv

(* Configure: the loop goes on with the next entry.                        *)
LEMMA ConfigureStep ==
  ASSUME IInv, Configure
  PROVE  IInv'
<1>1. Owner \in Thread /\ Owner # Reader /\ Owner \notin Handler
      /\ Handler \subseteq Thread
  BY LifeAssumption DEF Thread
<1>2. TypeOK'
  BY <1>1, ValuesAssumption, HeadTailProperties DEF Configure, Goto, call, map,
     conf, IInv, TypeOK, PlaceInv, NamedInv, Creating, PC, AnyUUID, Op,
     AdminOp, MakeOp
<1>3. PlaceInv' /\ ListedInv'
  BY <1>1, LifeAssumption DEF Configure, Goto, call, map, conf, IInv, TypeOK,
     PlaceInv, ListedInv, Creating, Thread
<1>4. NamedInv' /\ NullInv'
  BY <1>1, ValuesAssumption DEF Configure, Goto, call, map, conf, IInv, TypeOK,
     PlaceInv, NamedInv, NullInv, Creating, MakeOp
<1>5. CountInv'
  <2>1. pc[Owner] = "configure" /\ UNCHANGED <<m_backends, promised, made>>
    BY DEF Configure, map
  <2>2. CASE phonebooks' = phonebooks /\ pc'[Owner] \in {"own", "make"}
    BY <2>1, <2>2 DEF IInv, CountInv, Creating
  <2>3. CASE /\ phonebooks # <<>> /\ Head(phonebooks) = "untyped"
             /\ phonebooks' = Tail(phonebooks) /\ pc' = pc
    <3>1. Good(phonebooks') = Good(phonebooks)
      BY <2>3, GoodTail DEF IInv, TypeOK
    <3> QED
      BY <2>1, <2>3, <3>1 DEF IInv, CountInv, Creating
  <2> QED
    BY <1>1, <2>2, <2>3 DEF Configure, Goto, IInv, TypeOK
<1>6. ServedInv'
  BY <1>1 DEF Configure, Goto, call, map, conf, IInv, TypeOK, PlaceInv,
     ServedInv, Creating
<1> QED
  BY <1>2, <1>3, <1>4, <1>5, <1>6 DEF IInv

(* Leave: the destructor begins.                                           *)
LEMMA LeaveStep ==
  ASSUME IInv, Leave
  PROVE  IInv'
<1>1. Owner \in Thread /\ Owner # Reader /\ Owner \notin Handler
      /\ Handler \subseteq Thread
  BY LifeAssumption DEF Thread
<1>2. TypeOK'
  BY <1>1, ValuesAssumption, HeadTailProperties DEF Leave, Goto, call, map,
     conf, IInv, TypeOK, PlaceInv, NamedInv, Creating, PC, AnyUUID, Op,
     AdminOp, MakeOp
<1>3. PlaceInv' /\ ListedInv'
  BY <1>1, LifeAssumption DEF Leave, Goto, call, map, conf, IInv, TypeOK,
     PlaceInv, ListedInv, Creating, Thread
<1>4. NamedInv' /\ NullInv'
  BY <1>1, ValuesAssumption DEF Leave, Goto, call, map, conf, IInv, TypeOK,
     PlaceInv, NamedInv, NullInv, Creating, MakeOp
<1>5. CountInv'
  BY <1>1 DEF Leave, Goto, call, map, conf, IInv, TypeOK, PlaceInv, CountInv,
     Creating
<1>6. ServedInv'
  BY <1>1 DEF Leave, Goto, call, map, conf, IInv, TypeOK, PlaceInv, ServedInv,
     Creating
<1> QED
  BY <1>2, <1>3, <1>4, <1>5, <1>6 DEF IInv

(* Deregister: one RPC after another is deregistered, and the map goes.    *)
LEMMA DeregisterStep ==
  ASSUME IInv, Deregister
  PROVE  IInv'
<1>1. Owner \in Thread /\ Owner # Reader /\ Owner \notin Handler
      /\ Handler \subseteq Thread
  BY LifeAssumption DEF Thread
<1>2. TypeOK'
  BY <1>1 DEF Deregister, Goto, call, conf, IInv, TypeOK, PC
<1>3. PlaceInv' /\ ListedInv'
  BY <1>1, LifeAssumption DEF Deregister, Goto, call, map, conf, RPCs, IInv,
     TypeOK, PlaceInv, ListedInv, Creating, Thread
<1>4. NamedInv' /\ NullInv'
  BY <1>1, ValuesAssumption DEF Deregister, Goto, call, map, conf, RPCs, IInv,
     TypeOK, PlaceInv, NamedInv, NullInv, Creating, MakeOp
<1>5. CountInv'
  BY <1>1 DEF Deregister, Goto, call, map, conf, RPCs, IInv, TypeOK, PlaceInv,
     CountInv, Creating
<1>6. ServedInv'
  BY <1>1 DEF Deregister, Goto, call, map, conf, RPCs, IInv, TypeOK, PlaceInv,
     ServedInv, Creating
<1> QED
  BY <1>2, <1>3, <1>4, <1>5, <1>6 DEF IInv

-----------------------------------------------------------------------------
(* Steps of the reader, and of all.                                        *)

(* getConfig changes nothing but its own document.                         *)
LEMMA ReaderStepInv ==
  ASSUME IInv, ReaderStep
  PROVE  IInv'
<1>1. /\ Reader \in Thread /\ Owner \in Thread /\ Owner # Reader
      /\ Reader \notin Handler /\ Handler \subseteq Thread
  BY LifeAssumption DEF Thread
<1>2. /\ UNCHANGED <<call, defined, map, conf>>
      /\ pc' = [pc EXCEPT ![Reader] = pc'[Reader]]
      /\ pc[Reader] \in {"idle", "scan", "print"}
      /\ pc'[Reader] \in {"idle", "scan", "print"}
      /\ pc'[Reader] = "idle" => listed' = {}
      /\ listed' \subseteq UUID
  BY <1>1 DEF ReaderStep, TestSelf, Scan, Printed, Goto, Listable, IInv,
     TypeOK, PlaceInv, ListedInv
<1>3. TypeOK'
  BY <1>1, <1>2 DEF call, map, conf, IInv, TypeOK, PC
<1>4. PlaceInv' /\ ListedInv'
  BY <1>1, <1>2 DEF call, conf, IInv, TypeOK, PlaceInv, ListedInv
<1>5. NamedInv' /\ NullInv'
  BY <1>1, <1>2 DEF call, map, IInv, TypeOK, NamedInv, NullInv
<1>6. CountInv' /\ ServedInv'
  BY <1>1, <1>2 DEF call, map, conf, IInv, TypeOK, CountInv, ServedInv
<1> QED
  BY <1>3, <1>4, <1>5, <1>6 DEF IInv

(* Before the provider is constructed.                                     *)
LEMMA InitInv == Init => IInv
<1> SUFFICES ASSUME Init PROVE IInv
  OBVIOUS
<1>1. /\ Owner \in Thread /\ Reader \in Thread /\ Handler \subseteq Thread
  BY DEF Thread
<1>2. phonebooks \in Seq(Listing)
  <2>1. PICK n \in 0..MaxEntries : phonebooks \in [1..n -> Listing]
    BY DEF Init, Documents
  <2>2. n \in Nat
    BY LifeAssumption
  <2> QED
    BY <2>1, <2>2, SeqDef
<1>3. Good(phonebooks) \in Nat
  BY <1>2, GoodIsNat
<1>4. TypeOK
  BY <1>2, <1>3 DEF Init, TypeOK, PC, AnyUUID
<1>5. PlaceInv /\ NamedInv /\ NullInv /\ ListedInv /\ ServedInv
  BY <1>1 DEF Init, PlaceInv, Creating, NamedInv, NullInv, ListedInv,
     ServedInv
<1>6. CountInv
  BY <1>1, <1>3, FS_EmptySet DEF Init, CountInv, Creating
<1> QED
  BY <1>4, <1>5, <1>6 DEF IInv

(* A step of the owner, of the reader or of a handler.                     *)
LEMMA NextInv == IInv /\ [Next]_vars => IInv'
<1> SUFFICES ASSUME IInv, [Next]_vars PROVE IInv'
  OBVIOUS
<1>1. CASE UNCHANGED vars
  BY <1>1 DEF vars, call, map, conf, IInv, TypeOK, PlaceInv, NamedInv,
     NullInv, ListedInv, CountInv, ServedInv
<1>2. CASE OwnerStep \/ CreateStep(Owner)
  BY <1>2, ConstructStep, DefineStep, ConfigureStep, LeaveStep,
     DeregisterStep, MakeOwner, MakeFailsOwner, LockOwner, InsertOwner,
     AssignOwner, UnlockOwner DEF OwnerStep, CreateStep
<1>3. CASE ReaderStep
  BY <1>3, ReaderStepInv
<1>4. ASSUME NEW h \in Handler, Dispatch(h) \/ HandlerStep(h)
      PROVE  IInv'
  BY <1>4, DispatchHandler, BeginHandler, MakeHandler, MakeFailsHandler,
     LockHandler, InsertHandler, AssignHandler, UnlockHandler, CloseHandler,
     FindHandler, MissHandler, MissReturnsHandler, DestroyedHandler,
     EraseHandler, UsedHandler, RespondedHandler, ReturnHandler
     DEF HandlerStep, CreateStep
<1> QED
  BY <1>1, <1>2, <1>3, <1>4 DEF Next

-----------------------------------------------------------------------------
(* Theorems about any number of execution streams.                         *)

(* Invariance: IInv holds whatever the threads do, on any number of        *)
(* execution streams.                                                      *)
THEOREM Invariance == Spec => []IInv
  BY InitInv, NextInv, PTL DEF Spec

(* TypeCorrect: the variables always have their types.                     *)
THEOREM TypeCorrect == Spec => []TypeOK
<1>1. IInv => TypeOK
  BY DEF IInv
<1> QED
  BY <1>1, Invariance, PTL

(***************************************************************************)
(* ConfiguredAll: the constructor makes every phonebook of a configuration *)
(* of any length that can be made (ProviderImpl.hpp:89-96).                *)
(***************************************************************************)
THEOREM ConfiguredAll == Spec => []Configured
<1>1. IInv => Configured
  <2> SUFFICES ASSUME IInv, pc[Owner] = "own"
               PROVE  Cardinality(made) = promised
    BY DEF Configured, Self
  <2>1. phonebooks = <<>>
    BY DEF IInv, PlaceInv
  <2>2. Cardinality(made) + Good(phonebooks) = promised
    BY DEF IInv, CountInv
  <2>3. Cardinality(made) \in Nat
    BY FS_CardinalityType DEF IInv, CountInv
  <2> QED
    BY <2>1, <2>2, <2>3, GoodEmpty
<1> QED
  BY <1>1, Invariance, PTL

-----------------------------------------------------------------------------
(* One execution stream.                                                   *)

(* A step of thread t alone.                                               *)
StepOf(t) ==
  \/ t = Owner /\ (OwnerStep \/ CreateStep(Owner))
  \/ t = Reader /\ ReaderStep
  \/ t \in Handler /\ HandlerStep(t)

(***************************************************************************)
(* Only: with one stream, who may run is the only one that is between two  *)
(* points where it may block.  That there is no infinity of others follows *)
(* from StreamInv, too.                                                    *)
(***************************************************************************)
LEMMA Only ==
  ASSUME OneStream, StreamInv, NEW t \in Thread, MayRun(t)
  PROVE  Running \subseteq {t}
<1>1. CASE t \in Running
  BY <1>1 DEF StreamInv
<1>2. CASE Cardinality(Running) < 1
  <2>1. Running = {} \/ \E u : Running = {u}
    BY DEF StreamInv
  <2>2. IsFiniteSet(Running)
    BY <2>1, FS_EmptySet, FS_Singleton
  <2>3. Cardinality(Running) \in Nat
    BY <2>2, FS_CardinalityType
  <2>4. Running = {}
    BY <1>2, <2>2, <2>3, FS_EmptySet
  <2> QED
    BY <2>4
<1> QED
  BY <1>1, <1>2 DEF MayRun, OneStream

(* A step of a thread moves that thread only.                              *)
LEMMA MovesOne ==
  ASSUME TypeOK, NEW t \in Thread, StepOf(t)
  PROVE  \A u \in Thread \ {t} : pc'[u] = pc[u]
<1>1. CASE t = Owner /\ OwnerStep
  BY <1>1 DEF TypeOK, OwnerStep, Construct, Define, Configure, Leave,
     Deregister, Goto
<1>2. CASE CreateStep(t)
  BY <1>2 DEF TypeOK, CreateStep, Make, MakeFails, CreateReturns, Lock, Insert,
     Assign, Unlock, Goto
<1>3. CASE t = Reader /\ ReaderStep
  BY <1>3 DEF TypeOK, ReaderStep, TestSelf, Scan, Printed, Goto
<1>4. CASE HandlerStep(t) /\ ~CreateStep(t)
  BY <1>4 DEF TypeOK, HandlerStep, Begin, Close, Find, Miss, MissReturns,
     Destroyed, Erase, Used, Responded, Return, Goto
<1> QED
  BY <1>1, <1>2, <1>3, <1>4 DEF StepOf

(* Nor does the dispatch of a request let another thread run.              *)
LEMMA DispatchMoves ==
  ASSUME TypeOK, NEW h \in Handler, Dispatch(h)
  PROVE  /\ \A u \in Thread \ {h} : pc'[u] = pc[u]
         /\ pc[h] = "idle" /\ pc'[h] = "new"
         /\ UNCHANGED <<map, listed>>
  BY DEF TypeOK, Dispatch, Goto, Thread

(* The walk over the map, by getConfig itself (ProviderImpl.hpp:111-122).  *)
LEMMA ReaderScans ==
  ASSUME IInv, ScanInv, ReaderStep
  PROVE  ScanInv' /\ Snapshot'
<1>1. Reader \in Thread /\ Owner \in Thread /\ Owner # Reader
  BY LifeAssumption DEF Thread
<1>2. Self' = Self /\ \A u : InMap(u)' = InMap(u)
  BY <1>1 DEF ReaderStep, TestSelf, Scan, Printed, Goto, map, Self, InMap,
     IInv, TypeOK
<1>3. CASE TestSelf
  BY <1>1, <1>2, <1>3 DEF TestSelf, Goto, IInv, TypeOK, ListedInv, ScanInv,
     Snapshot
<1>4. CASE Scan
  BY <1>1, <1>2, <1>4 DEF Scan, Listable, Goto, IInv, TypeOK, ScanInv, Snapshot
<1>5. CASE Printed
  BY <1>1, <1>2, <1>5 DEF Printed, Goto, IInv, TypeOK, ScanInv, Snapshot
<1> QED
  BY <1>3, <1>4, <1>5 DEF ReaderStep

(* Nobody else runs while getConfig does: StreamInv is inductive.          *)
LEMMA StreamStep ==
  ASSUME OneStream, IInv, StreamInv, [Next]_vars
  PROVE  StreamInv'
<1>1. /\ Reader \in Thread /\ Owner \in Thread /\ Owner # Reader
      /\ Reader \notin Handler /\ Owner \notin Handler
      /\ Handler \subseteq Thread
  BY LifeAssumption DEF Thread
<1>2. "scan" \notin YieldPoint /\ "print" \notin YieldPoint
      /\ "new" \in YieldPoint
  BY LifeAssumption DEF OneStream, YieldPoint
<1>3. CASE UNCHANGED vars
  BY <1>3 DEF vars, call, map, conf, StreamInv, Running, ScanInv, Snapshot,
     Self, InMap
<1>4. ASSUME NEW h \in Handler, Dispatch(h)
      PROVE  StreamInv'
  <2>1. /\ \A u \in Thread \ {h} : pc'[u] = pc[u]
        /\ pc[h] = "idle" /\ pc'[h] = "new"
        /\ UNCHANGED <<map, listed>>
    BY <1>4, DispatchMoves DEF IInv
  <2>2. Running' \subseteq Running
    BY <1>1, <1>2, <2>1 DEF Running
  <2>3. pc'[Reader] = pc[Reader] /\ pc'[Owner] = pc[Owner]
    BY <1>1, <2>1
  <2> QED
    BY <2>1, <2>2, <2>3 DEF StreamInv, ScanInv, Snapshot, Self, InMap, map
<1>5. ASSUME NEW t \in Thread, MayRun(t), StepOf(t)
      PROVE  StreamInv'
  <2>1. Running \subseteq {t} /\ \A u \in Thread \ {t} : pc'[u] = pc[u]
    BY <1>5, Only, MovesOne DEF IInv
  <2>2. Running' \subseteq {t}
    BY <2>1 DEF Running
  <2>3. CASE t = Reader
    <3>1. ReaderStep
      BY <1>1, <1>5, <2>3 DEF StepOf
    <3> QED
      BY <2>2, <3>1, ReaderScans DEF StreamInv
  <2>4. CASE t # Reader
    <3>1. pc'[Reader] = pc[Reader] /\ pc[Reader] \in YieldPoint
      BY <1>1, <2>1, <2>4 DEF Running
    <3>2. pc'[Reader] \notin {"scan", "print"}
      BY <1>2, <3>1
    <3> QED
      BY <2>2, <3>2 DEF StreamInv, ScanInv, Snapshot
  <2> QED
    BY <2>3, <2>4
<1> QED
  BY <1>1, <1>3, <1>4, <1>5 DEF Next, StepOf

(* Nobody runs before the provider is constructed.                         *)
LEMMA InitStream == Init => StreamInv
<1> SUFFICES ASSUME Init PROVE StreamInv
  OBVIOUS
<1>1. Reader \in Thread /\ \A t \in Thread : pc[t] = "idle"
  BY DEF Init, Thread
<1> QED
  BY <1>1 DEF StreamInv, Running, YieldPoint, ScanInv, Snapshot

(* StreamInvariance: on one execution stream, StreamInv holds as well.     *)
THEOREM StreamInvariance == ASSUME OneStream PROVE Spec => []StreamInv
<1>1. IInv /\ StreamInv /\ [Next]_vars => StreamInv'
  BY StreamStep
<1> QED
  BY <1>1, InitStream, Invariance, PTL DEF Spec

(***************************************************************************)
(* ScannedSound: on one execution stream, getConfig walks the map while    *)
(* nobody writes it, and meets no null pointer, though it takes no lock.   *)
(***************************************************************************)
THEOREM ScannedSound == ASSUME OneStream PROVE Spec => []ScanSound
<1>1. IInv /\ StreamInv => ScanSound
  <2> SUFFICES ASSUME IInv, StreamInv, pc[Reader] = "scan"
               PROVE  /\ \A u \in UUID : m_backends[u] # "null"
                      /\ \A t \in Running : ~Writes(t)
    BY DEF ScanSound
  <2>1. {"scan", "assign"} \cap YieldPoint = {}
    BY LifeAssumption DEF OneStream, YieldPoint
  <2>2. Running \subseteq {Reader} /\ Reader \in Thread
    BY <2>1 DEF StreamInv, Running, Thread
  <2>3. ASSUME NEW u \in UUID, m_backends[u] = "null" PROVE FALSE
    <3>1. PICK t \in Thread : pc[t] = "assign"
      BY <2>3 DEF IInv, NullInv
    <3> QED
      BY <2>1, <2>2, <3>1 DEF Running
  <2>4. ~Writes(Reader)
    BY DEF Writes
  <2> QED
    BY <2>2, <2>3, <2>4
<1> QED
  BY <1>1, Invariance, StreamInvariance, PTL

(***************************************************************************)
(* Consistent: on one execution stream, getConfig's document lists exactly *)
(* the phonebooks that are served at the moment it is returned.            *)
(***************************************************************************)
THEOREM Consistent == ASSUME OneStream PROVE Spec => []Snapshot
<1>1. StreamInv => Snapshot
  BY DEF StreamInv
<1> QED
  BY <1>1, StreamInvariance, PTL

(***************************************************************************)
(* MembersThere: on one execution stream, and if the provider goes when    *)
(* its engine finalizes, no RPC runs on members that are not constructed   *)
(* yet or destroyed already, though it may be dispatched to them; nor does *)
(* getConfig.                                                              *)
(***************************************************************************)
THEOREM MembersThere ==
  ASSUME OneStream, Finalizing PROVE Spec => []MembersExist
<1>1. IInv /\ StreamInv => MembersExist
  <2> SUFFICES ASSUME IInv, StreamInv PROVE MembersExist
    OBVIOUS
  <2>1. ASSUME NEW h \in Handler, MayRun(h), pc[h] # "idle"
        PROVE  Exists
    <3>1. h \in Thread /\ Owner \in Thread /\ h # Owner
      BY LifeAssumption DEF Thread
    <3>2. Running \subseteq {h}
      BY <2>1, <3>1, Only
    <3>3. pc[Owner] # "define"
      <4>1. "define" \notin YieldPoint
        BY LifeAssumption DEF YieldPoint
      <4> QED
        BY <3>1, <3>2, <4>1 DEF Running
    <3>4. pc[Owner] \notin {"idle", "gone"}
      BY <2>1 DEF IInv, ServedInv
    <3> QED
      BY <3>3, <3>4 DEF Exists
  <2>2. pc[Reader] = "scan" => Self
    BY DEF StreamInv, ScanInv
  <2> QED
    BY <2>1, <2>2 DEF MembersExist
<1> QED
  BY <1>1, Invariance, StreamInvariance, PTL

===============================================================================
