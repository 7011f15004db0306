----------------------------- MODULE AsyncProofs ------------------------------
(***************************************************************************)
(* Proofs about AsyncRequest, for any number of threads, AsyncRequests and *)
(* calls of computeSum: the inductive invariant IInv, type correctness     *)
(* included, and that a wait() that returns has delivered.  For one thread *)
(* without errors: no request is lost, and no result is stored late.       *)
(***************************************************************************)
EXTENDS AsyncInvariant, TLAPS

-----------------------------------------------------------------------------
(* Every action preserves IInv.                                            *)

(* A client that has made no call yet.                                     *)
LEMMA InitInv == Init => IInv
<1> SUFFICES ASSUME Init PROVE IInv
  OBVIOUS
<1>1. TypeOK
  BY DEF Init, TypeOK, AsyncOp
<1>2. OperandInv /\ ExclusiveInv /\ LocalInv /\ LiveInv /\ KeptInv
      /\ DeliveredInv
  BY DEF Init, OperandInv, ExclusiveInv, LocalInv, LiveInv, KeptInv,
     DeliveredInv
<1> QED
  BY <1>1, <1>2 DEF IInv

(* ComputeSum: computeSum: the new request is alive, and computeSum alone  *)
(* points at it (PhonebookHandle.cpp:66-80).                               *)
LEMMA ComputeSumStep ==
  ASSUME IInv, NEW t \in Thread, ComputeSum(t)
  PROVE  IInv'
<1> USE DEF IInv
<1>1. TypeOK'
  BY AsyncAssumption DEF TypeOK, ComputeSum, Start, Goto, Free, impls,
     AsyncOp, OperandInv, Target
<1>2. OperandInv'
  BY AsyncAssumption DEF TypeOK, OperandInv, ComputeSum, Start, Goto, Free,
     impls, Target
<1>3. ExclusiveInv'
  BY AsyncAssumption DEF TypeOK, ExclusiveInv, ComputeSum, Start, Goto, Free,
     impls, OperandInv
<1>4. LocalInv'
  BY AsyncAssumption DEF TypeOK, LocalInv, ComputeSum, Start, Goto, Free,
     impls, LiveInv, OperandInv
<1>5. LiveInv'
  BY AsyncAssumption DEF TypeOK, LiveInv, ComputeSum, Start, Goto, Free,
     impls, OperandInv, Target
<1>6. DeliveredInv'
  BY AsyncAssumption DEF TypeOK, DeliveredInv, ComputeSum, Start, Goto, Free,
     impls, Target, OperandInv
<1>7. KeptInv'
  BY AsyncAssumption DEF TypeOK, KeptInv, Pointed, ComputeSum, Start, LocalInv,
     impls
<1> QED
  BY <1>1, <1>2, <1>3, <1>4, <1>5, <1>6, <1>7

(* Assign: operator= and the constructors begin with two objects nobody    *)
(* uses (AsyncRequest.cpp:14-47).                                          *)
LEMMA AssignStep ==
  ASSUME IInv, NEW t \in Thread, Assign(t)
  PROVE  IInv'
<1> USE DEF IInv
<1>1. TypeOK'
  BY AsyncAssumption DEF TypeOK, Assign, Start, Goto, Free, impls, AsyncOp,
     OperandInv, Target
<1>2. OperandInv'
  BY AsyncAssumption DEF TypeOK, OperandInv, Assign, Start, Goto, Free, impls,
     Target
<1>3. ExclusiveInv'
  BY AsyncAssumption DEF TypeOK, ExclusiveInv, Assign, Start, Goto, Free,
     impls, OperandInv
<1>4. LocalInv'
  BY AsyncAssumption DEF TypeOK, LocalInv, Assign, Start, Goto, Free, impls,
     LiveInv, OperandInv
<1>5. LiveInv'
  BY AsyncAssumption DEF TypeOK, LiveInv, Assign, Start, Goto, Free, impls,
     OperandInv, Target
<1>6. DeliveredInv'
  BY AsyncAssumption DEF TypeOK, DeliveredInv, Assign, Start, Goto, Free,
     impls, Target, OperandInv
<1>7. KeptInv'
  BY AsyncAssumption DEF TypeOK, KeptInv, Pointed, Assign, Start, impls
<1> QED
  BY <1>1, <1>2, <1>3, <1>4, <1>5, <1>6, <1>7

(* Destruct: the destructor begins with an object nobody uses              *)
(* (AsyncRequest.cpp:24-28).                                               *)
LEMMA DestructStep ==
  ASSUME IInv, NEW t \in Thread, Destruct(t)
  PROVE  IInv'
<1> USE DEF IInv
<1>1. TypeOK'
  BY AsyncAssumption DEF TypeOK, Destruct, Start, Goto, Free, impls, AsyncOp,
     OperandInv, Target
<1>2. OperandInv'
  BY AsyncAssumption DEF TypeOK, OperandInv, Destruct, Start, Goto, Free,
     impls, Target
<1>3. ExclusiveInv'
  BY AsyncAssumption DEF TypeOK, ExclusiveInv, Destruct, Start, Goto, Free,
     impls, OperandInv
<1>4. LocalInv'
  BY AsyncAssumption DEF TypeOK, LocalInv, Destruct, Start, Goto, Free, impls,
     LiveInv, OperandInv
<1>5. LiveInv'
  BY AsyncAssumption DEF TypeOK, LiveInv, Destruct, Start, Goto, Free, impls,
     OperandInv, Target
<1>6. DeliveredInv'
  BY AsyncAssumption DEF TypeOK, DeliveredInv, Destruct, Start, Goto, Free,
     impls, Target, OperandInv
<1>7. KeptInv'
  BY AsyncAssumption DEF TypeOK, KeptInv, Pointed, Destruct, Start, impls
<1> QED
  BY <1>1, <1>2, <1>3, <1>4, <1>5, <1>6, <1>7

(* Wait: wait() begins with a valid object nobody uses                     *)
(* (AsyncRequest.cpp:49-50).                                               *)
LEMMA WaitStep ==
  ASSUME IInv, NEW t \in Thread, Wait(t)
  PROVE  IInv'
<1> USE DEF IInv
<1>1. TypeOK'
  BY AsyncAssumption DEF TypeOK, Wait, Start, Goto, Free, impls, AsyncOp,
     OperandInv, Target
<1>2. OperandInv'
  BY AsyncAssumption DEF TypeOK, OperandInv, Wait, Start, Goto, Free, impls,
     Target
<1>3. ExclusiveInv'
  BY AsyncAssumption DEF TypeOK, ExclusiveInv, Wait, Start, Goto, Free, impls,
     OperandInv
<1>4. LocalInv'
  BY AsyncAssumption DEF TypeOK, LocalInv, Wait, Start, Goto, Free, impls,
     LiveInv, OperandInv
<1>5. LiveInv'
  BY AsyncAssumption DEF TypeOK, LiveInv, Wait, Start, Goto, Free, impls,
     OperandInv, Target
<1>6. DeliveredInv'
  BY AsyncAssumption DEF TypeOK, DeliveredInv, Wait, Start, Goto, Free, impls,
     Target, OperandInv
<1>7. KeptInv'
  BY AsyncAssumption DEF TypeOK, KeptInv, Pointed, Wait, Start, impls
<1> QED
  BY <1>1, <1>2, <1>3, <1>4, <1>5, <1>6, <1>7

(* Check: the test of unique() only chooses the next step                  *)
(* (AsyncRequest.cpp:25, 34, 42).                                          *)
LEMMA CheckStep ==
  ASSUME IInv, NEW t \in Thread, Check(t)
  PROVE  IInv'
<1> USE DEF IInv
<1>1. TypeOK'
  BY AsyncAssumption DEF TypeOK, Check, Step, Goto, impls, AsyncOp,
     OperandInv, Target
<1>2. OperandInv'
  BY AsyncAssumption DEF TypeOK, OperandInv, Check, Step, Goto, impls, Target
<1>3. ExclusiveInv'
  BY AsyncAssumption DEF TypeOK, ExclusiveInv, Check, Step, Goto, impls,
     OperandInv
<1>4. LocalInv'
  BY AsyncAssumption DEF TypeOK, LocalInv, Check, Step, Goto, impls, LiveInv,
     OperandInv
<1>5. LiveInv'
  BY AsyncAssumption DEF TypeOK, LiveInv, Check, Step, Goto, impls,
     OperandInv, Target
<1>6. DeliveredInv'
  BY AsyncAssumption DEF TypeOK, DeliveredInv, Check, Step, Goto, impls,
     Target, OperandInv
<1>7. KeptInv'
  BY AsyncAssumption DEF TypeOK, KeptInv, Pointed, Check, Step, impls
<1> QED
  BY <1>1, <1>2, <1>3, <1>4, <1>5, <1>6, <1>7

(* Test: wait() returns at once if m_waited is set (AsyncRequest.cpp:51).  *)
LEMMA TestStep ==
  ASSUME IInv, NEW t \in Thread, Test(t)
  PROVE  IInv'
<1> USE DEF IInv
<1>1. TypeOK'
  BY AsyncAssumption DEF TypeOK, Test, Step, Goto, Waited, Tell, impls,
     AsyncOp, OperandInv, Target
<1>2. OperandInv'
  BY AsyncAssumption DEF TypeOK, OperandInv, Test, Step, Goto, Waited, Tell,
     impls, Target
<1>3. ExclusiveInv'
  BY AsyncAssumption DEF TypeOK, ExclusiveInv, Test, Step, Goto, Waited, Tell,
     impls, OperandInv
<1>4. LocalInv'
  BY AsyncAssumption DEF TypeOK, LocalInv, Test, Step, Goto, Waited, Tell,
     impls, LiveInv, OperandInv
<1>5. LiveInv'
  BY AsyncAssumption DEF TypeOK, LiveInv, Test, Step, Goto, Waited, Tell,
     impls, OperandInv, Target
<1>6. DeliveredInv'
  BY AsyncAssumption DEF TypeOK, DeliveredInv, Test, Step, Goto, Waited, Tell,
     impls, Target, OperandInv
<1>7. KeptInv'
  BY AsyncAssumption DEF TypeOK, KeptInv, Pointed, Test, Step, impls
<1> QED
  BY <1>1, <1>2, <1>3, <1>4, <1>5, <1>6, <1>7

(* Deliver: the result is stored before m_waited is set                    *)
(* (PhonebookHandle.cpp:70-77).                                            *)
LEMMA DeliverStep ==
  ASSUME IInv, NEW t \in Thread, Deliver(t)
  PROVE  IInv'
<1> USE DEF IInv
<1>1. TypeOK'
  BY AsyncAssumption DEF TypeOK, Deliver, Step, Goto, impls, AsyncOp,
     OperandInv, Target
<1>2. OperandInv'
  BY AsyncAssumption DEF TypeOK, OperandInv, Deliver, Step, Goto, impls,
     Target
<1>3. ExclusiveInv'
  BY AsyncAssumption DEF TypeOK, ExclusiveInv, Deliver, Step, Goto, impls,
     OperandInv
<1>4. LocalInv'
  BY AsyncAssumption DEF TypeOK, LocalInv, Deliver, Step, Goto, impls,
     LiveInv, OperandInv
<1>5. LiveInv'
  BY AsyncAssumption DEF TypeOK, LiveInv, Deliver, Step, Goto, impls,
     OperandInv, Target
<1>6. DeliveredInv'
  BY AsyncAssumption DEF TypeOK, DeliveredInv, Deliver, Step, Goto, impls,
     Target, OperandInv
<1>7. KeptInv'
  BY AsyncAssumption DEF TypeOK, KeptInv, Pointed, Deliver, Step, impls
<1> QED
  BY <1>1, <1>2, <1>3, <1>4, <1>5, <1>6, <1>7

(***************************************************************************)
(* Collect: an AsyncRequestImpl that is pointed at stays; one that is not  *)
(* alive does not come to life.                                            *)
(***************************************************************************)
LEMMA CollectKeeps ==
  ASSUME TypeOK, Collect
  PROVE  /\ life' \in [Request -> {"unmade", "live", "freed"}]
         /\ \A r \in Request :
              life[r] = "live" /\ ((\E s \in Slot : self'[s] = r)
                                    \/ (\E t \in Thread : local'[t] = r))
                => life'[r] = "live"
         /\ \A r \in Request : life[r] # "live" => life'[r] = life[r]
  BY DEF TypeOK, Collect

(* Throw: an error ends the operation and drops computeSum's pointer       *)
(* (AsyncRequest.cpp:52).                                                  *)
LEMMA ThrowStep ==
  ASSUME IInv, NEW t \in Thread, Throw(t)
  PROVE  IInv'
<1> USE DEF IInv
<1>1. TypeOK'
  <2>1. life' \in [Request -> {"unmade", "live", "freed"}]
    BY CollectKeeps DEF Throw, TypeOK
  <2>2. told' \subseteq Request
    BY DEF Throw, Tell, Step, TypeOK, OperandInv, Target
  <2> QED
    BY <2>1, <2>2 DEF TypeOK, Throw, Step, Goto
<1>2. OperandInv'
  BY AsyncAssumption DEF TypeOK, OperandInv, Throw, Step, Goto, Tell, Collect,
     impls, Target
<1>3. ExclusiveInv'
  BY AsyncAssumption DEF TypeOK, ExclusiveInv, Throw, Step, Goto, Tell,
     Collect, impls, OperandInv
<1>4. LocalInv'
  BY AsyncAssumption DEF TypeOK, LocalInv, Throw, Step, Goto, Tell, Collect,
     impls, LiveInv, OperandInv
<1>5. LiveInv'
  BY AsyncAssumption DEF TypeOK, LiveInv, Throw, Step, Goto, Tell, Collect,
     impls, OperandInv, Target
<1>6. DeliveredInv'
  BY AsyncAssumption DEF TypeOK, DeliveredInv, Throw, Step, Goto, Tell,
     Collect, impls, Target, OperandInv
<1>7. KeptInv'
  BY AsyncAssumption DEF TypeOK, KeptInv, Pointed, Throw, Step, Collect,
     LocalInv, LiveInv, ExclusiveInv, OperandInv, impls
<1> QED
  BY <1>1, <1>2, <1>3, <1>4, <1>5, <1>6, <1>7

(* Mark: m_waited is set after the result was stored (AsyncRequest.cpp:53).*)
LEMMA MarkStep ==
  ASSUME IInv, NEW t \in Thread, Mark(t)
  PROVE  IInv'
<1> USE DEF IInv
<1>1. TypeOK'
  BY AsyncAssumption DEF TypeOK, Mark, Step, Goto, Waited, Tell, impls,
     AsyncOp, OperandInv, Target
<1>2. OperandInv'
  BY AsyncAssumption DEF TypeOK, OperandInv, Mark, Step, Goto, Waited, Tell,
     impls, Target
<1>3. ExclusiveInv'
  BY AsyncAssumption DEF TypeOK, ExclusiveInv, Mark, Step, Goto, Waited, Tell,
     impls, OperandInv
<1>4. LocalInv'
  BY AsyncAssumption DEF TypeOK, LocalInv, Mark, Step, Goto, Waited, Tell,
     impls, LiveInv, OperandInv
<1>5. LiveInv'
  BY AsyncAssumption DEF TypeOK, LiveInv, Mark, Step, Goto, Waited, Tell,
     impls, OperandInv, Target
<1>6. DeliveredInv'
  BY AsyncAssumption DEF TypeOK, DeliveredInv, Mark, Step, Goto, Waited, Tell,
     impls, Target, OperandInv
<1>7. KeptInv'
  BY AsyncAssumption DEF TypeOK, KeptInv, Pointed, Mark, Step, impls
<1> QED
  BY <1>1, <1>2, <1>3, <1>4, <1>5, <1>6, <1>7

(* Store: the new pointer is stored and what nobody points at is deleted   *)
(* (AsyncRequest.cpp:24-47).                                               *)
LEMMA StoreProperties ==
  ASSUME IInv, NEW t \in Thread, Store(t)
  PROVE  /\ dst[t] \in Slot /\ dst[t] # src[t]
         /\ op[t] \in {"copy", "move", "issue", "drop"}
         /\ IF op[t] \in {"copy", "move"} THEN src[t] \in Slot
                                         ELSE src[t] = Null
         /\ self' \in [Slot -> Request \cup {Null}]
         /\ self'[dst[t]] = IF op[t] \in {"copy", "move"} THEN self[src[t]]
                            ELSE IF op[t] = "issue" THEN local[t] ELSE Null
         /\ \A s \in Slot \ {dst[t], src[t]} : self'[s] = self[s]
         /\ src[t] # Null =>
              self'[src[t]] = IF op[t] = "move" THEN Null ELSE self[src[t]]
<1> USE DEF IInv, TypeOK
<1>1. /\ dst[t] \in Slot
      /\ op[t] \in {"copy", "move", "issue", "drop"}
      /\ IF op[t] \in {"copy", "move"}
         THEN src[t] \in Slot /\ self[dst[t]] # self[src[t]]
         ELSE src[t] = Null
  BY DEF Store, Step, OperandInv, AsyncOp
<1>2. dst[t] # src[t]
  BY <1>1, AsyncAssumption
<1>3. CASE op[t] = "copy"
  BY <1>1, <1>2, <1>3, AsyncAssumption DEF Store
<1>4. CASE op[t] = "move"
  BY <1>1, <1>2, <1>4, AsyncAssumption DEF Store
<1>5. CASE op[t] = "issue"
  BY <1>1, <1>2, <1>5, AsyncAssumption DEF Store
<1>6. CASE op[t] = "drop"
  BY <1>1, <1>2, <1>6, AsyncAssumption DEF Store
<1> QED
  BY <1>1, <1>3, <1>4, <1>5, <1>6

(* It keeps the invariant: the new pointer is one that is alive.           *)
LEMMA StoreStep ==
  ASSUME IInv, NEW t \in Thread, Store(t)
  PROVE  IInv'
<1> USE DEF IInv
<1>0. /\ dst[t] \in Slot /\ dst[t] # src[t]
      /\ op[t] \in {"copy", "move", "issue", "drop"}
      /\ IF op[t] \in {"copy", "move"} THEN src[t] \in Slot
                                      ELSE src[t] = Null
      /\ self' \in [Slot -> Request \cup {Null}]
      /\ self'[dst[t]] = IF op[t] \in {"copy", "move"} THEN self[src[t]]
                         ELSE IF op[t] = "issue" THEN local[t] ELSE Null
      /\ \A s \in Slot \ {dst[t], src[t]} : self'[s] = self[s]
      /\ src[t] # Null =>
           self'[src[t]] = IF op[t] = "move" THEN Null ELSE self[src[t]]
  BY StoreProperties
<1>1. /\ pc[t] = "store" /\ pc' = [pc EXCEPT ![t] = "idle"]
      /\ local' = [local EXCEPT ![t] = Null]
      /\ UNCHANGED <<m_waited, response, delivered, told, op, dst, src,
                     terminated>>
  BY DEF Store, Step, Goto
<1>2. /\ life' \in [Request -> {"unmade", "live", "freed"}]
      /\ \A r \in Request :
           life[r] = "live" /\ ((\E s \in Slot : self'[s] = r)
                                 \/ (\E u \in Thread : local'[u] = r))
             => life'[r] = "live"
  BY CollectKeeps DEF Store
<1>3. TypeOK'
  BY <1>0, <1>1, <1>2 DEF TypeOK
<1>4. \A u \in Thread \ {t} : pc[u] # "idle" =>
        /\ self'[dst[u]] = self[dst[u]]
        /\ src[u] # Null => self'[src[u]] = self[src[u]]
  BY <1>0, <1>1, AsyncAssumption DEF TypeOK, OperandInv, ExclusiveInv
<1>5. OperandInv'
  <2> SUFFICES ASSUME NEW u \in Thread, pc'[u] # "idle"
               PROVE  /\ dst'[u] \in Slot
                      /\ IF op'[u] \in {"copy", "move"}
                         THEN /\ src'[u] \in Slot
                              /\ self'[dst'[u]] # self'[src'[u]]
                         ELSE src'[u] = Null
                      /\ op'[u] = "wait" => pc'[u] \notin {"check", "store"}
                      /\ pc'[u] \in {"test", "receive", "mark"} =>
                           self'[dst'[u]] # Null
    BY DEF OperandInv, Target
  <2>1. u # t /\ pc'[u] = pc[u] /\ pc[u] # "idle"
    BY <1>1 DEF TypeOK
  <2>2. /\ self'[dst[u]] = self[dst[u]]
        /\ src[u] # Null => self'[src[u]] = self[src[u]]
    BY <1>4, <2>1
  <2> QED
    BY <1>1, <2>1, <2>2, AsyncAssumption DEF OperandInv, Target
<1>6. ExclusiveInv'
  BY <1>1 DEF TypeOK, ExclusiveInv
<1>7. LocalInv'
  <2> SUFFICES ASSUME NEW u \in Thread
               PROVE  /\ local'[u] # Null <=>
                           pc'[u] # "idle" /\ op'[u] = "issue"
                      /\ local'[u] # Null =>
                           /\ \A s \in Slot : self'[s] # local'[u]
                           /\ \A v \in Thread \ {u} : local'[v] # local'[u]
    BY DEF LocalInv
  <2>1. CASE u = t
    BY <1>1, <2>1 DEF TypeOK
  <2>2. CASE u # t
    <3>1. local'[u] = local[u] /\ pc'[u] = pc[u] /\ op'[u] = op[u]
      BY <1>1, <2>2 DEF TypeOK
    <3>2. ASSUME local[u] # Null, NEW s \in Slot
          PROVE  self'[s] # local[u]
      <4>1. /\ self[s] # local[u] /\ self[dst[t]] # local[u]
            /\ local[t] # local[u]
            /\ src[t] # Null => self[src[t]] # local[u]
        BY <1>0, <2>2, <3>2 DEF LocalInv
      <4>2. CASE s = dst[t]
        BY <1>0, <4>1, <4>2, <3>2, AsyncAssumption
      <4>3. CASE s = src[t]
        BY <1>0, <4>1, <4>3, <3>2, AsyncAssumption
      <4>4. CASE s \notin {dst[t], src[t]}
        BY <1>0, <4>1, <4>4
      <4> QED
        BY <4>2, <4>3, <4>4
    <3>3. ASSUME local[u] # Null, NEW v \in Thread \ {u}
          PROVE  local'[v] # local[u]
      BY <1>1, <3>3 DEF TypeOK, LocalInv
    <3> QED
      BY <3>1, <3>2, <3>3 DEF LocalInv
  <2> QED
    BY <2>1, <2>2
<1>8. LiveInv'
  <2>1. ASSUME NEW s \in Slot, self'[s] # Null
        PROVE  life'[self'[s]] = "live"
    <3>1. CASE s = dst[t]
      BY <1>0, <1>2, <2>1, <3>1, AsyncAssumption DEF TypeOK, LiveInv
    <3>2. CASE s = src[t]
      BY <1>0, <1>2, <2>1, <3>2, AsyncAssumption DEF TypeOK, LiveInv
    <3>3. CASE s \notin {dst[t], src[t]}
      BY <1>0, <1>2, <2>1, <3>3 DEF TypeOK, LiveInv
    <3> QED
      BY <3>1, <3>2, <3>3
  <2>2. ASSUME NEW u \in Thread, local'[u] # Null
        PROVE  life'[local'[u]] = "live"
    <3>1. u # t /\ local'[u] = local[u]
      BY <1>1, <2>2 DEF TypeOK
    <3> QED
      BY <1>2, <2>2, <3>1 DEF TypeOK, LiveInv
  <2> QED
    BY <2>1, <2>2 DEF LiveInv
<1>9. DeliveredInv'
  BY <1>1, <1>4 DEF TypeOK, DeliveredInv, OperandInv, Target
<1>10. KeptInv'
  BY DEF Store, Collect, TypeOK, KeptInv, Pointed
<1> QED
  BY <1>3, <1>5, <1>6, <1>7, <1>8, <1>9, <1>10

(* Arrive: a response changes nothing else.                                *)
LEMMA ArriveStep ==
  ASSUME IInv, NEW r \in Request, Arrive(r)
  PROVE  IInv'
<1>1. TypeOK'
  BY AsyncAssumption DEF IInv, TypeOK, Arrive, threads
<1>2. UNCHANGED <<self, m_waited, delivered, told, life, threads>>
  BY DEF Arrive
<1> QED
  BY <1>1, <1>2 DEF IInv, OperandInv, ExclusiveInv, LocalInv, LiveInv,
                    KeptInv, Pointed, DeliveredInv, Target, threads

-----------------------------------------------------------------------------
(* Theorems about any number of threads.                                   *)

(* Every step preserves IInv.                                              *)
LEMMA NextInv == IInv /\ [Next]_vars => IInv'
<1> SUFFICES ASSUME IInv, [Next]_vars PROVE IInv'
  OBVIOUS
<1>1. CASE UNCHANGED vars
  BY <1>1 DEF vars, impls, threads, IInv, TypeOK, OperandInv, ExclusiveInv,
     LocalInv, LiveInv, KeptInv, Pointed, DeliveredInv, Target
<1>2. ASSUME NEW t \in Thread, Operation(t) PROVE IInv'
  BY <1>2, ComputeSumStep, AssignStep, DestructStep, WaitStep DEF Operation
<1>3. ASSUME NEW t \in Thread, ThreadStep(t) PROVE IInv'
  BY <1>3, CheckStep, TestStep, DeliverStep, ThrowStep, MarkStep, StoreStep
     DEF ThreadStep
<1> QED
  BY <1>1, <1>2, <1>3, ArriveStep DEF Next

(* Invariance: IInv holds whatever the threads do with their requests.     *)
THEOREM Invariance == Spec => []IInv
  BY InitInv, NextInv, PTL DEF Spec

(***************************************************************************)
(* Delivers: whoever returns from wait() finds the result stored, or has   *)
(* an error, also if another thread waits for the same request: m_waited,  *)
(* which lets wait() return early, is set only after the callback has      *)
(* stored the result (AsyncRequest.cpp:49-54).                             *)
(***************************************************************************)
THEOREM Delivers == Spec => WaitDelivers
<1> DEFINE Ending(t) == op[t] = "wait" /\ pc[t] # "idle" /\ pc'[t] = "idle"
           Told(t) ==
             Target(t) \in delivered' \/ response[Target(t)] = "failed"
<1>1. IInv /\ [Next]_vars => [\A t \in Thread : Ending(t) => Told(t)]_vars
  <2> SUFFICES ASSUME IInv, Next, NEW t \in Thread, Ending(t)
               PROVE  Told(t)
    OBVIOUS
  <2>1. ASSUME NEW u \in Thread, Operation(u) PROVE FALSE
    BY <2>1 DEF Operation, ComputeSum, Assign, Destruct, Wait, Start, Goto,
       IInv, TypeOK
  <2>2. ASSUME NEW r \in Request, Arrive(r) PROVE FALSE
    BY <2>2 DEF Arrive, threads
  <2>3. ASSUME NEW u \in Thread, ThreadStep(u)
        PROVE  u = t /\ (Test(t) \/ Throw(t) \/ Mark(t) \/ Check(t)
                           \/ Deliver(t) \/ Store(t))
    BY <2>3 DEF ThreadStep, Check, Test, Deliver, Throw, Mark, Store, Waited,
       Goto, IInv, TypeOK
  <2>4. Target(t) \in Request
    BY DEF IInv, TypeOK, OperandInv, Target
  <2>5. CASE Test(t)
    BY <2>4, <2>5 DEF Test, Step, Goto, IInv, TypeOK, DeliveredInv
  <2>6. CASE Throw(t)
    BY <2>6 DEF Throw
  <2>7. CASE Mark(t)
    BY <2>7 DEF Mark, Step, IInv, DeliveredInv
  <2>8. CASE Check(t) \/ Deliver(t) \/ Store(t)
    BY <2>8 DEF Check, Deliver, Store, Step, Goto, IInv, TypeOK, OperandInv
  <2> QED
    BY <2>1, <2>2, <2>3, <2>5, <2>6, <2>7, <2>8 DEF Next
<1> QED
  BY <1>1, Invariance, PTL DEF Spec, WaitDelivers

-----------------------------------------------------------------------------
(* One thread, without errors.                                             *)

(* A client that has made no call has lost none.                           *)
LEMMA InitAlone == Init => AloneInv
  BY DEF Init, AloneInv, StoreInv, ReceiveInv, NoRequestLost

(***************************************************************************)
(* LastLetsGo: what a Store leaves behind was waited for: the pointer it   *)
(* overwrote was marked, or another AsyncRequest has it, too.              *)
(***************************************************************************)
LEMMA LastLetsGo ==
  ASSUME IInv, AloneInv, NEW t \in Thread, Store(t),
         NEW r \in Request, life[r] = "live", life'[r] # "live"
  PROVE  m_waited[r]
<1> USE DEF IInv
<1>1. /\ dst[t] \in Slot /\ dst[t] # src[t]
      /\ op[t] \in {"copy", "move", "issue", "drop"}
      /\ IF op[t] \in {"copy", "move"} THEN src[t] \in Slot
                                      ELSE src[t] = Null
      /\ self' \in [Slot -> Request \cup {Null}]
      /\ self'[dst[t]] = IF op[t] \in {"copy", "move"} THEN self[src[t]]
                         ELSE IF op[t] = "issue" THEN local[t] ELSE Null
      /\ \A s \in Slot \ {dst[t], src[t]} : self'[s] = self[s]
      /\ src[t] # Null =>
           self'[src[t]] = IF op[t] = "move" THEN Null ELSE self[src[t]]
  BY StoreProperties
<1>2. /\ \A s \in Slot : self'[s] # r
      /\ \A u \in Thread : local'[u] # r
      /\ local' = [local EXCEPT ![t] = Null] /\ pc[t] = "store"
  BY DEF Store, Step, Collect
<1>3. \A u \in Thread : local[u] # r
  <2>1. local[t] # r
    BY <1>1, <1>2, AsyncAssumption DEF LocalInv, OperandInv
  <2> QED
    BY <1>2, <2>1 DEF TypeOK
<1>4. \A s \in Slot \ {dst[t]} : self[s] # r
  <2> SUFFICES ASSUME NEW s \in Slot \ {dst[t]}, self[s] = r PROVE FALSE
    OBVIOUS
  <2>1. s = src[t]
    BY <1>1, <1>2
  <2>2. src[t] # Null /\ op[t] \in {"copy", "move"}
    BY <1>1, <2>1, AsyncAssumption
  <2> QED
    BY <1>1, <1>2, <2>1, <2>2
<1>5. Target(t) = r
  BY <1>3, <1>4 DEF KeptInv, Pointed, Target
<1>6. Unique(dst[t])
  BY <1>3, <1>4, <1>5 DEF Unique, Target
<1> QED
  BY <1>2, <1>5, <1>6, AsyncAssumption DEF AloneInv, StoreInv

(* AloneStep: a step of the only thread preserves AloneInv.                *)
LEMMA AloneStep ==
  ASSUME Alone, IInv, AloneInv, NEW t \in Thread, Operation(t) \/ ThreadStep(t)
  PROVE  AloneInv'
<1> USE DEF IInv, AloneInv
<1>0. Thread = {t}
  BY DEF Alone
<1>1. CASE ComputeSum(t)
  BY <1>0, <1>1 DEF TypeOK, ComputeSum, Start, Goto, StoreInv, ReceiveInv,
     NoRequestLost
<1>2. CASE Assign(t) \/ Destruct(t) \/ Wait(t)
  BY <1>0, <1>2 DEF TypeOK, Assign, Destruct, Wait, Start, Goto, impls,
     StoreInv, ReceiveInv, NoRequestLost
<1>3. CASE Check(t)
  BY <1>0, <1>3 DEF TypeOK, Check, Step, Goto, impls, StoreInv, ReceiveInv,
     Target, Unique, NoRequestLost
<1>4. CASE Test(t)
  BY <1>0, <1>4 DEF TypeOK, Test, Step, Goto, Waited, Tell, StoreInv,
     ReceiveInv, Target, NoRequestLost
<1>5. CASE Deliver(t)
  BY <1>0, <1>5 DEF TypeOK, Deliver, Step, Goto, StoreInv, ReceiveInv, Target,
     NoRequestLost
<1>6. CASE Throw(t)
  BY <1>6 DEF TypeOK, Throw, Step, OperandInv, Target
<1>7. CASE Mark(t)
  BY <1>0, <1>7 DEF TypeOK, Mark, Step, Goto, Waited, Tell, StoreInv,
     ReceiveInv, Target, OperandInv, NoRequestLost
<1>8. CASE Store(t)
  <2>1. /\ UNCHANGED <<m_waited, response, delivered, told>>
        /\ pc' = [pc EXCEPT ![t] = "idle"]
    BY <1>8 DEF Store, Goto
  <2>2. \A r \in Request : life'[r] = "freed" => m_waited[r]
    <3> SUFFICES ASSUME NEW r \in Request, life'[r] = "freed"
                 PROVE  m_waited[r]
      OBVIOUS
    <3>1. CASE life[r] = "live"
      BY <1>8, <3>1, LastLetsGo
    <3>2. CASE life[r] # "live"
      BY <1>8, <3>2 DEF Store, Collect, NoRequestLost
    <3> QED
      BY <3>1, <3>2
  <2> QED
    BY <1>0, <2>1, <2>2 DEF TypeOK, StoreInv, ReceiveInv, NoRequestLost,
       DeliveredInv
<1> QED
  BY <1>1, <1>2, <1>3, <1>4, <1>5, <1>6, <1>7, <1>8 DEF Operation, ThreadStep

(* AloneNext: so does every step when no request fails.                    *)
LEMMA AloneNext == Alone /\ IInv /\ AloneInv /\ [Next]_vars => AloneInv'
<1> SUFFICES ASSUME Alone, IInv, AloneInv, [Next]_vars PROVE AloneInv'
  OBVIOUS
<1>1. CASE UNCHANGED vars
  BY <1>1 DEF vars, impls, threads, AloneInv, StoreInv, ReceiveInv, Target,
     Unique, NoRequestLost
<1>2. ASSUME NEW r \in Request, Arrive(r) PROVE AloneInv'
  BY <1>2 DEF Arrive, threads, Alone, IInv, TypeOK, AloneInv, StoreInv,
     ReceiveInv, Target, Unique, NoRequestLost
<1> QED
  BY <1>1, <1>2, AloneStep DEF Next

(***************************************************************************)
(* AloneInvariance: for a single thread of which no request fails, AloneInv*)
(* holds in addition to IInv.                                              *)
(***************************************************************************)
THEOREM AloneInvariance == ASSUME Alone PROVE Spec => []AloneInv
<1>1. IInv /\ AloneInv /\ [Next]_vars => AloneInv'
  BY AloneNext
<1> QED
  BY <1>1, InitAlone, Invariance, PTL DEF Spec

(***************************************************************************)
(* NoneLost: for a single thread of which no request fails, no request is  *)
(* deleted before its response was received and its result delivered,      *)
(* however it copies, moves, assigns and destroys its AsyncRequests.       *)
(***************************************************************************)
THEOREM NoneLost == ASSUME Alone PROVE Spec => []NoRequestLost
<1>1. AloneInv => NoRequestLost
  BY DEF AloneInv
<1> QED
  BY <1>1, AloneInvariance, PTL

(***************************************************************************)
(* NoneLate: nor is a result stored once the caller was told of it: what   *)
(* is about to be received is not marked, and what was told is.            *)
(***************************************************************************)
THEOREM NoneLate == ASSUME Alone PROVE Spec => NoLateWrite
<1> DEFINE Late(t) ==
      pc[t] = "receive" /\ pc'[t] = "mark" => Target(t) \notin told
<1>1. IInv /\ AloneInv /\ [Next]_vars => [\A t \in Thread : Late(t)]_vars
  BY DEF AloneInv, ReceiveInv
<1> QED
  BY <1>1, Invariance, AloneInvariance, PTL DEF Spec, NoLateWrite

===============================================================================
