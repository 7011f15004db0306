----------------------------- MODULE AsyncRequest -----------------------------
(***************************************************************************)
(* The client's non-blocking computeSum (src/src/PhonebookHandle.cpp) and  *)
(* the AsyncRequest objects it hands out (src/src/AsyncRequest.cpp).       *)
(*                                                                         *)
(* AsyncRequest objects share an AsyncRequestImpl, which lives as long as  *)
(* one of them points at it.  Whoever lets the last one go, by destroying  *)
(* it or by assigning to it, first waits for the response.  One object is  *)
(* used by one thread at a time; copies of it may be used by others at the *)
(* same time.                                                              *)
(*                                                                         *)
(* A request that could be sent is answered in the end (ProviderImpl's     *)
(* Served); the answer may be an error.                                    *)
(***************************************************************************)

CONSTANTS
  Thread,     (* The threads of the client.                                *)
  Slot,       (* The AsyncRequest objects; one that was destroyed may be   *)
              (* constructed again.                                        *)
  Request,    (* The calls of computeSum, each with its AsyncRequestImpl.  *)
  Answers,    (* What may come back: a result, "ok", or an error.          *)
  Null        (* The pointer of an AsyncRequest that is not valid.         *)

ASSUME AsyncAssumption ==
  /\ Answers \subseteq {"ok", "failed"}
  /\ Null \notin Request \cup Slot

VARIABLES
  self,       (* The AsyncRequestImpl each AsyncRequest points at.         *)
  m_waited,   (* Whether a wait for the request has succeeded.             *)
  response,   (* The state of its m_async_response.                        *)
  delivered,  (* The requests whose result was stored for the caller.      *)
  told,       (* History: the requests whose outcome, result or error, a   *)
              (* call of wait() has told the caller.                       *)
  life,       (* The life of each AsyncRequestImpl.                        *)
  pc,         (* The next step of each thread,                             *)
  op,         (*   the operation it is in,                                 *)
  dst,        (*   the AsyncRequest that is operated on,                   *)
  src,        (*   the AsyncRequest it is assigned from, if any,           *)
  local,      (*   and computeSum's async_request_impl.                    *)
  terminated  (* A destructor threw: the process is gone.                  *)

impls   == <<m_waited, response, delivered, told, life>>
threads == <<pc, op, dst, src, local>>
vars    == <<self, impls, threads, terminated>>

AsyncOp == {"issue", "copy", "move", "drop", "wait"}

(* TypeOK: the types of the variables; in particular an AsyncRequest       *)
(* points at an AsyncRequestImpl or at nothing.                            *)
TypeOK ==
  /\ self      \in [Slot -> Request \cup {Null}]
  /\ m_waited  \in [Request -> BOOLEAN]
  /\ response  \in [Request -> {"unsent", "pending", "ok", "failed"}]
  /\ delivered \subseteq Request
  /\ told      \subseteq Request
  /\ life      \in [Request -> {"unmade", "live", "freed"}]
  /\ pc        \in [Thread -> {"idle", "check", "test", "receive", "mark",
                               "store"}]
  /\ op        \in [Thread -> AsyncOp]
  /\ dst       \in [Thread -> Slot \cup {Null}]
  /\ src       \in [Thread -> Slot \cup {Null}]
  /\ local     \in [Thread -> Request \cup {Null}]
  /\ terminated \in BOOLEAN

Init ==
  /\ self      = [s \in Slot |-> Null]
  /\ m_waited  = [r \in Request |-> FALSE]
  /\ response  = [r \in Request |-> "unsent"]
  /\ delivered = {}
  /\ told      = {}
  /\ life      = [r \in Request |-> "unmade"]
  /\ pc    = [t \in Thread |-> "idle"]
  /\ op    = [t \in Thread |-> "wait"]
  /\ dst   = [t \in Thread |-> Null]
  /\ src   = [t \in Thread |-> Null]
  /\ local = [t \in Thread |-> Null]
  /\ terminated = FALSE

-----------------------------------------------------------------------------
(* Helpers.                                                                *)

(* The request that thread t waits for, or lets go.                        *)
Target(t) == self[dst[t]]

(* self.unique(): no other AsyncRequest, and no computeSum, points at it.  *)
Unique(s) ==
  /\ \A q \in Slot \ {s} : self[q] # self[s]
  /\ \A t \in Thread : local[t] # self[s]

(* Nobody is operating on AsyncRequest s.                                  *)
Free(s) == \A t \in Thread : pc[t] # "idle" => s \notin {dst[t], src[t]}

(* An AsyncRequestImpl nobody points at any more is deleted.               *)
Collect ==
  life' = [r \in Request |->
             IF \/ life[r] # "live"
                \/ \E s \in Slot : self'[s] = r
                \/ \E t \in Thread : local'[t] = r
             THEN life[r] ELSE "freed"]

Goto(t, next) == pc' = [pc EXCEPT ![t] = next]

Start(t, o, s, q, first) ==
  /\ ~terminated
  /\ pc[t] = "idle"
  /\ Free(s)
  /\ op'  = [op EXCEPT ![t] = o]
  /\ dst' = [dst EXCEPT ![t] = s]
  /\ src' = [src EXCEPT ![t] = q]
  /\ Goto(t, first)
  /\ UNCHANGED terminated

Step(t, at) == ~terminated /\ pc[t] = at

-----------------------------------------------------------------------------
(* The operations.                                                         *)

(***************************************************************************)
(* computeSum with a non-null req: the RPC is sent first; the assignment   *)
(* *req = AsyncRequest(...) comes after, while the local shared pointer    *)
(* still points at the new request.                                        *)
(***************************************************************************)
ComputeSum(t) ==
  \E s \in Slot, r \in Request :
    /\ Start(t, "issue", s, Null, "check")
    /\ life[r] = "unmade"
    /\ life' = [life EXCEPT ![r] = "live"]
    /\ response' = [response EXCEPT ![r] = "pending"]
    /\ local' = [local EXCEPT ![t] = r]
    /\ UNCHANGED <<self, m_waited, delivered, told>>

(***************************************************************************)
(* operator= of both kinds, and the constructors, which assign to an       *)
(* object that is not valid.  Assigning an equal pointer does nothing.     *)
(***************************************************************************)
Assign(t) ==
  \E o \in {"copy", "move"}, s \in Slot, q \in Slot :
    /\ Start(t, o, s, q, "check")
    /\ Free(q)
    /\ self[s] # self[q]
    /\ UNCHANGED <<self, impls, local>>

Destruct(t) ==
  \E s \in Slot :
    /\ Start(t, "drop", s, Null, "check")
    /\ self[s] # Null
    /\ UNCHANGED <<self, impls, local>>

(* wait() on an invalid AsyncRequest throws and changes nothing.           *)
Wait(t) ==
  \E s \in Slot :
    /\ Start(t, "wait", s, Null, "test")
    /\ self[s] # Null
    /\ UNCHANGED <<self, impls, local>>

-----------------------------------------------------------------------------
(* Their steps.                                                            *)

(* Mutant: move assignment does not wait for what it overwrites.           *)
CheckNotMoves(t) ==
  /\ Step(t, "check")
  /\ Goto(t, IF Target(t) # Null /\ Unique(dst[t]) /\ op[t] # "issue"
             THEN "test" ELSE "store")
  /\ UNCHANGED <<self, impls, op, dst, src, local, terminated>>

(* if(self && self.unique()) wait();                                       *)
Check(t) ==
  /\ Step(t, "check")
  /\ Goto(t, IF Target(t) # Null /\ Unique(dst[t]) THEN "test" ELSE "store")
  /\ UNCHANGED <<self, impls, op, dst, src, local, terminated>>

(* Where a thread goes on when wait() has returned.                        *)
Waited(t) == Goto(t, IF op[t] = "wait" THEN "idle" ELSE "store")

Tell(t) == told' = IF op[t] = "wait" THEN told \cup {Target(t)} ELSE told

(* Mutant: m_waited is set before the callback instead of after it.        *)
TestAndSet(t) ==
  /\ Step(t, "test")
  /\ IF m_waited[Target(t)]
     THEN Waited(t) /\ Tell(t)
     ELSE Goto(t, "receive") /\ UNCHANGED told
  /\ m_waited' = [m_waited EXCEPT ![Target(t)] = TRUE]
  /\ UNCHANGED <<self, response, delivered, life, op, dst, src, local,
                 terminated>>

(* if(self->m_waited) return;                                              *)
Test(t) ==
  /\ Step(t, "test")
  /\ IF m_waited[Target(t)]
     THEN Waited(t) /\ Tell(t)
     ELSE Goto(t, "receive") /\ UNCHANGED told
  /\ UNCHANGED <<self, m_waited, response, delivered, life, op, dst, src,
                 local, terminated>>

(***************************************************************************)
(* The wait callback blocks until the response is there.  A result is      *)
(* stored for the caller.  Of thallium it is assumed that the wait() of an *)
(* async_response that was waited for already ends as the first did.       *)
(***************************************************************************)
Deliver(t) ==
  /\ Step(t, "receive")
  /\ response[Target(t)] = "ok"
  /\ delivered' = delivered \cup {Target(t)}
  /\ Goto(t, "mark")
  /\ UNCHANGED <<self, m_waited, response, told, life, op, dst, src, local,
                 terminated>>

(* Mutant: errors leave wait() only; elsewhere the callback is retried.    *)
ThrowFromWait(t) ==
  /\ Step(t, "receive")
  /\ op[t] = "wait"
  /\ response[Target(t)] = "failed"
  /\ Tell(t)
  /\ Goto(t, "idle")
  /\ UNCHANGED <<self, m_waited, response, delivered, life, op, dst, src,
                 local, terminated>>

(***************************************************************************)
(* An error is thrown: m_waited stays false.  It leaves wait() and the     *)
(* assignments, which then have not happened, and computeSum, whose new    *)
(* request goes away with its locals (the temporary AsyncRequest is not    *)
(* unique and does not wait); it may not leave a destructor.               *)
(***************************************************************************)
Throw(t) ==
  /\ Step(t, "receive")
  /\ response[Target(t)] = "failed"
  /\ Tell(t)
  /\ IF op[t] = "drop"
     THEN terminated' = TRUE /\ UNCHANGED <<pc, local, life>>
     ELSE /\ Goto(t, "idle")
          /\ local' = [local EXCEPT ![t] = Null]
          /\ self' = self /\ Collect
          /\ UNCHANGED terminated
  /\ UNCHANGED <<self, m_waited, response, delivered, op, dst, src>>

(* Mutant: nobody sets m_waited.                                           *)
MarkNothing(t) ==
  /\ Step(t, "mark")
  /\ Waited(t)
  /\ Tell(t)
  /\ UNCHANGED <<self, m_waited, response, delivered, life, op, dst, src,
                 local, terminated>>

(* self->m_waited = true, and the return.                                  *)
Mark(t) ==
  /\ Step(t, "mark")
  /\ m_waited' = [m_waited EXCEPT ![Target(t)] = TRUE]
  /\ Waited(t)
  /\ Tell(t)
  /\ UNCHANGED <<self, response, delivered, life, op, dst, src, local,
                 terminated>>

(* What the object points at from now on; its old pointer is let go.       *)
Store(t) ==
  /\ Step(t, "store")
  /\ self' = CASE op[t] = "copy"  -> [self EXCEPT ![dst[t]] = self[src[t]]]
               [] op[t] = "move"  -> [self EXCEPT ![dst[t]] = self[src[t]],
                                                  ![src[t]] = Null]
               [] op[t] = "issue" -> [self EXCEPT ![dst[t]] = local[t]]
               [] op[t] = "drop"  -> [self EXCEPT ![dst[t]] = Null]
  /\ local' = [local EXCEPT ![t] = Null]
  /\ Collect
  /\ Goto(t, "idle")
  /\ UNCHANGED <<m_waited, response, delivered, told, op, dst, src,
                 terminated>>

(* The response of a request, or the failure of its RPC, comes in.         *)
Arrive(r) ==
  /\ ~terminated
  /\ response[r] = "pending"
  /\ \E a \in Answers : response' = [response EXCEPT ![r] = a]
  /\ UNCHANGED <<self, m_waited, delivered, told, life, threads, terminated>>

-----------------------------------------------------------------------------

Operation(t) == ComputeSum(t) \/ Assign(t) \/ Destruct(t) \/ Wait(t)

ThreadStep(t) ==
  Check(t) \/ Test(t) \/ Deliver(t) \/ Throw(t) \/ Mark(t) \/ Store(t)

Next ==
  \/ \E t \in Thread : Operation(t) \/ ThreadStep(t)
  \/ \E r \in Request : Arrive(r)

Spec == Init /\ [][Next]_vars

(* A thread inside an operation goes on, and every request is answered.    *)
Fairness ==
  /\ \A t \in Thread : WF_vars(ThreadStep(t))
  /\ \A r \in Request : WF_vars(Arrive(r))

FairSpec == Spec /\ Fairness

-----------------------------------------------------------------------------
(* Properties.                                                             *)

(***************************************************************************)
(* WaitDelivers: a wait() that returns normally leaves the result in the   *)
(* caller's variable, even when another thread is waiting for the same     *)
(* request at the same time; otherwise it ends with an error.              *)
(***************************************************************************)
WaitDelivers ==
  [][\A t \in Thread :
       op[t] = "wait" /\ pc[t] # "idle" /\ pc'[t] = "idle" =>
         Target(t) \in delivered' \/ response[Target(t)] = "failed"]_vars

(***************************************************************************)
(* NoRequestLost: an AsyncRequestImpl is deleted only after its response   *)
(* was received and its result delivered: the last AsyncRequest to go      *)
(* waits.  It is for one thread and answers without error; two threads     *)
(* that let go of the last two copies at once may each see the other's.    *)
(***************************************************************************)
NoRequestLost ==
  \A r \in Request : life[r] = "freed" => m_waited[r] /\ r \in delivered

(***************************************************************************)
(* NoLateWrite: once a wait() has told the caller the outcome of a         *)
(* request, no later wait, destructor or assignment stores a result again: *)
(* the caller's variable may be out of scope by then.  It is for one       *)
(* thread; of two that wait at once the slower one stores the result last. *)
(***************************************************************************)
NoLateWrite ==
  [][\A t \in Thread :
       pc[t] = "receive" /\ pc'[t] = "mark" => Target(t) \notin told]_vars

(***************************************************************************)
(* NonBlocking: "If req is not null, this call will be non-blocking"       *)
(* (include/yp/PhonebookHandle.hpp:82-83): a thread in such a call of      *)
(* computeSum never waits for a response.                                  *)
(***************************************************************************)
NonBlocking ==
  \A t \in Thread :
    ~ /\ op[t] = "issue" /\ pc[t] = "receive"
      /\ response[Target(t)] = "pending"

(***************************************************************************)
(* ToldOnce: "the caller is responsible for waiting on the request"        *)
(* (include/yp/PhonebookHandle.hpp:83-84): a caller who has, and has been  *)
(* told of an error, is not terminated by the same error once more.        *)
(***************************************************************************)
ToldOnce ==
  terminated => \E t \in Thread : /\ op[t] = "drop" /\ pc[t] = "receive"
                                  /\ Target(t) \notin told

(***************************************************************************)
(* Ends: every operation on an AsyncRequest comes to an end, or ends the   *)
(* process.                                                                *)
(***************************************************************************)
Ends == \A t \in Thread : pc[t] # "idle" ~> pc[t] = "idle" \/ terminated

===============================================================================
