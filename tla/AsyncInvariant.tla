---------------------------- MODULE AsyncInvariant ----------------------------
(***************************************************************************)
(* The inductive invariants of AsyncRequest: what holds between any two    *)
(* steps of the client's threads, and what holds beside it when there is   *)
(* one thread and no error.                                                *)
(***************************************************************************)
EXTENDS AsyncRequest

(* What a thread operates on, in each operation and step.                  *)
OperandInv ==
  \A t \in Thread : pc[t] # "idle" =>
    /\ dst[t] \in Slot
    /\ IF op[t] \in {"copy", "move"}
       THEN src[t] \in Slot /\ self[dst[t]] # self[src[t]]
       ELSE src[t] = Null
    /\ op[t] = "wait" => pc[t] \notin {"check", "store"}
    /\ pc[t] \in {"test", "receive", "mark"} => Target(t) # Null

(* No AsyncRequest is operated on by two threads at once.                  *)
ExclusiveInv ==
  \A t, u \in Thread :
    t # u /\ pc[t] # "idle" /\ pc[u] # "idle" =>
      /\ dst[t] # dst[u]
      /\ src[t] # dst[u]
      /\ src[t] # Null => src[t] # src[u]

(* computeSum's pointer is there while it runs; nobody else has it yet.    *)
LocalInv ==
  \A t \in Thread :
    /\ local[t] # Null <=> pc[t] # "idle" /\ op[t] = "issue"
    /\ local[t] # Null =>
         /\ \A s \in Slot : self[s] # local[t]
         /\ \A u \in Thread \ {t} : local[u] # local[t]

(* A pointer points at an AsyncRequestImpl that is alive.                  *)
LiveInv ==
  /\ \A s \in Slot : self[s] # Null => life[self[s]] = "live"
  /\ \A t \in Thread : local[t] # Null => life[local[t]] = "live"

(* An AsyncRequestImpl that is alive is pointed at: none is leaked.        *)
Pointed(r) ==
  (\E s \in Slot : self[s] = r) \/ (\E t \in Thread : local[t] = r)

KeptInv == \A r \in Request : life[r] = "live" => Pointed(r)

(* What is marked as waited for was delivered.                             *)
DeliveredInv ==
  /\ \A r \in Request : m_waited[r] => r \in delivered
  /\ \A t \in Thread : pc[t] = "mark" => Target(t) \in delivered

(***************************************************************************)
(* IInv: the operations of AsyncRequest.cpp, in any number of threads,     *)
(* preserve all of this together.                                          *)
(***************************************************************************)
IInv ==
  /\ TypeOK
  /\ OperandInv
  /\ ExclusiveInv
  /\ LocalInv
  /\ LiveInv
  /\ KeptInv
  /\ DeliveredInv

-----------------------------------------------------------------------------
(* One thread, and no errors.                                              *)

Alone == (\A t, u \in Thread : t = u) /\ "failed" \notin Answers

(* Who overwrites a pointer has waited, or somebody else has it, too.      *)
StoreInv ==
  \A t \in Thread :
    pc[t] = "store" /\ Target(t) # Null =>
      m_waited[Target(t)] \/ ~Unique(dst[t])

(* A thread waits only for what was not waited for before.                 *)
ReceiveInv ==
  \A t \in Thread : pc[t] \in {"receive", "mark"} => ~m_waited[Target(t)]

(***************************************************************************)
(* AloneInv: one thread, without errors, tells the caller of a request     *)
(* only when it is marked, and loses none (AsyncRequest.cpp:24-55).        *)
(***************************************************************************)
AloneInv ==
  /\ StoreInv
  /\ ReceiveInv
  /\ \A r \in Request : response[r] # "failed"
  /\ \A r \in told : m_waited[r]
  /\ NoRequestLost

===============================================================================
