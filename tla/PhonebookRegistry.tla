-------------------------- MODULE PhonebookRegistry ---------------------------
(***************************************************************************)
(* What a yp provider promises, whatever its threads do: a registry of     *)
(* open phonebooks on which every RPC takes effect in ONE step between its *)
(* arrival and its completion.                                             *)
(*                                                                         *)
(*   - create and open add a phonebook under an identifier that no         *)
(*     phonebook has or ever had, or are refused and add nothing;          *)
(*   - close and destroy remove an open phonebook, or find none; a destroy *)
(*     that the backend reports as failed removes it all the same;         *)
(*   - check, hello and sum find an open phonebook, or find none;          *)
(*   - an Admin RPC has an effect only after its token was accepted.       *)
(*                                                                         *)
(* ProviderImpl implements this specification.                             *)
(***************************************************************************)
EXTENDS PhonebookRPC

VARIABLES
  open,      (* The phonebooks the provider serves.                        *)
  closed,    (* The phonebooks it served once.                             *)
  token,     (* The provider's security token.                             *)
  phase,     (* How far the RPC of each handler has come.                  *)
  op,        (* The RPC of each handler,                                   *)
  tok,       (*   the token and                                            *)
  id,        (*   the phonebook it names.                                  *)
  verdict    (* What the RPC came to.                                      *)

vars == <<open, closed, token, phase, op, tok, id, verdict>>

Phase   == {"idle", "called", "admitted", "decided"}
Verdict == {"none", "denied", "refused", "ok", "failed", "found", "notfound"}

(* TypeOK: the types of the variables.                                     *)
TypeOK ==
  /\ open   \subseteq UUID
  /\ closed \subseteq UUID
  /\ token   \in Token \cup {TornToken}
  /\ phase   \in [Handler -> Phase]
  /\ op      \in [Handler -> Op \cup {NoOp}]
  /\ tok     \in [Handler -> Token]
  /\ id      \in [Handler -> AnyUUID]
  /\ verdict \in [Handler -> Verdict]

Init ==
  /\ open \in SUBSET UUID
  /\ closed = {}
  /\ token = NoToken
  /\ phase = [h \in Handler |-> "idle"]
  /\ op  = [h \in Handler |-> NoOp]
  /\ tok = [h \in Handler |-> NoToken]
  /\ id  = [h \in Handler |-> NilUUID]
  /\ verdict = [h \in Handler |-> "none"]

Invoke(h) ==
  /\ phase[h] = "idle"
  /\ \E o \in Op, t \in Token, i \in AnyUUID :
       /\ op'  = [op EXCEPT ![h] = o]
       /\ tok' = [tok EXCEPT ![h] = t]
       /\ id'  = [id EXCEPT ![h] = i]
       /\ phase' = [phase EXCEPT ![h] =
                      IF o \in AdminOp THEN "called" ELSE "admitted"]
  /\ UNCHANGED <<open, closed, token, verdict>>

Admit(h) ==
  /\ phase[h] = "called"
  /\ MayAdmit(token, tok[h])
  /\ phase' = [phase EXCEPT ![h] = "admitted"]
  /\ UNCHANGED <<open, closed, token, op, tok, id, verdict>>

Deny(h) ==
  /\ phase[h] = "called"
  /\ MayRefuse(token, tok[h])
  /\ phase' = [phase EXCEPT ![h] = "decided"]
  /\ verdict' = [verdict EXCEPT ![h] = "denied"]
  /\ UNCHANGED <<open, closed, token, op, tok, id>>

-----------------------------------------------------------------------------
(* The step in which an admitted RPC takes effect.                         *)

Decide(h, v) ==
  /\ phase[h] = "admitted"
  /\ phase' = [phase EXCEPT ![h] = "decided"]
  /\ verdict' = [verdict EXCEPT ![h] = v]
  /\ UNCHANGED <<token, op, tok>>

Open(h) ==
  /\ op[h] \in MakeOp
  /\ \E u \in UUID \ (open \cup closed) :
       /\ open' = open \cup {u}
       /\ id' = [id EXCEPT ![h] = u]
  /\ Decide(h, "ok")
  /\ UNCHANGED closed

Refuse(h) ==
  /\ op[h] \in MakeOp
  /\ Decide(h, "refused")
  /\ UNCHANGED <<open, closed, id>>

Remove(h) ==
  /\ op[h] \in RemoveOp
  /\ id[h] \in open
  /\ open' = open \ {id[h]}
  /\ closed' = closed \cup {id[h]}
  /\ \/ Decide(h, "ok")
     \/ op[h] = "destroy" /\ Decide(h, "failed")
  /\ UNCHANGED id

Find(h) ==
  /\ op[h] \in LookupOp
  /\ id[h] \in open
  /\ Decide(h, "found")
  /\ UNCHANGED <<open, closed, id>>

Miss(h) ==
  /\ op[h] \notin MakeOp
  /\ id[h] \notin open
  /\ Decide(h, "notfound")
  /\ UNCHANGED <<open, closed, id>>

-----------------------------------------------------------------------------

Finish(h) ==
  /\ phase[h] = "decided"
  /\ phase' = [phase EXCEPT ![h] = "idle"]
  /\ op'  = [op EXCEPT ![h] = NoOp]
  /\ tok' = [tok EXCEPT ![h] = NoToken]
  /\ id'  = [id EXCEPT ![h] = NilUUID]
  /\ verdict' = [verdict EXCEPT ![h] = "none"]
  /\ UNCHANGED <<open, closed, token>>

SetToken ==
  /\ token' \in Token \cup {TornToken}
  /\ UNCHANGED <<open, closed, phase, op, tok, id, verdict>>

HandlerStep(h) ==
  \/ Invoke(h) \/ Admit(h) \/ Deny(h)
  \/ Open(h) \/ Refuse(h) \/ Remove(h) \/ Find(h) \/ Miss(h)
  \/ Finish(h)

Next == SetToken \/ \E h \in Handler : HandlerStep(h)

Spec == Init /\ [][Next]_vars

===============================================================================
