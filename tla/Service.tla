------------------------------- MODULE Service --------------------------------
(***************************************************************************)
(* The service as its users see it: application threads that call Admin    *)
(* (src/src/Admin.cpp), Client (Client.cpp) and PhonebookHandle            *)
(* (PhonebookHandle.cpp), the network, and a provider.                     *)
(*                                                                         *)
(* The provider is PhonebookRegistry, which ProviderImpl implements.  Here *)
(* its RPCs come from requests that were sent, and the outcome travels     *)
(* back as a response.  A request may be dispatched any time after it was  *)
(* sent, in any order; sayHello waits for no response.  The outcome is a   *)
(* RequestResult, which the provider fills in and the caller reads.        *)
(***************************************************************************)
EXTENDS RequestResult

CONSTANTS
  Caller,      (* The application threads.                                 *)
  Used,        (* Bound: the RPCs that the callers make use of.            *)
  Stray,       (* Bound: the identifiers they name without having been     *)
               (* given them: UUID(), or none.                             *)
  BackendSays, (* What a backend's computeSum may return.                  *)
  Width,       (* The bits of an int32_t.                                  *)
  Addend,      (* Bound: the integers that the callers add.                *)
  NoHandle,    (* Stands for a PhonebookHandle that refers to nothing.     *)
  Nobody       (* Stands for the request of a handler that owes no answer. *)

Int32(width) == -(2 ^ (width - 1)) .. 2 ^ (width - 1) - 1

ASSUME ServiceAssumption ==
  /\ Used \subseteq Op
  /\ Stray \subseteq {NilUUID}
  /\ BackendSays \subseteq {"ok", "failed"}
  /\ BackendSays # {}
  /\ Width \in Nat \ {0}
  /\ Addend \subseteq Int32(Width)
  /\ NoHandle \notin UUID \cup {NilUUID}

VARIABLES
  open, closed, token,        (* The registry,                             *)
  phase, op, tok, id, verdict,(*   see PhonebookRegistry.                  *)
  owed,      (* The request to which a handler owes a response.            *)
  requests,  (* The requests on their way to the provider.                 *)
  call,      (* The request each caller waits for.                         *)
  answer,    (* The response that has come back for it, as it was sent.    *)
  handle,    (* The phonebook_id of the caller's PhonebookHandle.          *)
  known,     (* The identifiers the users have been given.                 *)
  begun      (* History: the phonebooks open when the call was made.       *)

provider == <<open, closed, token, phase, op, tok, id, verdict>>
network  == <<owed, requests>>
callers  == <<call, answer, handle, known, begun>>
vars     == <<provider, network, callers>>

Registry == INSTANCE PhonebookRegistry

-----------------------------------------------------------------------------

(* The arguments of computeSum, and of the other RPCs.                     *)
NoArgs == <<>>
Args == (Addend \X Addend) \cup {NoArgs}

Request ==
  [from : Caller, op : Op, token : Token, id : AnyUUID, args : Args]

ASSUME NobodyAssumption == Nobody \notin Request

(* A caller that runs none of these functions, and one without an answer.  *)
NoCall == [op |-> NoOp, id |-> NilUUID, args |-> NoArgs]
NoAnswer == <<>>

(* The RequestResult into which a caller reads the answer to an RPC,       *)
ResultType(o) ==
  IF o \in MakeOp THEN "UUID" ELSE IF o = "sum" THEN "int32_t" ELSE "bool"

(* and the one of which a handler sends the members.                       *)
ReplyType(o) ==
  IF o \in {"create", "open"} THEN "UUID"
  ELSE IF o \in {"close", "destroy", "check", "hello"} THEN "bool"
  ELSE "int32_t"

(* What can be read into a RequestResult<T>.                               *)
Archive(T) ==
  IF T = "bool" THEN BOOLEAN \X Error
  ELSE BOOLEAN \X Error
         \X (IF T = "UUID" THEN AnyUUID ELSE Int32(Width) \cup {Unset})

(* TypeOK: the types of the variables; the answer that a caller gets can   *)
(* be read into the RequestResult it expects, and users are only given     *)
(* identifiers that a successful response carried.                         *)
TypeOK ==
  /\ Registry!TypeOK
  /\ owed \in [Handler -> Request \cup {Nobody}]
  /\ requests \subseteq Request
  /\ call \in [Caller -> [op : Op \cup {NoOp}, id : AnyUUID, args : Args]]
  /\ \A c \in Caller :
       answer[c] \in {NoAnswer} \cup Archive(ResultType(call[c].op))
  /\ handle \in [Caller -> AnyUUID \cup {NoHandle}]
  /\ known \subseteq UUID
  /\ begun \in [Caller -> SUBSET UUID]

(* The identifiers of configured phonebooks can be read from getConfig.    *)
Init ==
  /\ Registry!Init
  /\ owed = [h \in Handler |-> Nobody]
  /\ requests = {}
  /\ call = [c \in Caller |-> NoCall]
  /\ answer = [c \in Caller |-> NoAnswer]
  /\ handle = [c \in Caller |-> NoHandle]
  /\ known = open
  /\ begun = [c \in Caller |-> {}]

-----------------------------------------------------------------------------
(* The callers.                                                            *)

Idle(c) == call[c] = NoCall

Message(c, o, t, i, a) ==
  [from |-> c, op |-> o, token |-> t, id |-> i, args |-> a]

(* rpc.on(ph)(...): the request is sent, and the caller waits.             *)
Send(c, o, t, i, a) ==
  /\ Idle(c)
  /\ o \in Used
  /\ requests' = requests \cup {Message(c, o, t, i, a)}
  /\ call' = [call EXCEPT ![c] = [op |-> o, id |-> i, args |-> a]]
  /\ begun' = [begun EXCEPT ![c] = open]
  /\ UNCHANGED <<provider, owed, answer, handle, known>>

(* Admin::createPhonebook and Admin::openPhonebook                         *)
MakePhonebook(c) ==
  \E o \in MakeOp, t \in Token : Send(c, o, t, NilUUID, NoArgs)

(* Mutant: the RPC of Admin was defined with disable_response().           *)
RemoveOneWay(c) ==
  /\ Idle(c)
  /\ \E o \in RemoveOp, t \in Token, i \in known \cup Stray :
       requests' = requests \cup {Message(c, o, t, i, NoArgs)}
  /\ UNCHANGED <<provider, owed, callers>>

(* Admin::closePhonebook and Admin::destroyPhonebook                       *)
RemovePhonebook(c) ==
  \E o \in RemoveOp, t \in Token, i \in known \cup Stray :
    Send(c, o, t, i, NoArgs)

(* Client::makePhonebookHandle with check = false returns at once.         *)
MakeHandle(c) ==
  /\ Idle(c)
  /\ \E i \in known \cup Stray : handle' = [handle EXCEPT ![c] = i]
  /\ UNCHANGED <<provider, network, call, answer, known, begun>>

(* Client::makePhonebookHandle with check = true.                          *)
CheckHandle(c) ==
  \E i \in known \cup Stray : Send(c, "check", NoToken, i, NoArgs)

(***************************************************************************)
(* PhonebookHandle::sayHello has no response and returns at once.  Bound:  *)
(* one hello is on its way at a time.                                      *)
(***************************************************************************)
SayHello(c) ==
  /\ Idle(c)
  /\ "hello" \in Used
  /\ handle[c] # NoHandle
  /\ \A m \in requests : m.op # "hello"
  /\ requests' =
       requests \cup {Message(c, "hello", NoToken, handle[c], NoArgs)}
  /\ UNCHANGED <<provider, owed, callers>>

(* PhonebookHandle::computeSum without a request object                    *)
ComputeSum(c) ==
  /\ handle[c] # NoHandle
  /\ \E x, y \in Addend : Send(c, "sum", NoToken, handle[c], <<x, y>>)

(* What the answer to a caller reads: success(), error() and value().      *)
Reads(c, f) ==
  LET T == ResultType(call[c].op) IN Get(T, Read(T, answer[c]), f)

Succeeds(c) == answer[c] # NoAnswer /\ Reads(c, "success")
Throws(c, text) ==
  answer[c] # NoAnswer /\ ~Reads(c, "success") /\ Reads(c, "error") = text

(* Mutant: a result's value is used before success is tested.              *)
ReturnValue(c) ==
  /\ answer[c] # NoAnswer
  /\ known' = IF call[c].op \in MakeOp THEN known \cup {Reads(c, "value")}
              ELSE known
  /\ handle' = IF call[c].op = "check" /\ Succeeds(c)
               THEN [handle EXCEPT ![c] = call[c].id] ELSE handle
  /\ call' = [call EXCEPT ![c] = NoCall]
  /\ answer' = [answer EXCEPT ![c] = NoAnswer]
  /\ begun' = [begun EXCEPT ![c] = {}]
  /\ UNCHANGED <<provider, network>>

(***************************************************************************)
(* The response is there: the function returns its value, or throws when   *)
(* success is not set; then the caller has neither handle nor identifier.  *)
(***************************************************************************)
Return(c) ==
  /\ answer[c] # NoAnswer
  /\ known' = IF call[c].op \in MakeOp /\ Succeeds(c)
              THEN known \cup {Reads(c, "value")} ELSE known
  /\ handle' = IF call[c].op = "check" /\ Succeeds(c)
               THEN [handle EXCEPT ![c] = call[c].id] ELSE handle
  /\ call' = [call EXCEPT ![c] = NoCall]
  /\ answer' = [answer EXCEPT ![c] = NoAnswer]
  /\ begun' = [begun EXCEPT ![c] = {}]
  /\ UNCHANGED <<provider, network>>

-----------------------------------------------------------------------------
(* The provider.                                                           *)

(* A request is dispatched to an idle handler; a hello is owed no answer.  *)
Dispatch(h, m) ==
  /\ Registry!Invoke(h)
  /\ op'[h] = m.op /\ tok'[h] = m.token /\ id'[h] = m.id
  /\ requests' = requests \ {m}
  /\ owed' = [owed EXCEPT ![h] = IF m.op = "hello" THEN Nobody ELSE m]
  /\ UNCHANGED callers

(* The handler checks the token and takes effect on the phonebooks.        *)
Work(h) ==
  /\ \/ Registry!Admit(h) \/ Registry!Deny(h)
     \/ Registry!Open(h) \/ Registry!Refuse(h)
     \/ Registry!Remove(h) \/ Registry!Find(h) \/ Registry!Miss(h)
  /\ UNCHANGED <<network, callers>>

(* Mutant: the difference.                                                 *)
SumsMinus(x, y) ==
  {Put("int32_t", New("int32_t"), "value", x - y)}

(* DummyPhonebook::computeSum.  x + y is undefined if it overflows.        *)
Sums(x, y) ==
  {Put("int32_t", New("int32_t"), "value", z) :
     z \in IF x + y \in Int32(Width) THEN {x + y} ELSE Int32(Width)}

(* What the backend that was found returns from computeSum.                *)
BackendSums(args) ==
  (IF "ok" \in BackendSays THEN Sums(args[1], args[2]) ELSE {})
  \cup (IF "failed" \in BackendSays THEN {Failed("int32_t", "failed")} ELSE {})

(* Mutant: success is set to true whatever was found.                      *)
OutcomeTrue(h) ==
  IF op[h] = "sum" /\ verdict[h] = "found" THEN BackendSums(owed[h].args)
  ELSE IF op[h] \in MakeOp THEN {Put("UUID", New("UUID"), "value", id[h])}
  ELSE {New(ReplyType(op[h]))}

(* Mutant: creating a phonebook fails after it was added to the map.       *)
OutcomeLate(h) ==
  IF op[h] = "sum" /\ verdict[h] = "found" THEN BackendSums(owed[h].args)
  ELSE IF op[h] \in MakeOp THEN {Failed("UUID", "refused")}
  ELSE IF verdict[h] \in {"ok", "found"} THEN {New(ReplyType(op[h]))}
  ELSE {Failed(ReplyType(op[h]), verdict[h])}

(***************************************************************************)
(* The result of a handler: a failure has its text; of a success only the  *)
(* value is set that there is, which for a bool is success.                *)
(***************************************************************************)
Outcome(h) ==
  LET T == ReplyType(op[h]) IN
  IF verdict[h] \notin {"ok", "found"} THEN {Failed(T, verdict[h])}
  ELSE CASE op[h] = "close"   -> {New(T)}
         [] op[h] = "destroy" -> {Put(T, New(T), "value", TRUE)}
         [] op[h] = "check"   -> {Put(T, New(T), "success", TRUE)}
         [] op[h] = "sum"     -> BackendSums(owed[h].args)
         [] OTHER             -> {Put(T, New(T), "value", id[h])}

(* The members of the result are sent to the caller.                       *)
SendResult(h) ==
  /\ \E result \in Outcome(h) :
       answer' = [answer EXCEPT ![owed[h].from] =
                                  Write(ReplyType(op[h]), result)]
  /\ owed' = [owed EXCEPT ![h] = Nobody]
  /\ UNCHANGED <<provider, requests, call, handle, known, begun>>

(* Mutant: closePhonebookRPC ends without req.respond(result).             *)
RespondButClose(h) ==
  phase[h] = "decided" /\ owed[h] # Nobody /\ op[h] # "close" /\ SendResult(h)

(* req.respond(result)                                                     *)
Respond(h) == phase[h] = "decided" /\ owed[h] # Nobody /\ SendResult(h)

Finish(h) ==
  /\ owed[h] = Nobody
  /\ Registry!Finish(h)
  /\ UNCHANGED <<network, callers>>

SetToken ==
  /\ Registry!SetToken
  /\ UNCHANGED <<network, callers>>

-----------------------------------------------------------------------------

CallerStep(c) ==
  \/ MakePhonebook(c) \/ RemovePhonebook(c)
  \/ MakeHandle(c) \/ CheckHandle(c)
  \/ SayHello(c) \/ ComputeSum(c)
  \/ Return(c)

HandlerStep(h) ==
  \/ \E m \in requests : Dispatch(h, m)
  \/ Work(h) \/ Respond(h) \/ Finish(h)

Next ==
  \/ SetToken
  \/ \E c \in Caller : CallerStep(c)
  \/ \E h \in Handler : HandlerStep(h)

Spec == Init /\ [][Next]_vars

(***************************************************************************)
(* Handlers run (Served of ProviderImpl), a response is delivered, and a   *)
(* request that waits for a handler gets one: margo makes a thread for     *)
(* each RPC, so that Handler bounds only how many run at once.             *)
(***************************************************************************)
Taken(c) ==
  \E h \in Handler, m \in requests :
    m.from = c /\ m.op = call[c].op /\ Dispatch(h, m)

Fairness ==
  /\ \A h \in Handler : WF_vars(Work(h) \/ Respond(h) \/ Finish(h))
  /\ \A c \in Caller : SF_vars(Taken(c)) /\ WF_vars(Return(c))

FairSpec == Spec /\ Fairness

-----------------------------------------------------------------------------
(* Properties.                                                             *)

(***************************************************************************)
(* Truthful: what a caller is told was so during its call.  A check, a sum *)
(* or a removal that succeeds named a phonebook that was open when the     *)
(* call was made, and none that somebody had been told was removed before; *)
(* one that is not found is not open any more; and a removal that was      *)
(* carried out, or failed after it was admitted, leaves nothing to serve   *)
(* (Client.cpp:57-68, Admin.cpp:75-90, PhonebookHandle.cpp:60-65).         *)
(***************************************************************************)
Truthful ==
  \A c \in Caller :
    LET o == call[c].op
        i == call[c].id
        removed == o \in RemoveOp /\ (Succeeds(c) \/ Throws(c, "failed"))
    IN  /\ removed \/ (o \in LookupOp /\ Succeeds(c)) => i \in begun[c]
        /\ removed => i \in closed
        /\ Throws(c, "notfound") => i \notin open

(***************************************************************************)
(* Valued: what a caller is given was set by the provider for this call:   *)
(* an identifier is that of a phonebook that was made during the call and  *)
(* nobody knew before, and a sum is the sum if it fits into an int32_t     *)
(* (Admin.cpp:48-52, PhonebookHandle.cpp:60-62, DummyBackend.cpp:25-29).   *)
(***************************************************************************)
Valued ==
  \A c \in Caller :
    Succeeds(c) =>
      /\ call[c].op \in MakeOp =>
           Reads(c, "value") \in (open \cup closed) \ (begun[c] \cup known)
      /\ call[c].op = "sum" =>
           LET sum == call[c].args[1] + call[c].args[2]
           IN  sum \in Int32(Width) => Reads(c, "value") = sum

(***************************************************************************)
(* NoOrphan: every phonebook that is served has been, or is about to be,   *)
(* made known to somebody who can close it: a creation that fails leaves   *)
(* nothing behind, and one that succeeds is answered with the identifier   *)
(* (ProviderImpl.hpp:124-168, Admin.cpp:48-52).                            *)
(***************************************************************************)
NoOrphan ==
  \A u \in open \ known :
    \/ \E c \in Caller :
         call[c].op \in MakeOp /\ Succeeds(c) /\ Reads(c, "value") = u
    \/ \E h \in Handler :
         owed[h] # Nobody /\ verdict[h] = "ok" /\ op[h] \in MakeOp /\ id[h] = u

(***************************************************************************)
(* AskedFor: no phonebook goes away unless a caller asked for exactly that *)
(* and is still waiting to be told; what others hold handles to stays      *)
(* until then (Admin.cpp:69-91).                                           *)
(***************************************************************************)
AskedFor ==
  [][\A u \in open \ open' : \E c \in Caller :
        call[c].op \in RemoveOp /\ call[c].id = u /\ answer[c] = NoAnswer]_vars

(***************************************************************************)
(* Answered: every function of Admin, Client and PhonebookHandle returns   *)
(* or throws.                                                              *)
(***************************************************************************)
Answered == \A c \in Caller : ~Idle(c) ~> Idle(c)

===============================================================================
