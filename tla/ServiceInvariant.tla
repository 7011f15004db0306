--------------------------- MODULE ServiceInvariant ---------------------------
(***************************************************************************)
(* The inductive invariant of Service: where the request or the response   *)
(* of every call is, and what the parts of the system know of a phonebook. *)
(***************************************************************************)
EXTENDS Service

(* Every caller has one answer at most, and none without a call.  What it  *)
(* names was open when the call was made, or closed already.               *)
CallInv ==
  /\ answer = [c \in Caller |-> answer[c]]
  /\ \A c \in Caller :
       /\ call[c].op = NoOp => Idle(c) /\ answer[c] = NoAnswer
       /\ call[c].op # "hello"
       /\ call[c].op \in MakeOp => call[c].id = NilUUID
       /\ call[c].op \in Op =>
            call[c].id \in begun[c] \cup closed \cup {NilUUID}

(* What anybody knows of was served at some time, and is served or closed. *)
ServedInv ==
  /\ open \cap closed = {}
  /\ known \subseteq open \cup closed
  /\ \A c \in Caller : begun[c] \subseteq open \cup closed
  /\ \A c \in Caller : handle[c] \in open \cup closed \cup {NilUUID, NoHandle}

(* The call of which m is the request still waits for its answer.          *)
Waited(m) ==
  /\ call[m.from] = [op |-> m.op, id |-> m.id, args |-> m.args]
  /\ answer[m.from] = NoAnswer

(* A call has one request, which is on its way or with one handler.        *)
RequestInv ==
  \A m \in requests : m.op # "hello" =>
    /\ Waited(m)
    /\ \A n \in requests : n.op # "hello" /\ n.from = m.from => n = m
    /\ \A h \in Handler : owed[h] # Nobody => owed[h].from # m.from

OwedInv ==
  \A h \in Handler :
    /\ owed[h] # Nobody =>
         /\ Waited(owed[h])
         /\ phase[h] # "idle" /\ op[h] = owed[h].op /\ op[h] # "hello"
         /\ \/ verdict[h] = "ok" /\ op[h] \in MakeOp
            \/ id[h] = owed[h].id
         /\ \A g \in Handler \ {h} :
              owed[g] # Nobody => owed[g].from # owed[h].from
    /\ phase[h] \in {"called", "admitted"} /\ op[h] # "hello" =>
         owed[h] # Nobody

(* What a handler has decided is true, and stays true until it is told.    *)
VerdictInv ==
  \A h \in Handler :
    /\ phase[h] # "decided" => verdict[h] = "none"
    /\ owed[h] # Nobody /\ phase[h] = "decided" =>
         LET known_then == begun[owed[h].from] IN
         \/ verdict[h] = "denied"
         \/ /\ op[h] \in MakeOp
            /\ \/ verdict[h] = "refused"
               \/ /\ verdict[h] = "ok"
                  /\ id[h] \in (open \cup closed) \ (known_then \cup known)
         \/ /\ op[h] \in RemoveOp /\ verdict[h] \in {"ok", "failed"}
            /\ id[h] \in known_then \cap closed
         \/ op[h] \in LookupOp /\ verdict[h] = "found" /\ id[h] \in known_then
         \/ op[h] \notin MakeOp /\ verdict[h] = "notfound" /\ id[h] \notin open

(* A new identifier is on its way to one caller.                           *)
Hands(h) == owed[h] # Nobody /\ verdict[h] = "ok" /\ op[h] \in MakeOp
Gets(c)  == call[c].op \in MakeOp /\ Succeeds(c)

GivenInv ==
  /\ \A g, h \in Handler : Hands(g) /\ Hands(h) /\ id[g] = id[h] => g = h
  /\ \A c \in Caller, h \in Handler :
       Gets(c) /\ Hands(h) => Reads(c, "value") # id[h]
  /\ \A c, d \in Caller :
       Gets(c) /\ Gets(d) /\ Reads(c, "value") = Reads(d, "value") => c = d

(***************************************************************************)
(* LinkInv: every call, its request, the handler that owes it an answer    *)
(* and that answer belong together (Admin.cpp, Client.cpp,                 *)
(* PhonebookHandle.cpp and the handlers of ProviderImpl.hpp).              *)
(***************************************************************************)
LinkInv ==
  /\ CallInv
  /\ ServedInv
  /\ RequestInv
  /\ OwedInv
  /\ VerdictInv
  /\ GivenInv

(***************************************************************************)
(* IInv: the functions of Admin, Client and PhonebookHandle, the network   *)
(* and the provider preserve all of this together.                         *)
(***************************************************************************)
IInv == TypeOK /\ LinkInv /\ Truthful /\ Valued /\ NoOrphan

===============================================================================
