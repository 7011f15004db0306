---------------------------- MODULE ServiceProofs -----------------------------
(***************************************************************************)
(* Proofs about Service, for any number of callers, handlers, phonebooks   *)
(* and integers of any width: a RequestResult is read as it was written,   *)
(* and the inductive invariant IInv, from which follow type correctness,   *)
(* that callers are told the truth and given what was made for them, and   *)
(* that no phonebook is left alone or taken away unasked.                  *)
(***************************************************************************)
EXTENDS ServiceInvariant, TLAPS

-----------------------------------------------------------------------------
(* RequestResult.                                                          *)

(* The template arguments that the RPCs use.                               *)
ResultTypes == {"UUID", "int32_t", "bool"}

(***************************************************************************)
(* RoundTrip: what Write puts into an archive Read takes out of it, member *)
(* by member: serialize() is one function for both, and names no member    *)
(* twice (RequestResult.hpp:88-93, 137-141, 184-188).                      *)
(***************************************************************************)
LEMMA RoundTrip ==
  ASSUME NEW T \in ResultTypes \cup {"string"},
         NEW result,
         result =
           [m \in {Members(T)[i] : i \in DOMAIN Members(T)} |-> result[m]]
  PROVE  Read(T, Write(T, result)) = result
<1> DEFINE M == Members(T)
           A == Write(T, result)
           at(m) == CHOOSE i \in DOMAIN M : M[i] = m
<1>1. \A i, j \in DOMAIN M : M[i] = M[j] => i = j
  BY DEF Members, ResultTypes
<1>2. \A i \in DOMAIN M : A[i] = result[M[i]]
  BY DEF Write
<1>3. \A m \in {M[i] : i \in DOMAIN M} : at(m) \in DOMAIN M /\ M[at(m)] = m
  OBVIOUS
<1> HIDE DEF M, A, at
<1>4. \A m \in {M[i] : i \in DOMAIN M} : A[at(m)] = result[m]
  BY <1>2, <1>3
<1>5. Read(T, A) = [m \in {M[i] : i \in DOMAIN M} |-> A[at(m)]]
  BY DEF Read, M, at
<1>6. result = [m \in {M[i] : i \in DOMAIN M} |-> result[m]]
  BY DEF M
<1> QED
  BY <1>4, <1>5, <1>6 DEF A

(* The members of a result, as records of them are made by New and Put.    *)
MembersOf(T) ==
  IF T = "bool" THEN {"m_success", "m_error"}
  ELSE {"m_success", "m_error", "m_value"}

Results(T) ==
  {r \in [MembersOf(T) -> BOOLEAN \cup Error \cup AnyUUID \cup Int32(Width)
                            \cup {Unset}] :
     /\ r["m_success"] \in BOOLEAN
     /\ r["m_error"] \in Error
     /\ T = "UUID" => r["m_value"] \in AnyUUID
     /\ T = "int32_t" => r["m_value"] \in Int32(Width) \cup {Unset}}

(* Every such result is read as it was sent, into the type it was sent as. *)
LEMMA Received ==
  ASSUME NEW T \in ResultTypes, NEW r \in Results(T)
  PROVE  /\ Read(T, Write(T, r)) = r
         /\ Write(T, r) # NoAnswer
<1>1. {Members(T)[i] : i \in DOMAIN Members(T)} = MembersOf(T)
  BY DEF Members, MembersOf, ResultTypes
<1>2. r = [m \in MembersOf(T) |-> r[m]]
  BY DEF Results
<1>3. Write(T, r) # NoAnswer
  BY DEF Write, Members, ResultTypes, NoAnswer
<1> QED
  BY <1>1, <1>2, <1>3, RoundTrip

(* What is sent is what the caller's serialize() expects.                  *)
LEMMA Sendable ==
  ASSUME NEW T \in ResultTypes, NEW r \in Results(T)
  PROVE  Write(T, r) \in Archive(T)
<1>1. CASE T = "bool"
  <2>1. Members(T) = <<"m_success", "m_error">>
    BY <1>1 DEF Members
  <2>2. Write(T, r) = <<r["m_success"], r["m_error"]>>
    BY <2>1 DEF Write
  <2> QED
    BY <1>1, <2>2 DEF Results, Archive
<1>2. CASE T # "bool"
  <2>1. Members(T) = <<"m_success", "m_error", "m_value">>
    BY <1>2 DEF Members, ResultTypes
  <2>2. Write(T, r) = <<r["m_success"], r["m_error"], r["m_value"]>>
    BY <2>1 DEF Write
  <2> QED
    BY <1>2, <2>2 DEF Results, Archive, ResultTypes
<1> QED
  BY <1>1, <1>2

(* The answer to an RPC is read as what it was sent as.                    *)
LEMMA SameType ==
  ASSUME NEW o \in Op \ {"hello"}
  PROVE  ResultType(o) = ReplyType(o) /\ ReplyType(o) \in ResultTypes
  BY DEF ResultType, ReplyType, ResultTypes, Op, AdminOp, MakeOp, RemoveOp,
     LookupOp

(* A fresh RequestResult, and the one of a failure.                        *)
LEMMA NewResult ==
  ASSUME NEW T \in ResultTypes
  PROVE  /\ New(T) \in Results(T)
         /\ New(T)["m_success"] = TRUE /\ New(T)["m_error"] = NoError
<1>1. {Members(T)[i] : i \in DOMAIN Members(T)} = MembersOf(T)
  BY DEF Members, MembersOf, ResultTypes
<1>2. New(T) = [m \in MembersOf(T) |->
                  IF m = "m_success" THEN TRUE
                  ELSE IF m # "m_value" THEN NoError
                  ELSE IF T = "UUID" THEN NilUUID ELSE Unset]
  BY <1>1 DEF New
<1> QED
  BY <1>2 DEF Results, MembersOf, ResultTypes, Error, NoError, AnyUUID

(* A failure carries its text, and success is not set.                     *)
LEMMA FailedResult ==
  ASSUME NEW T \in ResultTypes, NEW text \in Error
  PROVE  /\ Failed(T, text) \in Results(T)
         /\ Failed(T, text)["m_success"] = FALSE
         /\ Failed(T, text)["m_error"] = text
<1>1. Failed(T, text) =
        [[New(T) EXCEPT !["m_success"] = FALSE] EXCEPT !["m_error"] = text]
  BY DEF Failed, Put, Accessors, Bool, Generic, ResultTypes
<1> QED
  BY <1>1, NewResult DEF Results, MembersOf

(* Accessors of the templates that the RPCs use.                           *)
LEMMA Access ==
  ASSUME NEW T \in ResultTypes, NEW r
  PROVE  /\ Get(T, r, "success") = r["m_success"]
         /\ Get(T, r, "error") = r["m_error"]
         /\ T # "bool" => Get(T, r, "value") = r["m_value"]
  BY DEF Get, Accessors, Bool, Generic, ResultTypes

(***************************************************************************)
(* Says: what the result r of handler h means: success is set only if the  *)
(* RPC had its effect or found its phonebook, and always if it had; else   *)
(* there is the text; a success has its value.                             *)
(***************************************************************************)
Says(h, r) ==
  /\ r \in Results(ReplyType(op[h]))
  /\ r["m_success"] => verdict[h] \in {"ok", "found"}
  /\ op[h] # "sum" /\ verdict[h] \in {"ok", "found"} => r["m_success"]
  /\ ~r["m_success"] =>
       \/ r["m_error"] = verdict[h]
       \/ op[h] = "sum" /\ r["m_error"] = "failed"
  /\ r["m_success"] /\ op[h] \in MakeOp => r["m_value"] = id[h]
  /\ r["m_success"] /\ op[h] = "sum" =>
       LET sum == owed[h].args[1] + owed[h].args[2]
       IN  sum \in Int32(Width) => r["m_value"] = sum

(* The results of computeSum (DummyBackend.cpp:25-29).                     *)
LEMMA BackendSumsSays ==
  ASSUME NEW args, NEW r \in BackendSums(args)
  PROVE  /\ r \in Results("int32_t")
         /\ ~r["m_success"] => r["m_error"] = "failed"
         /\ r["m_success"] /\ args[1] + args[2] \in Int32(Width) =>
              r["m_value"] = args[1] + args[2]
<1>1. CASE r \in Sums(args[1], args[2])
  <2>1. PICK z \in Int32(Width) :
          /\ r = Put("int32_t", New("int32_t"), "value", z)
          /\ args[1] + args[2] \in Int32(Width) => z = args[1] + args[2]
    BY <1>1 DEF Sums
  <2>2. r = [New("int32_t") EXCEPT !["m_value"] = z]
    BY <2>1 DEF Put, Accessors, Generic
  <2> HIDE DEF Int32
  <2> QED
    BY <2>1, <2>2, NewResult DEF Results, MembersOf, ResultTypes
<1>2. CASE r = Failed("int32_t", "failed")
  BY <1>2, FailedResult DEF ResultTypes, Error
<1> QED
  BY <1>1, <1>2 DEF BackendSums

(* Every result that a handler may send says so.                           *)
LEMMA OutcomeSays ==
  ASSUME TypeOK, NEW h \in Handler, op[h] \in Op \ {"hello"},
         verdict[h] # "none", NEW r \in Outcome(h),
         verdict[h] = "ok" => op[h] \in AdminOp,
         verdict[h] = "found" => op[h] \in LookupOp
  PROVE  Says(h, r)
<1> DEFINE T == ReplyType(op[h])
<1>1. T \in ResultTypes
  BY SameType
<1>2. verdict[h] \in Registry!Verdict /\ id[h] \in AnyUUID
  BY DEF TypeOK, Registry!TypeOK, Registry!AnyUUID, AnyUUID
<1>3. CASE verdict[h] \notin {"ok", "found"}
  <2>1. r = Failed(T, verdict[h]) /\ verdict[h] \in Error
    <3>1. r \in {Failed(T, verdict[h])}
      BY <1>3 DEF Outcome
    <3>2. verdict[h] \in Error
      BY <1>2, <1>3 DEF Registry!Verdict, Error
    <3> QED
      BY <3>1, <3>2
  <2> QED
    BY <1>1, <1>3, <2>1, FailedResult DEF Says
<1>4. CASE verdict[h] \in {"ok", "found"} /\ op[h] \in RemoveOp \cup {"check"}
  <2>1. T = "bool"
    BY <1>4 DEF ReplyType, RemoveOp
  <2>2. r = New(T) \/ r = [New(T) EXCEPT !["m_success"] = TRUE]
    BY <1>4, <2>1 DEF Outcome, Put, Accessors, Bool, RemoveOp
  <2> QED
    BY <1>1, <1>4, <2>1, <2>2, NewResult DEF Says, Results, MembersOf, MakeOp,
       RemoveOp
<1>5. CASE verdict[h] \in {"ok", "found"} /\ op[h] = "sum"
  <2>1. r \in BackendSums(owed[h].args) /\ T = "int32_t"
    BY <1>5 DEF Outcome, ReplyType
  <2> QED
    BY <1>5, <2>1, BackendSumsSays DEF Says, MakeOp
<1>6. CASE verdict[h] \in {"ok", "found"} /\ op[h] \in MakeOp
  <2>1. T = "UUID" /\ r = [New(T) EXCEPT !["m_value"] = id[h]]
    BY <1>6 DEF Outcome, ReplyType, MakeOp, Put, Accessors, Generic
  <2> QED
    BY <1>1, <1>2, <1>6, <2>1, NewResult DEF Says, Results, MembersOf, MakeOp
<1> QED
  BY <1>3, <1>4, <1>5, <1>6 DEF Op, AdminOp, LookupOp

-----------------------------------------------------------------------------
(* What a caller reads.                                                    *)

(* While a caller waits it reads the same answer, or none.                 *)
LEMMA Same ==
  ASSUME NEW c \in Caller, call'[c] = call[c], answer'[c] = answer[c]
  PROVE  /\ Succeeds(c)' <=> Succeeds(c)
         /\ \A text : Throws(c, text)' <=> Throws(c, text)
         /\ Reads(c, "value")' = Reads(c, "value")
         /\ Gets(c)' <=> Gets(c)
  BY DEF Succeeds, Throws, Reads, Gets

(* A caller without an answer has been told nothing,                       *)
LEMMA Silent ==
  ASSUME NEW c \in Caller, answer[c] = NoAnswer
  PROVE  ~Succeeds(c) /\ ~Gets(c) /\ \A text : ~Throws(c, text)
  BY DEF Succeeds, Throws, Gets

(*   neither before nor after a step.                                      *)
LEMMA SilentNext ==
  ASSUME NEW c \in Caller, answer'[c] = NoAnswer
  PROVE  ~Succeeds(c)' /\ ~Gets(c)' /\ \A text : ~Throws(c, text)'
  BY DEF Succeeds, Throws, Gets

(* The types of the registry, in the vocabulary of this module.            *)
ProviderTypes ==
  /\ open \subseteq UUID /\ closed \subseteq UUID
  /\ token \in Token \cup {TornToken}
  /\ phase \in [Handler -> {"idle", "called", "admitted", "decided"}]
  /\ op \in [Handler -> Op \cup {NoOp}]
  /\ tok \in [Handler -> Token]
  /\ id \in [Handler -> AnyUUID]
  /\ verdict \in [Handler -> {"none", "denied", "refused", "ok", "failed",
                              "found", "notfound"}]

(* They say the same as the registry's own,                                *)
LEMMA Types == TypeOK => ProviderTypes
  BY DEF TypeOK, ProviderTypes, Registry!TypeOK, Registry!Phase,
     Registry!Verdict, Registry!Op, Registry!AdminOp, Registry!MakeOp,
     Registry!RemoveOp, Registry!LookupOp, Registry!NoOp, Registry!AnyUUID,
     Op, AdminOp, MakeOp, RemoveOp, LookupOp, NoOp, AnyUUID

(*   before and after a step.                                              *)
LEMMA TypesNext == ProviderTypes' => Registry!TypeOK'
  BY DEF ProviderTypes, Registry!TypeOK, Registry!Phase,
     Registry!Verdict, Registry!Op, Registry!AdminOp, Registry!MakeOp,
     Registry!RemoveOp, Registry!LookupOp, Registry!NoOp, Registry!AnyUUID,
     Op, AdminOp, MakeOp, RemoveOp, LookupOp, NoOp, AnyUUID

-----------------------------------------------------------------------------
(* Steps of the provider.                                                  *)

(***************************************************************************)
(* The four kinds of steps that a handler makes between its request and    *)
(* its response: the token is accepted; the RPC is decided without effect; *)
(* a phonebook is opened; one is removed.                                  *)
(***************************************************************************)
Admits(h) ==
  /\ phase[h] \in {"called", "admitted"}
  /\ phase' = [phase EXCEPT ![h] = "admitted"]
  /\ UNCHANGED <<open, closed, id, verdict, token, op, tok, network, callers>>

Decides(h) ==
  /\ phase[h] \in {"called", "admitted"}
  /\ phase' = [phase EXCEPT ![h] = "decided"]
  /\ verdict' = [verdict EXCEPT ![h] = verdict'[h]]
  /\ UNCHANGED <<token, op, tok, network, callers>>

Settles(h) ==
  /\ Decides(h)
  /\ \/ verdict'[h] = "denied"
     \/ verdict'[h] = "refused" /\ op[h] \in MakeOp
     \/ verdict'[h] = "found" /\ op[h] \in LookupOp /\ id[h] \in open
     \/ verdict'[h] = "notfound" /\ op[h] \notin MakeOp /\ id[h] \notin open
  /\ UNCHANGED <<open, closed, id>>

Opens(h, u) ==
  /\ Decides(h)
  /\ verdict'[h] = "ok" /\ op[h] \in MakeOp
  /\ open' = open \cup {u}
  /\ id' = [id EXCEPT ![h] = u]
  /\ UNCHANGED closed

Removes(h) ==
  /\ Decides(h)
  /\ verdict'[h] \in {"ok", "failed"} /\ op[h] \in RemoveOp
  /\ id[h] \in open
  /\ open' = open \ {id[h]} /\ closed' = closed \cup {id[h]}
  /\ UNCHANGED id

(* Each step of the registry is of one of these kinds.                     *)
LEMMA WorkIs ==
  ASSUME TypeOK, NEW h \in Handler, Work(h)
  PROVE  \/ Admits(h)
         \/ Settles(h)
         \/ \E u \in UUID \ (open \cup closed) : Opens(h, u)
         \/ Removes(h)
<1>0. ProviderTypes
  BY Types
<1>1. CASE Registry!Admit(h)
  BY <1>1 DEF Work, Registry!Admit, Admits
<1>2. CASE Registry!Deny(h)
  BY <1>0, <1>2 DEF Work, Registry!Deny, Settles, Decides, ProviderTypes
<1>3. CASE Registry!Open(h)
  BY <1>0, <1>3 DEF Work, Registry!Open, Registry!Decide, Opens, Decides,
     ProviderTypes, Registry!MakeOp, MakeOp
<1>4. CASE Registry!Refuse(h)
  BY <1>0, <1>4 DEF Work, Registry!Refuse, Registry!Decide, Settles, Decides,
     ProviderTypes, Registry!MakeOp, MakeOp
<1>5. CASE Registry!Remove(h)
  BY <1>0, <1>5 DEF Work, Registry!Remove, Registry!Decide, Removes, Decides,
     ProviderTypes, Registry!RemoveOp, RemoveOp
<1>6. CASE Registry!Find(h)
  BY <1>0, <1>6 DEF Work, Registry!Find, Registry!Decide, Settles, Decides,
     ProviderTypes, Registry!LookupOp, LookupOp
<1>7. CASE Registry!Miss(h)
  BY <1>0, <1>7 DEF Work, Registry!Miss, Registry!Decide, Settles, Decides,
     ProviderTypes, Registry!MakeOp, MakeOp
<1> QED
  BY <1>1, <1>2, <1>3, <1>4, <1>5, <1>6, <1>7 DEF Work

(* What a handler works on is what its caller asked for.                   *)
LEMMA Asked ==
  ASSUME IInv, NEW h \in Handler, owed[h] # Nobody
  PROVE  /\ owed[h].from \in Caller
         /\ owed[h].op = op[h] /\ op[h] \in Op \ {"hello"}
         /\ call[owed[h].from].op = op[h]
         /\ call[owed[h].from].args = owed[h].args
         /\ answer[owed[h].from] = NoAnswer
         /\ op[h] \notin MakeOp =>
              /\ call[owed[h].from].id = id[h]
              /\ id[h] \in begun[owed[h].from] \cup closed \cup {NilUUID}
         /\ begun[owed[h].from] \subseteq open \cup closed
<1> USE DEF IInv, LinkInv
<1>1. owed[h] \in Request
  BY DEF TypeOK
<1>2. owed[h].from \in Caller /\ owed[h].op \in Op
  BY <1>1 DEF Request
<1>3. /\ Waited(owed[h]) /\ op[h] = owed[h].op /\ op[h] # "hello"
      /\ op[h] \notin MakeOp => id[h] = owed[h].id
  BY DEF OwedInv
<1> QED
  BY <1>2, <1>3 DEF Waited, CallInv, ServedInv

(* Admits: the token is accepted.                                          *)
LEMMA AdmitsStep ==
  ASSUME IInv, NEW h \in Handler, Admits(h)
  PROVE  IInv'
<1> USE DEF IInv, LinkInv
<1>0. ProviderTypes
  BY Types
<1>1. \A c \in Caller : /\ call'[c] = call[c] /\ answer'[c] = answer[c]
                        /\ begun'[c] = begun[c]
                        /\ Succeeds(c)' <=> Succeeds(c)
                        /\ \A text : Throws(c, text)' <=> Throws(c, text)
                        /\ Reads(c, "value")' = Reads(c, "value")
                        /\ Gets(c)' <=> Gets(c)
  BY Same DEF Admits, network, callers
<1>2. TypeOK'
  <2>1. ProviderTypes'
    BY <1>0, ValuesAssumption
       DEF Admits, network, callers, ProviderTypes, AnyUUID
  <2> QED
    BY <2>1, TypesNext DEF TypeOK, Admits, network, callers
<1>3. CallInv'
  BY <1>0, <1>1 DEF CallInv, Idle, Admits, network, callers
<1>4. ServedInv'
  BY <1>0, <1>1 DEF ServedInv, Admits, network, callers, ProviderTypes
<1>5. RequestInv'
  BY <1>0, <1>1 DEF RequestInv, Waited, Admits, network, callers
<1>6. OwedInv'
  BY <1>0, <1>1 DEF OwedInv, VerdictInv, Waited, MakeOp, RemoveOp, Admits,
     network, callers, ProviderTypes
<1>7. VerdictInv'
  BY <1>0, <1>1 DEF VerdictInv, OwedInv, CallInv, ServedInv, Waited, MakeOp,
     RemoveOp, LookupOp, Op, AdminOp, Admits, network, callers, ProviderTypes
<1>8. GivenInv'
  BY <1>0, <1>1 DEF GivenInv, Hands, OwedInv, VerdictInv, Valued, MakeOp,
     RemoveOp, Gets, Admits, network, callers, ProviderTypes
<1>9. Truthful'
  BY <1>0, <1>1 DEF Truthful, CallInv, ServedInv, MakeOp, RemoveOp, LookupOp,
     Op, AdminOp, Admits, network, callers, ProviderTypes
<1>10. Valued'
  BY <1>0, <1>1 DEF Valued, Admits, network, callers, ProviderTypes
<1>11. NoOrphan'
  BY <1>0, <1>1 DEF NoOrphan, OwedInv, ServedInv, VerdictInv, MakeOp, Admits,
     network, callers, ProviderTypes
<1> QED
  BY <1>2, <1>3, <1>4, <1>5, <1>6, <1>7, <1>8, <1>9, <1>10, <1>11

(* Settles: the RPC is decided and has no effect.                          *)
LEMMA SettlesStep ==
  ASSUME IInv, NEW h \in Handler, Settles(h)
  PROVE  IInv'
<1> USE DEF IInv, LinkInv
<1>0. ProviderTypes
  BY Types
<1>1. \A c \in Caller : /\ call'[c] = call[c] /\ answer'[c] = answer[c]
                        /\ begun'[c] = begun[c]
                        /\ Succeeds(c)' <=> Succeeds(c)
                        /\ \A text : Throws(c, text)' <=> Throws(c, text)
                        /\ Reads(c, "value")' = Reads(c, "value")
                        /\ Gets(c)' <=> Gets(c)
  BY Same DEF Settles, Decides, network, callers
<1>2. TypeOK'
  <2>1. ProviderTypes'
    BY <1>0, ValuesAssumption
       DEF Settles, Decides, network, callers, ProviderTypes, AnyUUID
  <2> QED
    BY <2>1, TypesNext DEF TypeOK, Settles, Decides, network, callers
<1>3. CallInv'
  BY <1>0, <1>1 DEF CallInv, Idle, Settles, Decides, network, callers
<1>4. ServedInv'
  BY <1>0, <1>1 DEF ServedInv, Settles, Decides, network, callers,
     ProviderTypes
<1>5. RequestInv'
  BY <1>0, <1>1 DEF RequestInv, Waited, Settles, Decides, network, callers
<1>6. OwedInv'
  BY <1>0, <1>1 DEF OwedInv, VerdictInv, Waited, MakeOp, RemoveOp, Settles,
     Decides, network, callers, ProviderTypes
<1>7. VerdictInv'
  <2> DEFINE V(g) ==
        /\ phase[g] # "decided" => verdict[g] = "none"
        /\ owed[g] # Nobody /\ phase[g] = "decided" =>
             \/ verdict[g] = "denied"
             \/ /\ op[g] \in MakeOp
                /\ \/ verdict[g] = "refused"
                   \/ /\ verdict[g] = "ok"
                      /\ id[g] \in (open \cup closed)
                                     \ (begun[owed[g].from] \cup known)
             \/ /\ op[g] \in RemoveOp /\ verdict[g] \in {"ok", "failed"}
                /\ id[g] \in begun[owed[g].from] \cap closed
             \/ /\ op[g] \in LookupOp /\ verdict[g] = "found"
                /\ id[g] \in begun[owed[g].from]
             \/ /\ op[g] \notin MakeOp /\ verdict[g] = "notfound"
                /\ id[g] \notin open
  <2>0. /\ owed' = owed /\ op' = op /\ begun' = begun /\ known' = known
        /\ phase' = [phase EXCEPT ![h] = "decided"]
    BY DEF Settles, Decides, network, callers
  <2>1. \A g \in Handler \ {h} : V(g)'
    <3> SUFFICES ASSUME NEW g \in Handler \ {h} PROVE V(g)'
      OBVIOUS
    <3>1. V(g)
      BY DEF VerdictInv
    <3>2. /\ phase'[g] = phase[g] /\ verdict'[g] = verdict[g]
          /\ id'[g] = id[g]
      BY <1>0 DEF Settles, Decides, network, callers, ProviderTypes
    <3>3. owed[g] # Nobody =>
            /\ begun[owed[g].from] \subseteq open \cup closed
            /\ op[g] \notin MakeOp =>
                 id[g] \in begun[owed[g].from] \cup closed \cup {NilUUID}
      BY Asked
    <3> QED
      BY <1>0, <2>0, <3>1, <3>2, <3>3, ValuesAssumption
         DEF Settles, Decides, network, callers, ServedInv
  <2>2. V(h)'
    <3>1. owed[h] # Nobody =>
            /\ begun[owed[h].from] \subseteq open \cup closed
            /\ op[h] \notin MakeOp =>
                 id[h] \in begun[owed[h].from] \cup closed \cup {NilUUID}
      BY Asked
    <3> QED
      BY <1>0, <2>0, <3>1, ValuesAssumption
         DEF Settles, Decides, network, callers, ServedInv,
             ProviderTypes, MakeOp, RemoveOp, LookupOp
  <2> QED
    BY <2>1, <2>2 DEF VerdictInv
<1>8. GivenInv'
  BY <1>0, <1>1 DEF GivenInv, Hands, OwedInv, VerdictInv, Valued, MakeOp,
     RemoveOp, Gets, Settles, Decides, network, callers, ProviderTypes
<1>9. Truthful'
  BY <1>0, <1>1 DEF Truthful, CallInv, ServedInv, MakeOp, RemoveOp, LookupOp,
     Op, AdminOp, Settles, Decides, network, callers, ProviderTypes
<1>10. Valued'
  BY <1>0, <1>1 DEF Valued, Settles, Decides, network, callers, ProviderTypes
<1>11. NoOrphan'
  BY <1>0, <1>1 DEF NoOrphan, OwedInv, ServedInv, VerdictInv, MakeOp,
     Settles, Decides, network, callers, ProviderTypes
<1> QED
  BY <1>2, <1>3, <1>4, <1>5, <1>6, <1>7, <1>8, <1>9, <1>10, <1>11

(* Opens: a phonebook is added under a new identifier.                     *)
LEMMA OpensStep ==
  ASSUME IInv, NEW h \in Handler, NEW u \in UUID \ (open \cup closed),
         Opens(h, u)
  PROVE  IInv'
<1> USE DEF IInv, LinkInv
<1>0. ProviderTypes
  BY Types
<1>1. \A c \in Caller : /\ call'[c] = call[c] /\ answer'[c] = answer[c]
                        /\ begun'[c] = begun[c]
                        /\ Succeeds(c)' <=> Succeeds(c)
                        /\ \A text : Throws(c, text)' <=> Throws(c, text)
                        /\ Reads(c, "value")' = Reads(c, "value")
                        /\ Gets(c)' <=> Gets(c)
  BY Same DEF Opens, Decides, network, callers
<1>2. TypeOK'
  <2>1. ProviderTypes'
    BY <1>0, ValuesAssumption
       DEF Opens, Decides, network, callers, ProviderTypes, AnyUUID
  <2> QED
    BY <2>1, TypesNext DEF TypeOK, Opens, Decides, network, callers
<1>3. CallInv'
  BY <1>0, <1>1 DEF CallInv, Idle, Opens, Decides, network, callers
<1>4. ServedInv'
  BY <1>0, <1>1 DEF ServedInv, Opens, Decides, network, callers,
     ProviderTypes
<1>5. RequestInv'
  BY <1>0, <1>1 DEF RequestInv, Waited, Opens, Decides, network, callers
<1>6. OwedInv'
  BY <1>0, <1>1 DEF OwedInv, VerdictInv, Waited, MakeOp, RemoveOp, Opens,
     Decides, network, callers, ProviderTypes
<1>7. VerdictInv'
  <2> DEFINE V(g) ==
        /\ phase[g] # "decided" => verdict[g] = "none"
        /\ owed[g] # Nobody /\ phase[g] = "decided" =>
             \/ verdict[g] = "denied"
             \/ /\ op[g] \in MakeOp
                /\ \/ verdict[g] = "refused"
                   \/ /\ verdict[g] = "ok"
                      /\ id[g] \in (open \cup closed)
                                     \ (begun[owed[g].from] \cup known)
             \/ /\ op[g] \in RemoveOp /\ verdict[g] \in {"ok", "failed"}
                /\ id[g] \in begun[owed[g].from] \cap closed
             \/ /\ op[g] \in LookupOp /\ verdict[g] = "found"
                /\ id[g] \in begun[owed[g].from]
             \/ /\ op[g] \notin MakeOp /\ verdict[g] = "notfound"
                /\ id[g] \notin open
  <2>0. /\ owed' = owed /\ op' = op /\ begun' = begun /\ known' = known
        /\ phase' = [phase EXCEPT ![h] = "decided"]
    BY DEF Opens, Decides, network, callers
  <2>1. \A g \in Handler \ {h} : V(g)'
    <3> SUFFICES ASSUME NEW g \in Handler \ {h} PROVE V(g)'
      OBVIOUS
    <3>1. V(g)
      BY DEF VerdictInv
    <3>2. /\ phase'[g] = phase[g] /\ verdict'[g] = verdict[g]
          /\ id'[g] = id[g]
      BY <1>0 DEF Opens, Decides, network, callers, ProviderTypes
    <3>3. owed[g] # Nobody =>
            /\ begun[owed[g].from] \subseteq open \cup closed
            /\ op[g] \notin MakeOp =>
                 id[g] \in begun[owed[g].from] \cup closed \cup {NilUUID}
      BY Asked
    <3> QED
      BY <1>0, <2>0, <3>1, <3>2, <3>3, ValuesAssumption
         DEF Opens, Decides, network, callers, ServedInv
  <2>2. V(h)'
    <3>1. owed[h] # Nobody =>
            /\ begun[owed[h].from] \subseteq open \cup closed
            /\ op[h] \notin MakeOp =>
                 id[h] \in begun[owed[h].from] \cup closed \cup {NilUUID}
      BY Asked
    <3> QED
      BY <1>0, <2>0, <3>1, ValuesAssumption
         DEF Opens, Decides, network, callers, ServedInv,
             ProviderTypes, MakeOp, RemoveOp, LookupOp
  <2> QED
    BY <2>1, <2>2 DEF VerdictInv
<1>8. GivenInv'
  BY <1>0, <1>1 DEF GivenInv, Hands, OwedInv, VerdictInv, Valued, MakeOp,
     RemoveOp, Gets, Opens, Decides, network, callers, ProviderTypes
<1>9. Truthful'
  <2>1. ASSUME NEW c \in Caller, answer[c] # NoAnswer
        PROVE  call[c].id # u
    <3>1. call[c].op \in Op
      BY <2>1 DEF TypeOK, CallInv
    <3>2. /\ call[c].id \in begun[c] \cup closed \cup {NilUUID}
          /\ begun[c] \subseteq open \cup closed
      BY <3>1 DEF CallInv, ServedInv
    <3> QED
      BY <3>2, ValuesAssumption
  <2>2. \A c \in Caller : \A text : Throws(c, text) => answer[c] # NoAnswer
    BY DEF Throws
  <2> QED
    BY <1>1, <2>1, <2>2 DEF Truthful, Opens, Decides
<1>10. Valued'
  BY <1>0, <1>1 DEF Valued, Opens, Decides, network, callers, ProviderTypes
<1>11. NoOrphan'
  BY <1>0, <1>1 DEF NoOrphan, OwedInv, ServedInv, VerdictInv, MakeOp, Opens,
     Decides, network, callers, ProviderTypes
<1> QED
  BY <1>2, <1>3, <1>4, <1>5, <1>6, <1>7, <1>8, <1>9, <1>10, <1>11

(* Removes: a phonebook is taken away.                                     *)
LEMMA RemovesStep ==
  ASSUME IInv, NEW h \in Handler, Removes(h)
  PROVE  IInv'
<1> USE DEF IInv, LinkInv
<1>0. ProviderTypes
  BY Types
<1>1. \A c \in Caller : /\ call'[c] = call[c] /\ answer'[c] = answer[c]
                        /\ begun'[c] = begun[c]
                        /\ Succeeds(c)' <=> Succeeds(c)
                        /\ \A text : Throws(c, text)' <=> Throws(c, text)
                        /\ Reads(c, "value")' = Reads(c, "value")
                        /\ Gets(c)' <=> Gets(c)
  BY Same DEF Removes, Decides, network, callers
<1>2. TypeOK'
  <2>1. ProviderTypes'
    BY <1>0, ValuesAssumption
       DEF Removes, Decides, network, callers, ProviderTypes, AnyUUID
  <2> QED
    BY <2>1, TypesNext DEF TypeOK, Removes, Decides, network, callers
<1>3. CallInv'
  BY <1>0, <1>1 DEF CallInv, Idle, Removes, Decides, network, callers
<1>4. ServedInv'
  BY <1>0, <1>1 DEF ServedInv, Removes, Decides, network, callers,
     ProviderTypes
<1>5. RequestInv'
  BY <1>0, <1>1 DEF RequestInv, Waited, Removes, Decides, network, callers
<1>6. OwedInv'
  BY <1>0, <1>1 DEF OwedInv, VerdictInv, Waited, MakeOp, RemoveOp, Removes,
     Decides, network, callers, ProviderTypes
<1>7. VerdictInv'
  <2> DEFINE V(g) ==
        /\ phase[g] # "decided" => verdict[g] = "none"
        /\ owed[g] # Nobody /\ phase[g] = "decided" =>
             \/ verdict[g] = "denied"
             \/ /\ op[g] \in MakeOp
                /\ \/ verdict[g] = "refused"
                   \/ /\ verdict[g] = "ok"
                      /\ id[g] \in (open \cup closed)
                                     \ (begun[owed[g].from] \cup known)
             \/ /\ op[g] \in RemoveOp /\ verdict[g] \in {"ok", "failed"}
                /\ id[g] \in begun[owed[g].from] \cap closed
             \/ /\ op[g] \in LookupOp /\ verdict[g] = "found"
                /\ id[g] \in begun[owed[g].from]
             \/ /\ op[g] \notin MakeOp /\ verdict[g] = "notfound"
                /\ id[g] \notin open
  <2>0. /\ owed' = owed /\ op' = op /\ begun' = begun /\ known' = known
        /\ phase' = [phase EXCEPT ![h] = "decided"]
    BY DEF Removes, Decides, network, callers
  <2>1. \A g \in Handler \ {h} : V(g)'
    <3> SUFFICES ASSUME NEW g \in Handler \ {h} PROVE V(g)'
      OBVIOUS
    <3>1. V(g)
      BY DEF VerdictInv
    <3>2. /\ phase'[g] = phase[g] /\ verdict'[g] = verdict[g]
          /\ id'[g] = id[g]
      BY <1>0 DEF Removes, Decides, network, callers, ProviderTypes
    <3>3. owed[g] # Nobody =>
            /\ begun[owed[g].from] \subseteq open \cup closed
            /\ op[g] \notin MakeOp =>
                 id[g] \in begun[owed[g].from] \cup closed \cup {NilUUID}
      BY Asked
    <3> QED
      BY <1>0, <2>0, <3>1, <3>2, <3>3, ValuesAssumption
         DEF Removes, Decides, network, callers, ServedInv
  <2>2. V(h)'
    <3>1. owed[h] # Nobody =>
            /\ begun[owed[h].from] \subseteq open \cup closed
            /\ op[h] \notin MakeOp =>
                 id[h] \in begun[owed[h].from] \cup closed \cup {NilUUID}
      BY Asked
    <3> QED
      BY <1>0, <2>0, <3>1, ValuesAssumption
         DEF Removes, Decides, network, callers, ServedInv,
             ProviderTypes, MakeOp, RemoveOp, LookupOp
  <2> QED
    BY <2>1, <2>2 DEF VerdictInv
<1>8. GivenInv'
  BY <1>0, <1>1 DEF GivenInv, Hands, OwedInv, VerdictInv, Valued, MakeOp,
     RemoveOp, Gets, Removes, Decides, network, callers, ProviderTypes
<1>9. Truthful'
  BY <1>0, <1>1 DEF Truthful, CallInv, ServedInv, MakeOp, RemoveOp, LookupOp,
     Op, AdminOp, Removes, Decides, network, callers, ProviderTypes
<1>10. Valued'
  BY <1>0, <1>1 DEF Valued, Removes, Decides, network, callers, ProviderTypes
<1>11. NoOrphan'
  BY <1>0, <1>1 DEF NoOrphan, OwedInv, ServedInv, VerdictInv, MakeOp,
     Removes, Decides, network, callers, ProviderTypes
<1> QED
  BY <1>2, <1>3, <1>4, <1>5, <1>6, <1>7, <1>8, <1>9, <1>10, <1>11

-----------------------------------------------------------------------------
(* Steps of the owner and of the callers.                                  *)

(* SetToken: nothing but the token changes (Provider.cpp:46-48).           *)
LEMMA SetTokenStep ==
  ASSUME IInv, SetToken
  PROVE  IInv'
<1> USE DEF IInv, LinkInv
<1>1. \A d \in Caller : /\ call'[d] = call[d] /\ answer'[d] = answer[d]
                        /\ begun'[d] = begun[d]
                        /\ Succeeds(d)' <=> Succeeds(d)
                        /\ \A text : Throws(d, text)' <=> Throws(d, text)
                        /\ Reads(d, "value")' = Reads(d, "value")
                        /\ Gets(d)' <=> Gets(d)
  BY Same DEF SetToken, Registry!SetToken, network, callers
<1>2. TypeOK'
  <2>1. ProviderTypes'
    BY Types DEF SetToken, Registry!SetToken, network, callers, ProviderTypes
  <2> QED
    BY <2>1, TypesNext
       DEF TypeOK, SetToken, Registry!SetToken, network, callers
<1>3. CallInv'
  BY <1>1 DEF CallInv, Idle, NoCall, SetToken, Registry!SetToken, network,
     callers
<1>4. ServedInv'
  BY <1>1 DEF ServedInv, SetToken, Registry!SetToken, network, callers
<1>5. RequestInv'
  BY <1>1 DEF RequestInv, Waited, SetToken, Registry!SetToken, network,
     callers
<1>6. OwedInv'
  BY <1>1 DEF OwedInv, Waited, SetToken, Registry!SetToken, network, callers
<1>7. VerdictInv'
  BY <1>1 DEF VerdictInv, SetToken, Registry!SetToken, network, callers
<1>8. GivenInv'
  BY <1>1 DEF GivenInv, Hands, SetToken, Registry!SetToken, network, callers
<1>9. Truthful'
  BY <1>1 DEF Truthful, SetToken, Registry!SetToken, network, callers
<1>10. Valued'
  BY <1>1 DEF Valued, SetToken, Registry!SetToken, network, callers
<1>11. NoOrphan'
  BY <1>1 DEF NoOrphan, SetToken, Registry!SetToken, network, callers
<1> QED
  BY <1>2, <1>3, <1>4, <1>5, <1>6, <1>7, <1>8, <1>9, <1>10, <1>11

(* MakeHandle: a handle to anything that is known (Client.cpp:62-64).      *)
LEMMA MakeHandleStep ==
  ASSUME IInv, NEW c \in Caller, MakeHandle(c)
  PROVE  IInv'
<1> USE DEF IInv, LinkInv
<1>1. \A d \in Caller : /\ call'[d] = call[d] /\ answer'[d] = answer[d]
                        /\ begun'[d] = begun[d]
                        /\ Succeeds(d)' <=> Succeeds(d)
                        /\ \A text : Throws(d, text)' <=> Throws(d, text)
                        /\ Reads(d, "value")' = Reads(d, "value")
                        /\ Gets(d)' <=> Gets(d)
  BY Same DEF MakeHandle, provider, network
<1>2. TypeOK'
  <2>1. known \subseteq UUID
    BY DEF TypeOK
  <2>2. Registry!TypeOK'
    BY Types, TypesNext DEF MakeHandle, provider, ProviderTypes
  <2> QED
    BY <2>1, <2>2, ServiceAssumption DEF MakeHandle, network, TypeOK, AnyUUID
<1>3. CallInv'
  BY <1>1 DEF CallInv, Idle, NoCall, MakeHandle, provider, network
<1>4. ServedInv'
  BY <1>1, ServiceAssumption
     DEF ServedInv, MakeHandle, provider, network, TypeOK, AnyUUID
<1>5. RequestInv'
  BY <1>1 DEF RequestInv, Waited, MakeHandle, provider, network
<1>6. OwedInv'
  BY <1>1 DEF OwedInv, Waited, MakeHandle, provider, network
<1>7. VerdictInv'
  BY <1>1 DEF VerdictInv, MakeHandle, provider, network
<1>8. GivenInv'
  BY <1>1 DEF GivenInv, Hands, MakeHandle, provider, network
<1>9. Truthful'
  BY <1>1 DEF Truthful, MakeHandle, provider, network
<1>10. Valued'
  BY <1>1 DEF Valued, MakeHandle, provider, network
<1>11. NoOrphan'
  BY <1>1 DEF NoOrphan, MakeHandle, provider, network
<1> QED
  BY <1>2, <1>3, <1>4, <1>5, <1>6, <1>7, <1>8, <1>9, <1>10, <1>11

(* SayHello: nobody waits for a hello (PhonebookHandle.cpp:42-48).         *)
LEMMA SayHelloStep ==
  ASSUME IInv, NEW c \in Caller, SayHello(c)
  PROVE  IInv'
<1> USE DEF IInv, LinkInv
<1>1. \A d \in Caller : /\ call'[d] = call[d] /\ answer'[d] = answer[d]
                        /\ begun'[d] = begun[d]
                        /\ Succeeds(d)' <=> Succeeds(d)
                        /\ \A text : Throws(d, text)' <=> Throws(d, text)
                        /\ Reads(d, "value")' = Reads(d, "value")
                        /\ Gets(d)' <=> Gets(d)
  BY Same DEF SayHello, provider, callers, Message
<1>2. TypeOK'
  <2>1. Message(c, "hello", NoToken, handle[c], NoArgs) \in Request
    BY ValuesAssumption DEF SayHello, TypeOK, Message, Request, AnyUUID, Args,
       Op, LookupOp
  <2>2. Registry!TypeOK'
    BY Types, TypesNext DEF SayHello, provider, ProviderTypes
  <2> QED
    BY <2>1, <2>2 DEF SayHello, callers, TypeOK
<1>3. CallInv'
  BY <1>1 DEF CallInv, Idle, NoCall, SayHello, provider, callers, Message
<1>4. ServedInv'
  BY <1>1 DEF ServedInv, SayHello, provider, callers, Message
<1>5. RequestInv'
  BY <1>1 DEF RequestInv, Waited, SayHello, provider, callers, Message
<1>6. OwedInv'
  BY <1>1 DEF OwedInv, Waited, SayHello, provider, callers, Message
<1>7. VerdictInv'
  BY <1>1 DEF VerdictInv, SayHello, provider, callers, Message
<1>8. GivenInv'
  BY <1>1 DEF GivenInv, Hands, SayHello, provider, callers, Message
<1>9. Truthful'
  BY <1>1 DEF Truthful, SayHello, provider, callers, Message
<1>10. Valued'
  BY <1>1 DEF Valued, SayHello, provider, callers, Message
<1>11. NoOrphan'
  BY <1>1 DEF NoOrphan, SayHello, provider, callers, Message
<1> QED
  BY <1>2, <1>3, <1>4, <1>5, <1>6, <1>7, <1>8, <1>9, <1>10, <1>11

(***************************************************************************)
(* Send: who waits for nothing sends a request, and then waits for its     *)
(* answer (Admin.cpp:46-48, Client.cpp:57-61, PhonebookHandle.cpp:58-60).  *)
(***************************************************************************)
LEMMA SendStep ==
  ASSUME IInv, NEW c \in Caller, NEW o \in Op \ {"hello"}, NEW t \in Token,
         NEW i \in open \cup closed \cup {NilUUID}, NEW a \in Args, o \in
         MakeOp => i = NilUUID, Send(c, o, t, i, a)
  PROVE  IInv'
<1> USE DEF IInv, LinkInv
<1>1. \A d \in Caller \ {c} : /\ call'[d] = call[d] /\ answer'[d] = answer[d]
                              /\ begun'[d] = begun[d]
                              /\ Succeeds(d)' <=> Succeeds(d)
                              /\ \A text : Throws(d, text)' <=> Throws(d, text)
                              /\ Reads(d, "value")' = Reads(d, "value")
                              /\ Gets(d)' <=> Gets(d)
  BY Same DEF Send, provider, TypeOK
<1>0. /\ Message(c, o, t, i, a) \in Request
      /\ answer' = answer /\ answer[c] = NoAnswer
      /\ call[c].op = NoOp
      /\ call' = [call EXCEPT ![c] = [op |-> o, id |-> i, args |-> a]]
      /\ begun' = [begun EXCEPT ![c] = open]
      /\ requests' = requests \cup {Message(c, o, t, i, a)}
      /\ UNCHANGED <<provider, owed, handle, known>>
  <2>1. open \subseteq UUID /\ closed \subseteq UUID
    BY Types DEF ProviderTypes
  <2>2. Message(c, o, t, i, a) \in Request
    BY <2>1 DEF Message, Request, AnyUUID
  <2>3. call[c].op = NoOp
    BY DEF Send, Idle, NoCall
  <2> QED
    BY <2>2, <2>3 DEF Send, CallInv
<1>12. /\ ~Succeeds(c) /\ ~Gets(c)
       /\ ~Succeeds(c)' /\ ~Gets(c)' /\ \A text : ~Throws(c, text)'
  BY <1>0, Silent, SilentNext
<1>13. /\ \A m \in requests : m.op # "hello" => m.from # c
       /\ \A h \in Handler : owed[h] # Nobody => owed[h].from # c
  <2>1. NoOp \notin Op
    BY DEF NoOp, Op, AdminOp, MakeOp, RemoveOp, LookupOp
  <2>2. \A m \in Request : m.op \in Op /\ m.from \in Caller
    BY DEF Request
  <2>3. ASSUME NEW m \in requests, m.op # "hello" PROVE m.from # c
    <3>1. call[m.from].op = m.op
      <4>1. Waited(m)
        BY <2>3 DEF RequestInv
      <4> QED
        BY <4>1 DEF Waited
    <3> QED
      BY <1>0, <2>1, <2>2, <3>1 DEF TypeOK
  <2>4. ASSUME NEW h \in Handler, owed[h] # Nobody PROVE owed[h].from # c
    BY <1>0, <2>1, <2>4, Asked
  <2> QED
    BY <2>3, <2>4
<1>2. TypeOK'
  <2>1. Registry!TypeOK'
    BY <1>0, Types, TypesNext DEF provider, ProviderTypes
  <2>2. call'[c] = [op |-> o, id |-> i, args |-> a]
    BY <1>0 DEF TypeOK
  <2>3. i \in AnyUUID /\ open \subseteq UUID
    BY Types DEF ProviderTypes, AnyUUID
  <2> QED
    BY <1>0, <1>1, <2>1, <2>3 DEF TypeOK
<1>3. CallInv'
  BY <1>0, <1>1, <1>12, <1>13 DEF CallInv, Idle, TypeOK, provider, NoOp, Op,
     AdminOp, MakeOp, RemoveOp, LookupOp
<1>4. ServedInv'
  BY <1>0, <1>1, <1>12, <1>13 DEF ServedInv, provider, TypeOK
<1>5. RequestInv'
  BY <1>0, <1>1, <1>12, <1>13 DEF RequestInv, Waited, provider, TypeOK,
     Message, Request
<1>6. OwedInv'
  BY <1>0, <1>1, <1>12, <1>13 DEF OwedInv, Waited, provider, TypeOK, Message,
     Request
<1>7. VerdictInv'
  BY <1>0, <1>1, <1>12, <1>13 DEF VerdictInv, TypeOK, provider, Request
<1>8. GivenInv'
  BY <1>0, <1>1, <1>12, <1>13 DEF GivenInv, Hands, provider, TypeOK
<1>9. Truthful'
  BY <1>0, <1>1, <1>12, <1>13 DEF Truthful, provider, TypeOK
<1>10. Valued'
  BY <1>0, <1>1, <1>12, <1>13 DEF Valued, provider, TypeOK
<1>11. NoOrphan'
  BY <1>0, <1>1, <1>12, <1>13 DEF NoOrphan, provider, TypeOK
<1> QED
  BY <1>2, <1>3, <1>4, <1>5, <1>6, <1>7, <1>8, <1>9, <1>10, <1>11

(***************************************************************************)
(* Return: a call returns, and its caller knows the identifier it was      *)
(* given (Admin.cpp:48-52, Client.cpp:57-69).                              *)
(***************************************************************************)
LEMMA ReturnStep ==
  ASSUME IInv, NEW c \in Caller, Return(c)
  PROVE  IInv'
<1> USE DEF IInv, LinkInv
<1>1. \A d \in Caller \ {c} : /\ call'[d] = call[d] /\ answer'[d] = answer[d]
                              /\ begun'[d] = begun[d]
                              /\ Succeeds(d)' <=> Succeeds(d)
                              /\ \A text : Throws(d, text)' <=> Throws(d, text)
                              /\ Reads(d, "value")' = Reads(d, "value")
                              /\ Gets(d)' <=> Gets(d)
  BY Same DEF Return, provider, network, TypeOK, CallInv
<1>0. /\ answer[c] # NoAnswer /\ answer'[c] = NoAnswer
      /\ answer' = [answer EXCEPT ![c] = NoAnswer]
      /\ call' = [call EXCEPT ![c] = NoCall] /\ call'[c] = NoCall
      /\ begun' = [begun EXCEPT ![c] = {}] /\ begun'[c] = {}
      /\ known' = IF Gets(c) THEN known \cup {Reads(c, "value")} ELSE known
      /\ UNCHANGED <<provider, network>>
  BY DEF Return, TypeOK, CallInv, Gets
<1>12. /\ ~Succeeds(c)' /\ ~Gets(c)' /\ \A text : ~Throws(c, text)'
  BY <1>0, SilentNext
<1>13. /\ \A m \in requests : m.op # "hello" => m.from # c
       /\ \A h \in Handler : owed[h] # Nobody => owed[h].from # c
  <2>1. ASSUME NEW m \in requests, m.op # "hello" PROVE m.from # c
    <3>1. Waited(m)
      BY <2>1 DEF RequestInv
    <3> QED
      BY <1>0, <3>1 DEF Waited
  <2>2. ASSUME NEW h \in Handler, owed[h] # Nobody PROVE owed[h].from # c
    BY <1>0, <2>2, Asked
  <2> QED
    BY <2>1, <2>2
<1>14. /\ open \subseteq UUID /\ closed \subseteq UUID
       /\ Gets(c) => Reads(c, "value") \in open \cup closed
  BY Types DEF ProviderTypes, Valued, Gets
<1>15. /\ handle' \in [Caller -> AnyUUID \cup {NoHandle}]
       /\ handle'[c] \in open \cup closed \cup {NilUUID, NoHandle}
       /\ \A d \in Caller \ {c} : handle'[d] = handle[d]
  <2>1. CASE handle' = handle
    BY <2>1 DEF TypeOK, ServedInv
  <2>2. CASE /\ handle' = [handle EXCEPT ![c] = call[c].id]
             /\ call[c].op = "check"
    <3>1. call[c].id \in open \cup closed \cup {NilUUID}
      BY <2>2 DEF CallInv, ServedInv, Op, LookupOp
    <3> QED
      BY <1>14, <2>2, <3>1 DEF TypeOK, AnyUUID
  <2> QED
    BY <2>1, <2>2 DEF Return
<1>2. TypeOK'
  <2>1. Registry!TypeOK'
    BY <1>0, Types, TypesNext DEF provider, ProviderTypes
  <2>2. NoCall \in [op : Op \cup {NoOp}, id : AnyUUID, args : Args]
    BY DEF NoCall, AnyUUID, Args
  <2> QED
    BY <1>0, <1>1, <1>14, <1>15, <2>1, <2>2 DEF network, TypeOK
<1>3. CallInv'
  BY <1>0, <1>1, <1>12, <1>13, <1>14, <1>15 DEF CallInv, Idle, NoCall,
     TypeOK, provider, NoOp, Op, AdminOp, MakeOp, RemoveOp, LookupOp
<1>4. ServedInv'
  BY <1>0, <1>1, <1>12, <1>13, <1>14, <1>15 DEF ServedInv, provider, network,
     TypeOK
<1>5. RequestInv'
  BY <1>0, <1>1, <1>12, <1>13, <1>14, <1>15 DEF RequestInv, Waited, provider,
     network, TypeOK, Request
<1>6. OwedInv'
  BY <1>0, <1>1, <1>12, <1>13, <1>14, <1>15 DEF OwedInv, Waited, provider,
     network, TypeOK, Request
<1>7. VerdictInv'
  BY <1>0, <1>1, <1>12, <1>13, <1>14, <1>15 DEF VerdictInv, GivenInv, Hands,
     TypeOK, provider, network, Request
<1>8. GivenInv'
  BY <1>0, <1>1, <1>12, <1>13, <1>14, <1>15 DEF GivenInv, Hands, provider,
     network, TypeOK
<1>9. Truthful'
  BY <1>0, <1>1, <1>12, <1>13, <1>14, <1>15 DEF Truthful, provider, network,
     TypeOK
<1>10. Valued'
  BY <1>0, <1>1, <1>12, <1>13, <1>14, <1>15 DEF Valued, GivenInv, Gets,
     provider, network, TypeOK
<1>11. NoOrphan'
  BY <1>0, <1>1, <1>12, <1>13, <1>14, <1>15 DEF NoOrphan, Gets, provider,
     network, TypeOK
<1> QED
  BY <1>2, <1>3, <1>4, <1>5, <1>6, <1>7, <1>8, <1>9, <1>10, <1>11

-----------------------------------------------------------------------------
(* Requests and responses.                                                 *)

(***************************************************************************)
(* Dispatch: a request leaves the network for the handler that owes its    *)
(* answer.                                                                 *)
(***************************************************************************)
LEMMA DispatchStep ==
  ASSUME IInv, NEW h \in Handler, NEW m \in requests, Dispatch(h, m)
  PROVE  IInv'
<1> USE DEF IInv, LinkInv
<1>1. \A d \in Caller : /\ call'[d] = call[d] /\ answer'[d] = answer[d]
                        /\ begun'[d] = begun[d]
                        /\ Succeeds(d)' <=> Succeeds(d)
                        /\ \A text : Throws(d, text)' <=> Throws(d, text)
                        /\ Reads(d, "value")' = Reads(d, "value")
                        /\ Gets(d)' <=> Gets(d)
  BY Same DEF Dispatch, callers, Registry!Invoke
<1>0. /\ phase[h] = "idle" /\ verdict[h] = "none" /\ owed[h] = Nobody
      /\ op'  = [op EXCEPT ![h] = m.op] /\ m.op \in Op
      /\ tok' = [tok EXCEPT ![h] = m.token] /\ m.token \in Token
      /\ id'  = [id EXCEPT ![h] = m.id] /\ m.id \in AnyUUID
      /\ phase' = [phase EXCEPT ![h] = phase'[h]]
      /\ phase'[h] \in {"called", "admitted"}
      /\ owed' = [owed EXCEPT ![h] = IF m.op = "hello" THEN Nobody ELSE m]
      /\ requests' = requests \ {m} /\ m \in Request
      /\ UNCHANGED <<open, closed, token, verdict, callers>>
  <2>1. m \in Request /\ ProviderTypes
    BY Types DEF TypeOK
  <2>2. m.op \in Op /\ m.token \in Token /\ m.id \in AnyUUID
    BY <2>1 DEF Request
  <2>3. phase[h] = "idle"
    BY DEF Dispatch, Registry!Invoke
  <2>4. verdict[h] = "none" /\ owed[h] = Nobody
    BY <2>3 DEF VerdictInv, OwedInv
  <2>5. PICK o, t, i : /\ op'  = [op EXCEPT ![h] = o]
                       /\ tok' = [tok EXCEPT ![h] = t]
                       /\ id'  = [id EXCEPT ![h] = i]
                       /\ phase' = [phase EXCEPT ![h] =
                             IF o \in Registry!AdminOp THEN "called"
                             ELSE "admitted"]
    BY DEF Dispatch, Registry!Invoke
  <2>6. o = m.op /\ t = m.token /\ i = m.id
    BY <2>1, <2>5 DEF Dispatch, ProviderTypes
  <2>7. phase' = [phase EXCEPT ![h] = phase'[h]]
        /\ phase'[h] \in {"called", "admitted"}
    BY <2>1, <2>5 DEF ProviderTypes
  <2> QED
    BY <2>1, <2>2, <2>3, <2>4, <2>5, <2>6, <2>7
       DEF Dispatch, Registry!Invoke
<1>12. Nobody # m
  BY <1>0, NobodyAssumption
<1>2. TypeOK'
  <2>1. Registry!TypeOK'
    BY <1>0, Types, TypesNext DEF ProviderTypes
  <2> QED
    BY <1>0, <2>1 DEF callers, TypeOK
<1>3. CallInv'
  BY <1>0, <1>1, <1>12 DEF CallInv, Idle, NoCall, callers
<1>4. ServedInv'
  BY <1>0, <1>1, <1>12 DEF ServedInv, callers
<1>5. RequestInv'
  BY <1>0, <1>1, <1>12 DEF RequestInv, Waited, TypeOK, callers
<1>6. OwedInv'
  <2>0. /\ call' = call /\ answer' = answer
        /\ \A r : Waited(r)' <=> Waited(r)
    BY <1>0 DEF callers, Waited
  <2>1. /\ owed'[h] = IF m.op = "hello" THEN Nobody ELSE m
        /\ op'[h] = m.op /\ id'[h] = m.id /\ phase'[h] # "idle"
        /\ \A g \in Handler \ {h} :
             /\ owed'[g] = owed[g] /\ op'[g] = op[g] /\ id'[g] = id[g]
             /\ phase'[g] = phase[g] /\ verdict'[g] = verdict[g]
    BY <1>0, Types DEF TypeOK, ProviderTypes
  <2>2. m.op # "hello" =>
          Waited(m) /\ \A g \in Handler : owed[g] # Nobody =>
                                            owed[g].from # m.from
    BY DEF RequestInv
  <2> DEFINE O(g) ==
        /\ owed[g] # Nobody =>
             /\ Waited(owed[g])
             /\ phase[g] # "idle" /\ op[g] = owed[g].op /\ op[g] # "hello"
             /\ \/ verdict[g] = "ok" /\ op[g] \in MakeOp
                \/ id[g] = owed[g].id
             /\ \A k \in Handler \ {g} :
                  owed[k] # Nobody => owed[k].from # owed[g].from
        /\ phase[g] \in {"called", "admitted"} /\ op[g] # "hello" =>
             owed[g] # Nobody
  <2>3. O(h)'
    <3>1. CASE m.op = "hello"
      BY <2>1, <3>1
    <3>2. CASE m.op # "hello"
      <4>1. owed'[h] = m /\ Waited(m)'
        BY <2>0, <2>1, <2>2, <3>2
      <4>2. \A k \in Handler \ {h} : owed'[k] # Nobody =>
                                      owed'[k].from # owed'[h].from
        BY <2>1, <2>2, <3>2, <4>1
      <4>3. Waited(owed[h])'
        BY <2>0, <4>1 DEF Waited
      <4> QED
        BY <1>12, <2>1, <3>2, <4>1, <4>2, <4>3
    <3> QED
      BY <3>1, <3>2
  <2>4. ASSUME NEW g \in Handler \ {h} PROVE O(g)'
    <3>1. O(g)
      BY DEF OwedInv
    <3>2. owed[g] # Nobody =>
            \A k \in Handler \ {g} :
              owed'[k] # Nobody => owed'[k].from # owed[g].from
      BY <2>1, <2>2, <3>1
    <3>3. owed'[g] # Nobody => Waited(owed[g])'
      BY <2>0, <2>1, <3>1 DEF Waited
    <3> QED
      BY <2>1, <3>1, <3>2, <3>3 DEF Waited
  <2> QED
    BY <2>3, <2>4 DEF OwedInv
<1>7. VerdictInv'
  BY <1>0, <1>1, <1>12, Types DEF VerdictInv, callers, TypeOK, ProviderTypes
<1>8. GivenInv'
  BY <1>0, <1>1, <1>12, Types DEF GivenInv, Hands, callers, TypeOK,
     ProviderTypes
<1>9. Truthful'
  BY <1>0, <1>1, <1>12 DEF Truthful, callers
<1>10. Valued'
  BY <1>0, <1>1, <1>12 DEF Valued, callers
<1>11. NoOrphan'
  BY <1>0, <1>1, <1>12, Types DEF NoOrphan, callers, TypeOK, ProviderTypes
<1> QED
  BY <1>2, <1>3, <1>4, <1>5, <1>6, <1>7, <1>8, <1>9, <1>10, <1>11

(* Finish: a handler that owes nothing ends (ProviderImpl.hpp:319-321).    *)
LEMMA FinishStep ==
  ASSUME IInv, NEW h \in Handler, Finish(h)
  PROVE  IInv'
<1> USE DEF IInv, LinkInv
<1>1. \A d \in Caller : /\ call'[d] = call[d] /\ answer'[d] = answer[d]
                        /\ begun'[d] = begun[d]
                        /\ Succeeds(d)' <=> Succeeds(d)
                        /\ \A text : Throws(d, text)' <=> Throws(d, text)
                        /\ Reads(d, "value")' = Reads(d, "value")
                        /\ Gets(d)' <=> Gets(d)
  BY Same DEF Finish, callers, Registry!Finish
<1>0. /\ owed[h] = Nobody
      /\ phase' = [phase EXCEPT ![h] = "idle"]
      /\ op'  = [op EXCEPT ![h] = NoOp]
      /\ tok' = [tok EXCEPT ![h] = NoToken]
      /\ id'  = [id EXCEPT ![h] = NilUUID]
      /\ verdict' = [verdict EXCEPT ![h] = "none"]
      /\ UNCHANGED <<open, closed, token, network, callers>>
  BY DEF Finish, Registry!Finish, Registry!NoOp, NoOp
<1>2. TypeOK'
  <2>1. Registry!TypeOK'
    BY <1>0, Types, TypesNext, ValuesAssumption DEF ProviderTypes, AnyUUID
  <2> QED
    BY <1>0, <2>1 DEF callers, network, TypeOK
<1>3. CallInv'
  BY <1>0, <1>1 DEF CallInv, Idle, NoCall, callers, network
<1>4. ServedInv'
  BY <1>0, <1>1 DEF ServedInv, callers, network
<1>5. RequestInv'
  BY <1>0, <1>1 DEF RequestInv, Waited, callers, network
<1>6. OwedInv'
  BY <1>0, <1>1, Types DEF OwedInv, Waited, callers, network, ProviderTypes
<1>7. VerdictInv'
  BY <1>0, <1>1, Types DEF VerdictInv, callers, network, ProviderTypes
<1>8. GivenInv'
  BY <1>0, <1>1, Types DEF GivenInv, Hands, callers, network, ProviderTypes
<1>9. Truthful'
  BY <1>0, <1>1 DEF Truthful, callers, network
<1>10. Valued'
  BY <1>0, <1>1 DEF Valued, callers, network
<1>11. NoOrphan'
  BY <1>0, <1>1, Types DEF NoOrphan, callers, network, ProviderTypes
<1> QED
  BY <1>2, <1>3, <1>4, <1>5, <1>6, <1>7, <1>8, <1>9, <1>10, <1>11

(***************************************************************************)
(* Respond: the caller reads what the handler has decided                  *)
(* (RequestResult.hpp:82-93, ProviderImpl.hpp and the lambdas of           *)
(* Admin.cpp, Client.cpp and PhonebookHandle.cpp).                         *)
(***************************************************************************)
LEMMA RespondStep ==
  ASSUME IInv, NEW h \in Handler, Respond(h)
  PROVE  IInv'
<1> USE DEF IInv, LinkInv
<1>0. PICK c \in Caller : c = owed[h].from
  BY Asked DEF Respond
<1> DEFINE T == ReplyType(op[h])
<1>1. PICK r \in Outcome(h) : answer' = [answer EXCEPT ![c] = Write(T, r)]
  BY <1>0 DEF Respond, SendResult
<1>2. /\ phase[h] = "decided" /\ owed[h] # Nobody
      /\ owed' = [owed EXCEPT ![h] = Nobody]
      /\ UNCHANGED <<open, closed, token, phase, op, tok, id, verdict>>
      /\ UNCHANGED <<requests, call, handle, known, begun>>
  BY DEF Respond, SendResult, provider
<1>3. /\ c \in Caller /\ op[h] \in Op \ {"hello"} /\ call[c].op = op[h]
      /\ call[c].args = owed[h].args /\ answer[c] = NoAnswer
      /\ op[h] \notin MakeOp => call[c].id = id[h]
      /\ begun[c] \subseteq open \cup closed
  BY <1>0, <1>2, Asked
<1>4. \/ verdict[h] = "denied"
      \/ op[h] \in MakeOp /\ verdict[h] = "refused"
      \/ /\ op[h] \in MakeOp /\ verdict[h] = "ok"
         /\ id[h] \in (open \cup closed) \ (begun[c] \cup known)
      \/ /\ op[h] \in RemoveOp /\ verdict[h] \in {"ok", "failed"}
         /\ id[h] \in begun[c] \cap closed
      \/ op[h] \in LookupOp /\ verdict[h] = "found" /\ id[h] \in begun[c]
      \/ op[h] \notin MakeOp /\ verdict[h] = "notfound" /\ id[h] \notin open
  BY <1>0, <1>2 DEF VerdictInv
<1>5. Says(h, r)
  BY <1>3, <1>4, OutcomeSays DEF AdminOp
<1>6. /\ T \in ResultTypes /\ ResultType(call[c].op) = T
      /\ r \in Results(T)
  BY <1>3, <1>5, SameType DEF Says
<1>7. /\ answer'[c] = Write(T, r) /\ answer'[c] # NoAnswer
      /\ answer'[c] \in Archive(ResultType(call[c].op))
      /\ Read(T, answer'[c]) = r
      /\ \A d \in Caller \ {c} : answer'[d] = answer[d]
  BY <1>1, <1>3, <1>6, Received, Sendable DEF CallInv
<1>8. /\ Succeeds(c)' <=> r["m_success"]
      /\ \A text : Throws(c, text)' => ~r["m_success"] /\ r["m_error"] = text
      /\ T # "bool" => Reads(c, "value")' = r["m_value"]
  <2>1. call'[c] = call[c]
    BY <1>2
  <2>2. /\ Reads(c, "success")' = r["m_success"]
        /\ Reads(c, "error")' = r["m_error"]
        /\ T # "bool" => Reads(c, "value")' = r["m_value"]
    BY <1>6, <1>7, <2>1, Access DEF Reads
  <2>3. r["m_success"] \in BOOLEAN
    BY <1>6 DEF Results
  <2> QED
    BY <1>7, <2>2, <2>3 DEF Succeeds, Throws
<1>9. \A d \in Caller \ {c} :
        /\ Succeeds(d)' <=> Succeeds(d)
        /\ \A text : Throws(d, text)' <=> Throws(d, text)
        /\ Reads(d, "value")' = Reads(d, "value")
        /\ Gets(d)' <=> Gets(d)
  BY <1>2, <1>7, Same
<1>10. ~Succeeds(c) /\ ~Gets(c)
  BY <1>3, Silent
(* What the caller is told.                                                *)
<1>11. /\ Succeeds(c)' => verdict[h] \in {"ok", "found"}
       /\ op[h] # "sum" /\ verdict[h] \in {"ok", "found"} => Succeeds(c)'
       /\ \A text : Throws(c, text)' =>
            \/ text = verdict[h]
            \/ op[h] = "sum" /\ text = "failed"
       /\ op[h] \in MakeOp /\ Succeeds(c)' => Reads(c, "value")' = id[h]
       /\ op[h] = "sum" /\ Succeeds(c)' =>
            \A z \in Int32(Width) :
              z = owed[h].args[1] + owed[h].args[2] => Reads(c, "value")' = z
       /\ Gets(c)' <=> op[h] \in MakeOp /\ verdict[h] = "ok"
  <2>1. op[h] \in MakeOp \cup {"sum"} => T # "bool"
    BY DEF ReplyType, MakeOp
  <2>2. Gets(c)' <=> op[h] \in MakeOp /\ Succeeds(c)'
    BY <1>2, <1>3 DEF Gets
  <2> HIDE DEF T
  <2> QED
    BY <1>3, <1>4, <1>5, <1>8, <2>1, <2>2
       DEF Says, MakeOp, RemoveOp, LookupOp
<1> HIDE DEF T
<1>12. TypeOK'
  <2>1. Registry!TypeOK'
    BY <1>2, Types, TypesNext DEF ProviderTypes
  <2> QED
    BY <1>2, <1>3, <1>7, <2>1 DEF TypeOK
<1>13. CallInv'
  BY <1>1, <1>2, <1>3, <1>7 DEF CallInv, Idle, Op, AdminOp, MakeOp, RemoveOp,
     LookupOp, NoOp
<1>14. ServedInv'
  BY <1>2 DEF ServedInv
<1>15. /\ owed'[h] = Nobody
       /\ \A g \in Handler \ {h} : owed'[g] = owed[g]
       /\ \A g \in Handler \ {h} : owed[g] # Nobody => owed[g].from # c
  BY <1>0, <1>2 DEF TypeOK, OwedInv
<1>16. RequestInv'
  <2>1. \A m \in requests : m.op # "hello" => m.from # c
    BY <1>0, <1>2 DEF RequestInv
  <2>2. \A m \in requests : m.op # "hello" =>
          m.from \in Caller /\ answer'[m.from] = answer[m.from]
    BY <1>7, <2>1 DEF TypeOK, Request
  <2> QED
    BY <1>2, <1>15, <2>2 DEF RequestInv, Waited
<1>17. OwedInv'
  BY <1>2, <1>3, <1>7, <1>15 DEF OwedInv, Waited, TypeOK, Request
<1>18. VerdictInv'
  BY <1>2, <1>15 DEF VerdictInv
<1>19. GivenInv'
  <2>1. /\ ~Hands(h)'
        /\ \A g \in Handler \ {h} : Hands(g)' <=> Hands(g)
        /\ Gets(c)' => Hands(h)
    BY <1>2, <1>11, <1>15 DEF Hands
  <2>2. \A g, k \in Handler :
          Hands(g)' /\ Hands(k)' /\ id'[g] = id'[k] => g = k
    BY <1>2, <2>1 DEF GivenInv
  <2>3. Gets(c)' => Reads(c, "value")' = id[h]
    BY <1>11 DEF Gets
  <2>4. ASSUME NEW d \in Caller, NEW g \in Handler, Gets(d)', Hands(g)'
        PROVE  Reads(d, "value")' # id'[g]
    <3>1. g # h /\ Hands(g)
      BY <2>1, <2>4
    <3>2. CASE d = c
      BY <1>2, <2>1, <2>3, <2>4, <3>1, <3>2 DEF GivenInv
    <3>3. CASE d # c
      BY <1>2, <1>9, <2>4, <3>1, <3>3 DEF GivenInv
    <3> QED
      BY <3>2, <3>3
  <2>5. ASSUME NEW d \in Caller \ {c}, Gets(c)', Gets(d)'
        PROVE  Reads(d, "value")' # Reads(c, "value")'
    BY <1>9, <2>1, <2>3, <2>5 DEF GivenInv
  <2>6. \A d, e \in Caller :
          Gets(d)' /\ Gets(e)' /\ Reads(d, "value")' = Reads(e, "value")'
            => d = e
    BY <1>9, <2>5 DEF GivenInv
  <2> QED
    BY <2>2, <2>4, <2>6 DEF GivenInv
<1>20. Truthful'
  BY <1>2, <1>3, <1>4, <1>9, <1>11
     DEF Truthful, MakeOp, RemoveOp, LookupOp
<1>21. Valued'
  <2> DEFINE V(d) ==
        Succeeds(d) =>
          /\ call[d].op \in MakeOp =>
               Reads(d, "value")
                 \in (open \cup closed) \ (begun[d] \cup known)
          /\ call[d].op = "sum" =>
               LET sum == call[d].args[1] + call[d].args[2]
               IN  sum \in Int32(Width) => Reads(d, "value") = sum
  <2>1. ASSUME NEW d \in Caller \ {c} PROVE V(d)'
    <3>1. V(d)
      BY DEF Valued
    <3> QED
      BY <1>2, <1>9, <3>1
  <2>2. V(c)'
    <3> SUFFICES ASSUME Succeeds(c)' PROVE
                   /\ op[h] \in MakeOp =>
                        Reads(c, "value")'
                          \in (open \cup closed) \ (begun[c] \cup known)
                   /\ op[h] = "sum" =>
                        \A z \in Int32(Width) :
                          z = owed[h].args[1] + owed[h].args[2] =>
                            Reads(c, "value")' = z
      BY <1>2, <1>3
    <3> QED
      BY <1>3, <1>4, <1>11 DEF MakeOp, RemoveOp, LookupOp
  <2> QED
    BY <2>1, <2>2 DEF Valued
<1>22. NoOrphan'
  <2> SUFFICES ASSUME NEW u \in open \ known
               PROVE  \/ \E d \in Caller :
                           Gets(d)' /\ Reads(d, "value")' = u
                      \/ \E g \in Handler :
                           /\ owed'[g] # Nobody /\ verdict[g] = "ok"
                           /\ op[g] \in MakeOp /\ id[g] = u
    BY <1>2 DEF NoOrphan, Gets
  <2>1. CASE \E d \in Caller : Gets(d) /\ Reads(d, "value") = u
    BY <1>9, <1>10, <2>1
  <2>2. CASE \E g \in Handler \ {h} :
               /\ owed[g] # Nobody /\ verdict[g] = "ok"
               /\ op[g] \in MakeOp /\ id[g] = u
    BY <1>15, <2>2
  <2>3. CASE verdict[h] = "ok" /\ op[h] \in MakeOp /\ id[h] = u
    BY <1>11, <2>3 DEF Gets
  <2> QED
    BY <2>1, <2>2, <2>3 DEF NoOrphan, Gets
<1> QED
  BY <1>12, <1>13, <1>14, <1>16, <1>17, <1>18, <1>19, <1>20, <1>21, <1>22

-----------------------------------------------------------------------------
(* The inductive invariant.                                                *)

(* No call has been made, and no phonebook was closed.                     *)
LEMMA InitInv == Init => IInv
<1> SUFFICES ASSUME Init PROVE IInv
  OBVIOUS
<1>1. /\ open \subseteq UUID /\ closed = {} /\ token = NoToken
      /\ phase = [h \in Handler |-> "idle"] /\ op = [h \in Handler |-> NoOp]
      /\ tok = [h \in Handler |-> NoToken]
      /\ id = [h \in Handler |-> NilUUID]
      /\ verdict = [h \in Handler |-> "none"]
  BY DEF Init, Registry!Init, Registry!NoOp, NoOp
<1>2. /\ owed = [h \in Handler |-> Nobody] /\ requests = {}
      /\ call = [c \in Caller |-> NoCall]
      /\ answer = [c \in Caller |-> NoAnswer]
      /\ handle = [c \in Caller |-> NoHandle] /\ known = open
      /\ begun = [c \in Caller |-> {}]
  BY DEF Init
<1>3. \A c \in Caller : /\ answer[c] = NoAnswer /\ ~Succeeds(c) /\ ~Gets(c)
                        /\ \A text : ~Throws(c, text)
  BY <1>2, Silent
<1>4. TypeOK
  <2>1. Registry!TypeOK
    BY <1>1, ValuesAssumption DEF Registry!TypeOK, Registry!Phase,
       Registry!Verdict, Registry!NoOp, NoOp, Registry!AnyUUID
  <2>2. NoCall \in [op : Op \cup {NoOp}, id : AnyUUID, args : Args]
    BY DEF NoCall, AnyUUID, Args
  <2> QED
    BY <1>1, <1>2, <2>1, <2>2 DEF TypeOK
<1>5. CallInv
  BY <1>2, <1>3 DEF CallInv, Idle, NoCall, NoOp, Op, AdminOp, MakeOp,
     RemoveOp, LookupOp
<1>6. ServedInv
  BY <1>1, <1>2 DEF ServedInv
<1>7. RequestInv /\ OwedInv /\ VerdictInv
  BY <1>1, <1>2 DEF RequestInv, OwedInv, VerdictInv
<1>8. GivenInv
  BY <1>2, <1>3 DEF GivenInv, Hands
<1>9. Truthful /\ Valued /\ NoOrphan
  BY <1>2, <1>3 DEF Truthful, Valued, NoOrphan
<1> QED
  BY <1>4, <1>5, <1>6, <1>7, <1>8, <1>9 DEF IInv, LinkInv

(* A step in which nothing changes.                                        *)
LEMMA StutterStep ==
  ASSUME IInv, UNCHANGED vars
  PROVE  IInv'
<1> USE DEF IInv, LinkInv, vars, provider, network, callers
<1>1. \A d \in Caller : /\ call'[d] = call[d] /\ answer'[d] = answer[d]
                        /\ Succeeds(d)' <=> Succeeds(d)
                        /\ \A text : Throws(d, text)' <=> Throws(d, text)
                        /\ Reads(d, "value")' = Reads(d, "value")
                        /\ Gets(d)' <=> Gets(d)
  BY Same
<1>2. TypeOK'
  <2>1. Registry!TypeOK'
    BY Types, TypesNext DEF ProviderTypes
  <2> QED
    BY <2>1 DEF TypeOK
<1>3. CallInv' /\ ServedInv'
  BY <1>1 DEF CallInv, ServedInv, Idle, NoCall
<1>4. RequestInv' /\ OwedInv' /\ VerdictInv'
  BY DEF RequestInv, OwedInv, VerdictInv, Waited
<1>5. GivenInv'
  BY <1>1 DEF GivenInv, Hands
<1>6. Truthful' /\ Valued' /\ NoOrphan'
  BY <1>1 DEF Truthful, Valued, NoOrphan
<1> QED
  BY <1>2, <1>3, <1>4, <1>5, <1>6

(* Each function of Admin, Client and PhonebookHandle.                     *)
LEMMA CallerStepInv ==
  ASSUME IInv, NEW c \in Caller, CallerStep(c)
  PROVE  IInv'
<1>1. /\ known \cup Stray \subseteq open \cup closed \cup {NilUUID}
      /\ handle[c] # NoHandle =>
           handle[c] \in open \cup closed \cup {NilUUID}
      /\ NoArgs \in Args /\ NoToken \in Token
      /\ MakeOp \cup RemoveOp \cup {"check", "sum"} \subseteq Op \ {"hello"}
      /\ (RemoveOp \cup {"check", "sum"}) \cap MakeOp = {}
  BY ValuesAssumption, ServiceAssumption
     DEF IInv, LinkInv, ServedInv, Args, Op, AdminOp, MakeOp, RemoveOp,
     LookupOp
<1>2. CASE MakePhonebook(c)
  <2>1. PICK o \in MakeOp, t \in Token : Send(c, o, t, NilUUID, NoArgs)
    BY <1>2 DEF MakePhonebook
  <2> QED
    BY <1>1, <2>1, SendStep
<1>3. CASE RemovePhonebook(c)
  <2>1. PICK o \in RemoveOp, t \in Token, i \in known \cup Stray :
          Send(c, o, t, i, NoArgs)
    BY <1>3 DEF RemovePhonebook
  <2>2. o \in Op \ {"hello"} /\ o \notin MakeOp
        /\ i \in open \cup closed \cup {NilUUID}
    BY <1>1
  <2> QED
    BY <1>1, <2>1, <2>2, SendStep
<1>4. CASE CheckHandle(c)
  <2>1. PICK i \in known \cup Stray :
          Send(c, "check", NoToken, i, NoArgs)
    BY <1>4 DEF CheckHandle
  <2>2. "check" \in Op \ {"hello"} /\ "check" \notin MakeOp
        /\ i \in open \cup closed \cup {NilUUID}
    BY <1>1
  <2> QED
    BY <1>1, <2>1, <2>2, SendStep
<1>5. CASE ComputeSum(c)
  <2>1. PICK x \in Addend, y \in Addend :
          handle[c] # NoHandle /\ Send(c, "sum", NoToken, handle[c], <<x, y>>)
    BY <1>5 DEF ComputeSum
  <2>2. "sum" \in Op \ {"hello"} /\ "sum" \notin MakeOp /\ <<x, y>> \in Args
        /\ handle[c] \in open \cup closed \cup {NilUUID}
    BY <1>1, <2>1 DEF Args
  <2> QED
    BY <1>1, <2>1, <2>2, SendStep
<1> QED
  BY <1>2, <1>3, <1>4, <1>5, MakeHandleStep, SayHelloStep, ReturnStep
     DEF CallerStep

(* Each step of the provider.                                              *)
LEMMA HandlerStepInv ==
  ASSUME IInv, NEW h \in Handler, HandlerStep(h)
  PROVE  IInv'
<1>1. CASE \E m \in requests : Dispatch(h, m)
  BY <1>1, DispatchStep
<1>2. CASE Work(h)
  BY <1>2, WorkIs, AdmitsStep, SettlesStep, OpensStep, RemovesStep DEF IInv
<1> QED
  BY <1>1, <1>2, RespondStep, FinishStep DEF HandlerStep

(* Every step of the service preserves the invariant.                      *)
LEMMA NextInv == IInv /\ [Next]_vars => IInv'
  BY SetTokenStep, CallerStepInv, HandlerStepInv, StutterStep DEF Next

-----------------------------------------------------------------------------
(* The theorems.                                                           *)

(***************************************************************************)
(* Invariance: every call, its request, the handler that owes it an answer *)
(* and that answer belong together, in every state (Admin.cpp, Client.cpp, *)
(* PhonebookHandle.cpp and the handlers of ProviderImpl.hpp).              *)
(***************************************************************************)
THEOREM Invariance == Spec => []IInv
  BY InitInv, NextInv, PTL DEF Spec

(* TypeCorrect: the variables have their types.                            *)
THEOREM TypeCorrect == Spec => []TypeOK
<1>1. IInv => TypeOK
  BY DEF IInv
<1> QED
  BY <1>1, Invariance, PTL

(***************************************************************************)
(* Told: what the functions of Admin, Client and PhonebookHandle tell      *)
(* their callers was so during the call (Client.cpp:57-68,                 *)
(* Admin.cpp:75-90, PhonebookHandle.cpp:60-65).                            *)
(***************************************************************************)
THEOREM Told == Spec => []Truthful
<1>1. IInv => Truthful
  BY DEF IInv
<1> QED
  BY <1>1, Invariance, PTL

(***************************************************************************)
(* Given: the identifier or the sum that a caller is given was made for    *)
(* its call, for an int32_t of any width (Admin.cpp:48-52,                 *)
(* PhonebookHandle.cpp:60-62, DummyBackend.cpp:25-29).                     *)
(***************************************************************************)
THEOREM Given == Spec => []Valued
<1>1. IInv => Valued
  BY DEF IInv
<1> QED
  BY <1>1, Invariance, PTL

(***************************************************************************)
(* Owned: every phonebook that is served is known to somebody, or its      *)
(* identifier is on its way (ProviderImpl.hpp:124-168, Admin.cpp:48-52).   *)
(***************************************************************************)
THEOREM Owned == Spec => []NoOrphan
<1>1. IInv => NoOrphan
  BY DEF IInv
<1> QED
  BY <1>1, Invariance, PTL

(* Only the removal of a phonebook takes it away.                          *)
LEMMA Shrinks ==
  ASSUME IInv, [Next]_vars, NEW u \in open \ open'
  PROVE  \E h \in Handler : Removes(h) /\ u = id[h]
<1> USE DEF provider, network, callers
<1>1. ASSUME UNCHANGED open PROVE FALSE
  BY <1>1
<1>2. PICK h \in Handler : Work(h)
  <2>1. ~UNCHANGED vars
    BY <1>1 DEF vars
  <2>2. ~SetToken
    BY <1>1 DEF SetToken, Registry!SetToken
  <2>3. ASSUME NEW c \in Caller, CallerStep(c) PROVE FALSE
    BY <1>1, <2>3 DEF CallerStep, MakePhonebook, RemovePhonebook, MakeHandle,
       CheckHandle, SayHello, ComputeSum, Return, Send
  <2>4. ASSUME NEW h \in Handler, HandlerStep(h) PROVE Work(h)
    BY <1>1, <2>4 DEF HandlerStep, Dispatch, Respond, SendResult, Finish,
       Registry!Invoke, Registry!Finish
  <2> QED
    BY <2>1, <2>2, <2>3, <2>4 DEF Next
<1>3. Admits(h) \/ Settles(h) \/ Removes(h)
      \/ \E w \in UUID \ (open \cup closed) : Opens(h, w)
  BY <1>2, WorkIs DEF IInv
<1> QED
  BY <1>1, <1>3 DEF Admits, Settles, Opens, Removes

(***************************************************************************)
(* TakenIfAsked: no phonebook goes away unless a caller asked for exactly  *)
(* that and is still waiting to be told (Admin.cpp:69-91).                 *)
(***************************************************************************)
THEOREM TakenIfAsked == Spec => AskedFor
<1>1. IInv /\ [Next]_vars =>
        [\A u \in open \ open' : \E c \in Caller :
           call[c].op \in RemoveOp /\ call[c].id = u
             /\ answer[c] = NoAnswer]_vars
  <2> SUFFICES ASSUME IInv, [Next]_vars, NEW u \in open \ open'
               PROVE  \E c \in Caller : /\ call[c].op \in RemoveOp
                                        /\ call[c].id = u
                                        /\ answer[c] = NoAnswer
    OBVIOUS
  <2>1. PICK h \in Handler : Removes(h) /\ u = id[h]
    BY Shrinks
  <2>2. op[h] \in RemoveOp /\ op[h] # "hello" /\ op[h] \notin MakeOp
        /\ phase[h] \in {"called", "admitted"}
    BY <2>1 DEF Removes, Decides, RemoveOp, MakeOp
  <2>3. owed[h] # Nobody
    BY <2>2 DEF IInv, LinkInv, OwedInv
  <2> QED
    BY <2>1, <2>2, <2>3, Asked
<1> QED
  BY <1>1, Invariance, PTL DEF Spec, AskedFor

===============================================================================
