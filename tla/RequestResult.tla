---------------------------- MODULE RequestResult -----------------------------
(***************************************************************************)
(* RequestResult<T> (src/include/yp/RequestResult.hpp), in which an RPC    *)
(* sends back its outcome: an object whose accessors success(), error()    *)
(* and value() refer to members, two of them to the same one when T is     *)
(* bool or std::string.  A result is a record of its members.              *)
(***************************************************************************)
EXTENDS PhonebookRPC, Integers, Sequences

CONSTANT
  Unset        (* What a member holds that nobody has initialized.         *)

(* The texts of error(): none, or what went wrong.                         *)
NoError == ""
Error == {NoError, "denied", "refused", "failed", "notfound"}

-----------------------------------------------------------------------------
(* The members to which the accessors of RequestResult<T> refer.           *)

Generic == [success |-> "m_success", error |-> "m_error", value |-> "m_value"]

String  == [success |-> "m_success", error |-> "m_content",
            value |-> "m_content"]

Bool    == [success |-> "m_success", error |-> "m_error",
            value |-> "m_success"]

Accessors(T) ==
  IF T = "bool" THEN Bool ELSE IF T = "string" THEN String ELSE Generic

Get(T, result, f) == result[Accessors(T)[f]]

(* result.f() = x                                                          *)
Put(T, result, f, x) == [result EXCEPT ![Accessors(T)[f]] = x]

-----------------------------------------------------------------------------

(* The members, in the order in which serialize() handles them.            *)
Members(T) ==
  IF T = "bool" THEN <<"m_success", "m_error">>
  ELSE IF T = "string" THEN <<"m_success", "m_content">>
  ELSE <<"m_success", "m_error", "m_value">>

(* RequestResult<T>(): success is set, and an int32_t is not initialized.  *)
New(T) ==
  [m \in {Members(T)[i] : i \in DOMAIN Members(T)} |->
     IF m = "m_success" THEN TRUE
     ELSE IF m # "m_value" THEN NoError
     ELSE IF T = "UUID" THEN NilUUID ELSE Unset]

(* What the handlers and the backends do to report a failure.              *)
Failed(T, text) == Put(T, Put(T, New(T), "success", FALSE), "error", text)

(* serialize(): the members as they are sent, and as they are read into a  *)
(* RequestResult<T>.                                                       *)
Write(T, result) == [i \in DOMAIN Members(T) |-> result[Members(T)[i]]]

Read(T, archive) ==
  [m \in {Members(T)[i] : i \in DOMAIN Members(T)} |->
     archive[CHOOSE i \in DOMAIN Members(T) : Members(T)[i] = m]]

===============================================================================
