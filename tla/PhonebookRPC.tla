----------------------------- MODULE PhonebookRPC -----------------------------
(***************************************************************************)
(* The vocabulary shared by the specifications of a yp provider: the RPCs  *)
(* it registers, who runs them and the values they carry.                  *)
(*                                                                         *)
(* A handler is the user-level thread in which thallium runs one RPC at a  *)
(* time.  Phonebook types and configurations are abstracted to what        *)
(* becomes of them (a backend is made, or it is not); a phonebook is known *)
(* by its UUID.                                                            *)
(***************************************************************************)

CONSTANTS
  Handler,     (* The threads that run RPC handlers.                       *)
  UUID,        (* The identifiers UUID::generate may return.               *)
  NilUUID,     (* An identifier no phonebook has: UUID() is all zeroes.    *)
  Token,       (* Security tokens, the empty one included.                 *)
  NoToken,     (* The empty token: requests are not checked.               *)
  TornToken    (* What m_token holds while setSecurityToken assigns it.    *)

ASSUME ValuesAssumption ==
  /\ NilUUID \notin UUID
  /\ NoToken \in Token
  /\ TornToken \notin Token

AnyUUID == UUID \cup {NilUUID}

(* The RPCs, by what they do to m_backends.                                *)
MakeOp   == {"create", "open"}
RemoveOp == {"close", "destroy"}
LookupOp == {"check", "hello", "sum"}

(* The Admin interface: these carry a token.                               *)
AdminOp == MakeOp \cup RemoveOp

Op == AdminOp \cup LookupOp

(* A handler between two RPCs runs none.                                   *)
NoOp == "noop"

(***************************************************************************)
(* "m_token.size() > 0 && m_token != token" refuses a request.  The string *)
(* is read without a lock, so a read that races with setSecurityToken may  *)
(* come out either way.                                                    *)
(***************************************************************************)
MayAdmit(current, given)  == current \in {NoToken, given, TornToken}
MayRefuse(current, given) == current \notin {NoToken, given}

===============================================================================
