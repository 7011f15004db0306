\* Two callers and two handlers: each caller's requests overtake the other's, and no call names a stray id.
CONSTANTS
  Caller = {c1, c2}
  Handler = {h1, h2}
  UUID = {u1}
  NilUUID = NilUUID
  NoHandle = NoHandle
  Unset = Unset
  Stray = {}
  Width = 2
  Addend = {0, 1}
  Nobody = Nobody
  NoToken = NoToken
  TornToken = TornToken
  Token = {NoToken}
  Used = {"create", "destroy", "check", "sum"}
  BackendSays = {"ok", "failed"}
SYMMETRY Symmetry
SPECIFICATION Spec
INVARIANTS
  TypeOK
  Truthful
  Valued
  NoOrphan
  IInv
PROPERTIES
  AskedFor
