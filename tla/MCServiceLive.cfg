\* Two callers and one handler: the hellos and requests of one overtake those of the other again and again.
CONSTANTS
  Caller = {c1, c2}
  Handler = {h1}
  UUID = {u1}
  NilUUID = NilUUID
  NoHandle = NoHandle
  Unset = Unset
  Stray = {NilUUID}
  Width = 2
  Addend = {1}
  Nobody = Nobody
  NoToken = NoToken
  TornToken = TornToken
  Token = {NoToken}
  Used = {"close", "hello"}
  BackendSays = {"ok"}
SPECIFICATION FairSpec
INVARIANTS
  IInv
PROPERTIES
  Answered
