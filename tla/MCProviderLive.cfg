\* Two handlers contend for the lock for ever: one may overtake the other again and again.
CONSTANTS
  Handler = {h1, h2}
  UUID = {u1}
  NilUUID = NilUUID
  NoToken = NoToken
  TornToken = TornToken
  Token = {NoToken, t1}
  Unlocked = Unlocked
  BackendSays = {"ok", "failed"}
SPECIFICATION FairSpec
PROPERTIES
  Served
