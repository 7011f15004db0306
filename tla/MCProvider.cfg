\* Two handlers, two phonebooks, and a token that is set, and set again, while requests are checked.
CONSTANTS
  Handler = {h1, h2}
  UUID = {u1, u2}
  NilUUID = NilUUID
  NoToken = NoToken
  TornToken = TornToken
  Token = {NoToken, t1, t2}
  Unlocked = Unlocked
  BackendSays = {"ok", "failed"}
SYMMETRY Symmetry
SPECIFICATION Spec
INVARIANTS
  TypeOK
  SoundView
  NoUseAfterFree
  NoLeak
  OneRemover
  RepliedOnce
  IInv
PROPERTIES
  NoRevival
  RegistrySpec
