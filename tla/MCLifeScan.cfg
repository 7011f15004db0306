\* Two execution streams: getConfig walks the map while handlers write it.
CONSTANTS
  Handler = {h1, h2}
  UUID = {u1, u2}
  NilUUID = NilUUID
  NoToken = NoToken
  TornToken = TornToken
  Token = {NoToken}
  Owner = Owner
  Reader = Reader
  Unlocked = Unlocked
  Streams = 2
  Blocking = {"make", "destroy", "use"}
  Finalizing = TRUE
  MaxEntries = 2
SYMMETRY Symmetry
SPECIFICATION Spec
INVARIANTS
  ScanSound
